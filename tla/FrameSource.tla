----------------------------- MODULE FrameSource -----------------------------
(***************************************************************************)
(* One frame of one screen from PipeWire on GNOME: the worker of a capture *)
(* (capture.rs, CaptureWorker) and the thread that runs the PipeWire loop  *)
(* (pipewire_source.rs).  They talk over a queue of commands, a channel    *)
(* for each reply, a bounded channel of frames and the flag `attached`.    *)
(* The worker waits two seconds for a reply and then goes on.  A share has *)
(* a node for each screen; any failed capture stops it, and the next one   *)
(* opens another (NativeShare).                                            *)
(***************************************************************************)
EXTENDS Naturals, Sequences

CONSTANTS Screens, NoNode,
          MaxSessions,    \* bound: shares that are opened
          MaxGiveUps      \* bound: replies that the worker does not wait for

FrameSourceAssumption ==
    Screens # {} /\ MaxSessions \in Nat /\ MaxGiveUps \in Nat /\ NoNode \notin (Nat \X Screens)

Nodes == (1..MaxSessions) \X Screens
FRAME_QUEUE_DEPTH == 2

VARIABLES
    current,   \* the number of the share that is open or will be
    live,      \* nodes that the compositor streams
    asked,     \* the node that is captured
    step,      \* where the worker is
    reply,     \* what came over the channel of its last command
    got,       \* the node of the frame it took, or NoNode
    events,    \* the channel of frames: [node, kind]
    commands,  \* for the loop: [op, node, heard], heard while the worker waits
    outgoing,  \* the reply the loop is about to send: [outcome, heard]
    stream,    \* its active stream: [node, ok, heard]
    attached,
    giveUps,
    lagging    \* history: when the capture began, the loop had something left to do or a stream

workervars == <<asked, step, reply, got>>
loopvars == <<commands, outgoing, stream, attached>>
vars == <<current, live, workervars, events, loopvars, giveUps, lagging>>

NoStream == [node |-> NoNode, ok |-> FALSE, heard |-> FALSE]
NothingDue == [outcome |-> "none", heard |-> FALSE]

Init ==
    /\ current = 1 /\ live = {} /\ asked = NoNode /\ step = "idle" /\ reply = "none" /\ got = NoNode
    /\ events = <<>> /\ commands = <<>> /\ outgoing = NothingDue /\ stream = NoStream /\ attached = FALSE
    /\ giveUps = 0 /\ lagging = FALSE

NodesOf(s) == {s} \X Screens
-----------------------------------------------------------------------------
(* NativeCapture::capture: the share is there or is opened; what came      *)
(* before the request was made is stale.                                   *)
Begin ==
    /\ step = "idle" /\ current <= MaxSessions
    /\ asked' \in NodesOf(current)
    /\ step' = "attach" /\ reply' = "none" /\ got' = NoNode
    /\ live' = live \cup NodesOf(current)
    /\ events' = [i \in DOMAIN events |-> IF events[i].kind = "fresh" THEN [events[i] EXCEPT !.kind = "stale"]
                                                                      ELSE events[i]]
    /\ lagging' = (commands # <<>> \/ outgoing # NothingDue \/ stream.ok)
    /\ UNCHANGED <<current, loopvars, giveUps>>

(* A failed capture stops the share.                                       *)
Fail == step' = "stop" /\ got' = NoNode

(* The checkpoint before attaching refuses, or the last one, or the        *)
(* picture cannot be encoded.                                              *)
Refused ==
    /\ step \in {"attach", "done"} /\ Fail
    /\ UNCHANGED <<current, live, asked, reply, events, loopvars, giveUps, lagging>>

(* attach: the channel is emptied, and then the command is sent.           *)
ClearEvents ==
    /\ step = "attach"
    /\ events' = <<>> /\ step' = "send"
    /\ UNCHANGED <<current, live, asked, reply, got, loopvars, giveUps, lagging>>

Send(op) == commands' = Append(commands, [op |-> op, node |-> asked, heard |-> TRUE]) /\ reply' = "none"

SendAttach ==
    /\ step = "send"
    /\ Send("attach") /\ step' = "attaching"
    /\ UNCHANGED <<current, live, asked, got, events, outgoing, stream, attached, giveUps, lagging>>

Attached ==
    /\ step = "attaching" /\ reply # "none"
    /\ step' = IF reply = "ok" THEN "collect" ELSE "detach"
    /\ UNCHANGED <<current, live, asked, reply, got, events, loopvars, giveUps, lagging>>

(* No reply in time: nobody will hear it.                                  *)
Unheard ==
    /\ giveUps < MaxGiveUps /\ giveUps' = giveUps + 1
    /\ reply = "none"
    /\ commands' = [i \in DOMAIN commands |-> [commands[i] EXCEPT !.heard = FALSE]]
    /\ outgoing' = [outgoing EXCEPT !.heard = FALSE]

AttachGivenUp ==
    /\ step = "attaching"
    /\ Unheard /\ step' = "detach"
    /\ UNCHANGED <<current, live, asked, reply, got, events, stream, attached, lagging>>

(* collect: a frame from before the request is passed over.                *)
TakeFrame ==
    /\ step = "collect" /\ events # <<>>
    /\ events' = Tail(events)
    /\ CASE Head(events).kind = "fresh" -> got' = Head(events).node /\ step' = "detach"
         [] Head(events).kind = "stale" -> UNCHANGED <<got, step>>
         [] Head(events).kind = "error" -> step' = "detach" /\ UNCHANGED got
    /\ UNCHANGED <<current, live, asked, reply, loopvars, giveUps, lagging>>

(* No frame in time, or the checkpoint refuses.                            *)
CollectFails ==
    /\ step = "collect" /\ step' = "detach"
    /\ UNCHANGED <<current, live, asked, reply, got, events, loopvars, giveUps, lagging>>

(* detach, on every way out: only what is attached needs the loop.         *)
Detach ==
    /\ step = "detach"
    /\ IF attached THEN Send("detach") /\ step' = "detaching" /\ UNCHANGED events
                   ELSE events' = <<>> /\ step' = "done" /\ UNCHANGED <<commands, reply>>
    /\ UNCHANGED <<current, live, asked, got, outgoing, stream, attached, giveUps, lagging>>

(* With or without a reply the worker goes on.                             *)
Detached ==
    /\ step = "detaching"
    /\ \/ reply # "none" /\ UNCHANGED <<commands, outgoing, giveUps>>
       \/ Unheard
    /\ attached' = FALSE /\ events' = <<>> /\ step' = "done"
    /\ UNCHANGED <<current, live, asked, reply, got, stream, lagging>>

(* After the last checkpoint the frame becomes a picture and the answer.   *)
Answer ==
    /\ step = "done" /\ got # NoNode
    /\ step' = "answer"
    /\ UNCHANGED <<current, live, asked, reply, got, events, loopvars, giveUps, lagging>>

Answered ==
    /\ step = "answer"
    /\ step' = "idle" /\ got' = NoNode
    /\ UNCHANGED <<current, live, asked, reply, events, loopvars, giveUps, lagging>>

(* The compositor ends the share, or refuses to.                           *)
EndShare ==
    /\ current' = current + 1
    /\ live' \in {live, live \ NodesOf(current)}

StopShare ==
    /\ step = "stop"
    /\ step' = "idle"
    /\ IF asked[1] = current THEN EndShare ELSE UNCHANGED <<current, live>>
    /\ UNCHANGED <<asked, reply, got, events, loopvars, giveUps, lagging>>

(* A watchdog stops it meanwhile.                                          *)
ShareStopped ==
    /\ current <= MaxSessions /\ EndShare
    /\ UNCHANGED <<workervars, events, loopvars, giveUps, lagging>>
-----------------------------------------------------------------------------
Finish(outcome) == commands' = Tail(commands) /\ outgoing' = [outcome |-> outcome, heard |-> Head(commands).heard]

(* Faulty variant: the one stream is connected again, and goes on with the *)
(* node it was connected to first.                                         *)
LoopReconnects ==
    /\ outgoing = NothingDue /\ commands # <<>> /\ Head(commands).op = "attach"
    /\ \/ /\ stream' = [node |-> IF stream = NoStream THEN Head(commands).node ELSE stream.node,
                        ok |-> TRUE, heard |-> Head(commands).heard]
          /\ attached' = TRUE /\ Finish("ok")
       \/ stream' = NoStream /\ attached' = FALSE /\ Finish("failed")
    /\ UNCHANGED <<current, live, workervars, events, giveUps, lagging>>

(* The loop takes a command: an earlier stream goes first, then a new one  *)
(* is made and connected to the node.                                      *)
LoopAttaches ==
    /\ outgoing = NothingDue /\ commands # <<>> /\ Head(commands).op = "attach"
    /\ \/ /\ stream' = [node |-> Head(commands).node, ok |-> TRUE, heard |-> Head(commands).heard]
          /\ attached' = TRUE /\ Finish("ok")
       \/ stream' = NoStream /\ attached' = FALSE /\ Finish("failed")
    /\ UNCHANGED <<current, live, workervars, events, giveUps, lagging>>

LoopDetaches ==
    /\ outgoing = NothingDue /\ commands # <<>> /\ Head(commands).op = "detach"
    /\ stream' = NoStream /\ attached' = FALSE /\ Finish("ok")
    /\ UNCHANGED <<current, live, workervars, events, giveUps, lagging>>

LoopReplies ==
    /\ outgoing # NothingDue
    /\ outgoing' = NothingDue
    /\ reply' = IF outgoing.heard THEN outgoing.outcome ELSE reply
    /\ UNCHANGED <<current, live, asked, step, got, events, commands, stream, attached, giveUps, lagging>>

(* send_event: what does not fit is dropped.                               *)
SendEvent(kind) ==
    events' = IF Len(events) < FRAME_QUEUE_DEPTH THEN Append(events, [node |-> stream.node, kind |-> kind])
                                                 ELSE events

(* The callbacks run in the loop, between two commands.  A frame may have  *)
(* been received just before the capture began.                            *)
FrameArrives ==
    /\ outgoing = NothingDue /\ stream.ok /\ stream.node \in live
    /\ SendEvent("fresh") \/ SendEvent("stale")
    /\ UNCHANGED <<current, live, workervars, loopvars, giveUps, lagging>>

(* A frame is corrupted, or the format is not one of ours.                 *)
FrameUnusable ==
    /\ outgoing = NothingDue /\ stream.ok
    /\ SendEvent("error")
    /\ UNCHANGED <<current, live, workervars, loopvars, giveUps, lagging>>

(* The stream breaks; it stays the active one.                             *)
StreamBreaks ==
    /\ outgoing = NothingDue /\ stream.ok
    /\ SendEvent("error")
    /\ stream' = [stream EXCEPT !.ok = FALSE] /\ attached' = FALSE
    /\ UNCHANGED <<current, live, workervars, commands, outgoing, giveUps, lagging>>
-----------------------------------------------------------------------------
Worker ==
    \/ Begin \/ Refused \/ ClearEvents \/ SendAttach \/ Attached \/ AttachGivenUp \/ TakeFrame \/ CollectFails
    \/ Detach \/ Detached \/ Answer \/ Answered \/ StopShare

Loop == LoopAttaches \/ LoopDetaches \/ LoopReplies \/ FrameArrives \/ FrameUnusable \/ StreamBreaks

Next == Worker \/ Loop \/ ShareStopped

Spec == Init /\ [][Next]_vars
-----------------------------------------------------------------------------
Commands == [op : {"attach", "detach"}, node : Nodes, heard : BOOLEAN]

TypeOK ==
    /\ current \in 1..(MaxSessions + 1) /\ live \subseteq Nodes
    /\ asked \in Nodes \cup {NoNode} /\ got \in Nodes \cup {NoNode}
    /\ step \in {"idle", "attach", "send", "attaching", "collect", "detach", "detaching", "done", "answer", "stop"}
    /\ reply \in {"none", "ok", "failed"}
    /\ events \in Seq([node : Nodes, kind : {"fresh", "stale", "error"}]) /\ Len(events) <= FRAME_QUEUE_DEPTH
    /\ commands \in Seq(Commands)
    /\ outgoing \in [outcome : {"none", "ok", "failed"}, heard : BOOLEAN]
    /\ stream \in [node : Nodes \cup {NoNode}, ok : BOOLEAN, heard : BOOLEAN] /\ (stream.ok => stream.node # NoNode)
    /\ attached \in BOOLEAN /\ giveUps \in 0..MaxGiveUps /\ lagging \in BOOLEAN

(* A picture is of the screen that was asked for: "a frame from the wrong  *)
(* screen with every size check passing" (pipewire_source.rs:289).  But if *)
(* the loop was behind when the capture began, because it had not answered *)
(* in time before: then a frame of the earlier stream may come first.      *)
FrameIsOfItsScreen == got # NoNode => got = asked \/ lagging

(* "The stream is detached on every path out, including the failures"      *)
(* (capture.rs:453): a stream that is left has its detach in the queue, or *)
(* its attach came to the loop when the worker had given it up.            *)
StreamsAreReleased ==
    step \in {"idle", "done", "answer", "stop", "attach", "send"} /\ stream.ok /\ stream.heard =>
        \E i \in DOMAIN commands : commands[i].op = "detach"
=============================================================================
