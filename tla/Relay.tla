------------------------------- MODULE Relay -------------------------------
(***************************************************************************)
(* The stdio relay of a local client: pcbridge/relay.py.                   *)
(*                                                                         *)
(* Two threads share Relay's fields under one condition.  The client       *)
(* thread reads a line, notes it and sends it to the backend it picked;    *)
(* the server thread copies answers back and, when the connection breaks,  *)
(* fails what is in flight, connects again and replays the handshake.      *)
(* Servers (the daemon, or the in-process child) are numbered in the order *)
(* the relay connects to them.  A server may die at any moment: what it    *)
(* was sent and has not read is lost, what it wrote is still read.         *)
(***************************************************************************)
EXTENDS Integers, Sequences

CONSTANTS Reqs,         \* the client's requests after initialize
          InitId,       \* the id of its initialize request
          Kinds,        \* the servers a reconnect may reach: "daemon", "child"
          MaxBackends   \* bound: servers in a behaviour; the last one stays up

Backends == 1..MaxBackends
NoBackend == 0
Ids == Reqs \cup {InitId}
ReplayIds == Backends         \* pcbridge-relay-replay-<n>

RelayAssumption ==            \* no client uses an id of the relay's own
    /\ InitId \notin Reqs /\ Ids \cap ReplayIds = {}
    /\ Kinds \subseteq {"daemon", "child"} /\ Kinds # {}
    /\ MaxBackends \in Nat \ {0}

Initialized == <<"initialized", InitId>>
Request(i) == <<"request", i>>
Cancelled(r) == <<"cancelled", r>>

VARIABLES stdin,       \* lines the client wrote that the relay has not read
          said,        \* the client's messages so far
          gone,        \* the client closed stdin
          log,         \* per id: what the client was answered
          backend,     \* Relay.backend
          inflight,    \* Relay.in_flight: ids of unanswered requests
          initLine, initializedLine,      \* noted for the replay
          swallow,     \* Relay.swallow
          replays,     \* Relay.replays
          closing,     \* Relay.closing
          cpc, cline, cback,              \* the client thread
          spc, sback, todo,               \* the server thread
          started,     \* servers connected to so far
          kind,        \* per server: daemon or child
          up,          \* servers that are alive
          closed,      \* connections the relay closed
          inq, outq,   \* lines towards and from each server
          sess,        \* each server's MCP session
          running,     \* requests each server works on
          runs,        \* history: how often a request was begun by a server
          early        \* history: requests begun in a session not initialized

clientvars == <<stdin, said, gone>>
fields == <<inflight, initLine, initializedLine, swallow, replays, closing>>
cvars == <<cpc, cline, cback>>
svars == <<spc, sback, todo>>
world == <<started, kind, up, sess, running, runs, early>>
vars == <<clientvars, log, backend, fields, cvars, svars, world, closed, inq, outq>>

(* main() has connected to the daemon and the handshake succeeded.         *)
Init == /\ stdin = <<>> /\ said = {} /\ gone = FALSE
        /\ log = [i \in Ids \cup ReplayIds |-> <<>>]
        /\ backend = 1
        /\ inflight = {} /\ initLine = FALSE /\ initializedLine = FALSE
        /\ swallow = {} /\ replays = 0 /\ closing = FALSE
        /\ cpc = "read" /\ cline = Initialized /\ cback = NoBackend
        /\ spc = "loop" /\ sback = NoBackend /\ todo = {}
        /\ started = 1 /\ kind = [b \in Backends |-> "daemon"]
        /\ up = {1} /\ closed = {}
        /\ inq = [b \in Backends |-> <<>>] /\ outq = [b \in Backends |-> <<>>]
        /\ sess = [b \in Backends |-> "new"]
        /\ running = [b \in Backends |-> {}]
        /\ runs = [i \in Ids |-> 0] /\ early = {}

Exited == spc \in {"ended", "failed"}        \* run() returned
Open(b) == b \in up \ closed                 \* a send reaches the server
-----------------------------------------------------------------------------
(* The client: initialize, then notifications/initialized, then requests.  *)
Says(line) == /\ ~gone /\ ~Exited /\ line \notin said
              /\ said' = said \cup {line}
              /\ stdin' = Append(stdin, line)
              /\ UNCHANGED <<gone, log, backend, fields, cvars, svars, world, closed, inq, outq>>

ClientSpeaks ==
    \/ Says(Request(InitId))
    \/ log[InitId] # <<>> /\ Says(Initialized)
    \/ \E r \in Reqs : Initialized \in said /\ Says(Request(r))
    \/ \E r \in Reqs : Request(r) \in said /\ log[r] = <<>> /\ Says(Cancelled(r))

ClientLeaves == /\ ~gone /\ ~Exited
                /\ gone' = TRUE
                /\ UNCHANGED <<stdin, said, log, backend, fields, cvars, svars, world, closed, inq, outq>>
-----------------------------------------------------------------------------
(* _note_client_message: the replay lines are written without the lock ... *)
NoteLine ==
    /\ cpc = "read" /\ ~Exited /\ stdin # <<>>
    /\ cline' = Head(stdin) /\ stdin' = Tail(stdin)
    /\ initLine' = (initLine \/ Head(stdin) = Request(InitId))
    /\ initializedLine' = (initializedLine \/ Head(stdin) = Initialized)
    /\ cpc' = "note"
    /\ UNCHANGED <<said, gone, log, backend, inflight, swallow, replays, closing, cback, svars, world, closed, inq, outq>>

(* Faulty variant: no request is remembered.                               *)
NoteIdNever ==
    /\ cpc = "note" /\ ~Exited
    /\ inflight' = inflight \ {cline[2]}
    /\ cpc' = "pick"
    /\ UNCHANGED <<clientvars, log, backend, initLine, initializedLine, swallow, replays, closing, cline, cback, svars, world, closed, inq, outq>>

(* ... in_flight under it.                                                 *)
NoteId ==
    /\ cpc = "note" /\ ~Exited
    /\ inflight' = CASE cline[1] = "request" -> inflight \cup {cline[2]}
                     [] cline[1] = "cancelled" -> inflight \ {cline[2]}
                     [] OTHER -> inflight
    /\ cpc' = "pick"
    /\ UNCHANGED <<clientvars, log, backend, initLine, initializedLine, swallow, replays, closing, cline, cback, svars, world, closed, inq, outq>>

(* _send: wait for a backend and let go of the lock before sending.        *)
PickBackend ==
    /\ cpc = "pick" /\ ~Exited /\ backend # NoBackend
    /\ cback' = backend
    /\ cpc' = "send"
    /\ UNCHANGED <<clientvars, log, backend, fields, cline, svars, world, closed, inq, outq>>

SendLine ==
    /\ cpc = "send" /\ ~Exited /\ Open(cback)
    /\ inq' = [inq EXCEPT ![cback] = Append(@, cline)]
    /\ cpc' = "read"
    /\ UNCHANGED <<clientvars, log, backend, fields, cline, cback, svars, world, closed, outq>>

(* OSError: give the backend up and wait for the next one.  The pipe of a  *)
(* child that the server thread has closed raises ValueError instead,      *)
(* which nothing catches: the client thread is gone.                       *)
SendBreaks ==
    /\ cpc = "send" /\ ~Exited /\ ~Open(cback)
    /\ IF kind[cback] = "child" /\ cback \in closed
       THEN cpc' = "dead" /\ UNCHANGED backend
       ELSE /\ cpc' = "pick"
            /\ backend' = IF backend = cback THEN NoBackend ELSE backend
    /\ UNCHANGED <<clientvars, log, fields, cline, cback, svars, world, closed, inq, outq>>

(* The end of client_loop: the client closed stdin.                        *)
ClientEnds ==
    /\ cpc = "read" /\ ~Exited /\ stdin = <<>> /\ gone
    /\ closing' = TRUE
    /\ closed' = closed \cup ({backend} \ {NoBackend})
    /\ cpc' = "ended"
    /\ UNCHANGED <<clientvars, log, backend, inflight, initLine, initializedLine, swallow, replays, cline, cback, svars, world, inq, outq>>

ClientThread == NoteLine \/ NoteId \/ PickBackend \/ SendLine \/ SendBreaks \/ ClientEnds
-----------------------------------------------------------------------------
(* One round of server_loop: run() closes the backend on the way out.      *)
ServerLoop ==
    /\ spc = "loop"
    /\ sback' = backend
    /\ spc' = CASE closing -> "ended"
                [] ~closing /\ backend = NoBackend -> "fail"
                [] OTHER -> "reading"
    /\ closed' = IF closing THEN closed \cup ({backend} \ {NoBackend}) ELSE closed
    /\ UNCHANGED <<clientvars, log, backend, fields, cvars, todo, world, inq, outq>>

(* readline returned an answer: _note_server_line, then _write_client.     *)
CopyAnswer ==
    /\ spc = "reading" /\ sback \notin closed /\ outq[sback] # <<>>
    /\ outq' = [outq EXCEPT ![sback] = Tail(@)]
    /\ LET i == Head(outq[sback]) IN
         IF i \in swallow
         THEN swallow' = swallow \ {i} /\ UNCHANGED <<inflight, log>>
         ELSE /\ inflight' = inflight \ {i}
              /\ log' = [log EXCEPT ![i] = Append(@, "answer")]
              /\ UNCHANGED swallow
    /\ spc' = "loop"
    /\ UNCHANGED <<clientvars, backend, initLine, initializedLine, replays, closing, cvars, sback, todo, world, closed, inq>>

(* readline returned nothing, or the connection is closed.                 *)
ReadEOF ==
    /\ spc = "reading"
    /\ sback \in closed \/ (sback \notin up /\ outq[sback] = <<>>)
    /\ IF closing THEN spc' = "ended" /\ UNCHANGED backend
       ELSE /\ spc' = "loop"
            /\ backend' = IF backend = sback THEN NoBackend ELSE backend
    /\ closed' = closed \cup {sback}
    /\ UNCHANGED <<clientvars, log, fields, cvars, sback, todo, world, inq, outq>>

(* _recover begins with _fail_in_flight: an initialize stays pending.      *)
FailInFlight ==
    /\ spc = "fail"
    /\ todo' = inflight \ {InitId}
    /\ inflight' = inflight \cap {InitId}
    /\ spc' = "failing"
    /\ UNCHANGED <<clientvars, log, backend, initLine, initializedLine, swallow, replays, closing, cvars, sback, world, closed, inq, outq>>

WriteError ==
    /\ spc = "failing"
    /\ \E r \in todo : /\ log' = [log EXCEPT ![r] = Append(@, "error")]
                       /\ todo' = todo \ {r}
    /\ UNCHANGED <<clientvars, backend, fields, cvars, spc, sback, world, closed, inq, outq>>

(* connect_daemon and handshake until one succeeds, or ChildBackend after  *)
(* RECONNECT_WAIT_S.                                                       *)
Reconnect ==
    /\ spc = "failing" /\ todo = {} /\ started < MaxBackends
    /\ started' = started + 1
    /\ sback' = started + 1
    /\ up' = up \cup {started + 1}
    /\ \E k \in Kinds : kind' = [kind EXCEPT ![started + 1] = k]
    /\ spc' = "replay"
    /\ UNCHANGED <<clientvars, log, backend, fields, cvars, todo, sess, running, runs, early, closed, inq, outq>>

(* _replay: the initialize request again, as it was while the client still *)
(* waits for its answer, else under an id whose answer is swallowed ...    *)
Replay ==
    /\ spc = "replay" /\ Open(sback)
    /\ IF ~initLine
       THEN spc' = "install" /\ UNCHANGED <<inq, swallow, replays>>
       ELSE IF InitId \in inflight
       THEN /\ inq' = [inq EXCEPT ![sback] = Append(@, Request(InitId))]
            /\ spc' = "install"
            /\ UNCHANGED <<swallow, replays>>
       ELSE /\ replays' = replays + 1
            /\ swallow' = swallow \cup {replays + 1}
            /\ inq' = [inq EXCEPT ![sback] = Append(@, Request(replays + 1))]
            /\ spc' = "initialized"
    /\ UNCHANGED <<clientvars, log, backend, inflight, initLine, initializedLine, closing, cvars, sback, todo, world, closed, outq>>

(* Faulty variant: a request that is in flight is replayed as well.        *)
ReplayPending ==
    /\ spc = "initialized" /\ Open(sback)
    /\ inq' = [inq EXCEPT ![sback] =
                 @ \o <<Initialized>>
                   \o IF inflight \subseteq {InitId} THEN <<>>
                      ELSE <<Request(CHOOSE r \in inflight \ {InitId} : TRUE)>>]
    /\ spc' = "install"
    /\ UNCHANGED <<clientvars, log, backend, fields, cvars, sback, todo, world, closed, outq>>

(* ... and notifications/initialized, when the client has sent it.         *)
ReplayInitialized ==
    /\ spc = "initialized" /\ Open(sback)
    /\ inq' = IF initializedLine THEN [inq EXCEPT ![sback] = Append(@, Initialized)] ELSE inq
    /\ spc' = "install"
    /\ UNCHANGED <<clientvars, log, backend, fields, cvars, sback, todo, world, closed, outq>>

(* The new server died during the replay: _recover returns False and the   *)
(* relay exits with status 1.                                              *)
ReplayBreaks ==
    /\ spc = "initialized" \/ (spc = "replay" /\ initLine)
    /\ ~Open(sback)
    /\ closed' = closed \cup {sback}
    /\ spc' = "failed"
    /\ UNCHANGED <<clientvars, log, backend, fields, cvars, sback, todo, world, inq, outq>>

Install ==
    /\ spc = "install" \/ (spc = "replay" /\ ~initLine /\ ~Open(sback))
    /\ backend' = sback
    /\ spc' = "loop"
    /\ UNCHANGED <<clientvars, log, fields, cvars, sback, todo, world, closed, inq, outq>>

ServerThread == \/ ServerLoop \/ CopyAnswer \/ ReadEOF \/ FailInFlight \/ WriteError
                \/ Reconnect \/ Replay \/ ReplayInitialized \/ ReplayBreaks \/ Install
-----------------------------------------------------------------------------
(* A server reads one line of its session.                                 *)
ServerReads(b) ==
    LET line == Head(inq[b]) IN
    /\ b \in up /\ inq[b] # <<>>
    /\ inq' = [inq EXCEPT ![b] = Tail(@)]
    /\ sess' = CASE line = Initialized /\ sess[b] # "new" -> [sess EXCEPT ![b] = "ready"]
                 [] line[1] = "request" /\ line[2] \notin Reqs /\ sess[b] = "new"
                                        -> [sess EXCEPT ![b] = "init"]
                 [] OTHER -> sess
    /\ running' = CASE line[1] = "request" -> [running EXCEPT ![b] = @ \cup {line[2]}]
                    [] OTHER -> running
    /\ runs' = IF line[1] = "request" /\ line[2] \in Ids
               THEN [runs EXCEPT ![line[2]] = @ + 1] ELSE runs
    /\ early' = IF line[1] = "request" /\ line[2] \in Reqs /\ sess[b] # "ready"
                THEN early \cup {line[2]} ELSE early
    /\ UNCHANGED <<clientvars, log, backend, fields, cvars, svars, started, kind, up, closed, outq>>

(* It answers a request, in any order, with a result or an error.          *)
ServerAnswers(b) ==
    /\ b \in up
    /\ \E i \in running[b] : /\ outq' = [outq EXCEPT ![b] = Append(@, i)]
                              /\ running' = [running EXCEPT ![b] = @ \ {i}]
    /\ UNCHANGED <<clientvars, log, backend, fields, cvars, svars, started, kind, up, sess, runs, early, closed, inq>>

(* It dies, or ends the session.                                           *)
ServerDies(b) ==
    /\ b \in up /\ b < MaxBackends
    /\ up' = up \ {b}
    /\ inq' = [inq EXCEPT ![b] = <<>>] /\ running' = [running EXCEPT ![b] = {}]
    /\ UNCHANGED <<clientvars, log, backend, fields, cvars, svars, started, kind, sess, runs, early, closed, outq>>

Next == \/ ClientSpeaks \/ ClientLeaves \/ ClientThread \/ ServerThread
        \/ \E b \in Backends : ServerReads(b) \/ ServerAnswers(b) \/ ServerDies(b)

Spec == Init /\ [][Next]_vars

(* Both threads are scheduled, a reconnect succeeds or falls back to the   *)
(* child, and a server that stays up reads its lines and answers.          *)
FairSpec == /\ Spec
            /\ WF_vars(ClientThread) /\ WF_vars(ServerThread)
            /\ \A b \in Backends : WF_vars(ServerReads(b)) /\ WF_vars(ServerAnswers(b))
-----------------------------------------------------------------------------
Lines == {Initialized} \cup {Request(i) : i \in Ids \cup ReplayIds} \cup {Cancelled(r) : r \in Reqs}

(* Types; ids in flight are the client's, ids swallowed are the relay's.   *)
TypeOK ==
    /\ stdin \in Seq(Lines) /\ said \subseteq Lines /\ gone \in BOOLEAN
    /\ log \in [Ids \cup ReplayIds -> Seq({"answer", "error"})]
    /\ backend \in 0..started /\ inflight \subseteq Ids
    /\ initLine \in BOOLEAN /\ initializedLine \in BOOLEAN /\ closing \in BOOLEAN
    /\ swallow \subseteq 1..replays /\ replays \in 0..(started - 1)
    /\ cpc \in {"read", "note", "pick", "send", "dead", "ended"}
    /\ cline \in Lines /\ cback \in 0..started
    /\ spc \in {"loop", "reading", "fail", "failing", "replay", "initialized", "install",
                "ended", "failed"}
    /\ sback \in 0..started /\ todo \subseteq Reqs
    /\ started \in Backends /\ kind \in [Backends -> {"daemon", "child"}]
    /\ up \subseteq 1..started /\ closed \subseteq 1..started
    /\ inq \in [Backends -> Seq(Lines)] /\ outq \in [Backends -> Seq(Ids \cup ReplayIds)]
    /\ sess \in [Backends -> {"new", "init", "ready"}]
    /\ running \in [Backends -> SUBSET (Ids \cup ReplayIds)]
    /\ runs \in [Ids -> Nat] /\ early \subseteq Reqs

(* _replay brings "a fresh server to where the client thinks it is": no    *)
(* server of any generation sees a request before it was initialized,      *)
(* whatever line the client thread is about to send meanwhile.             *)
InitializedFirst == early = {}

(* "Check before retrying anything that is not safe to repeat": the relay  *)
(* itself never repeats a request; only the handshake goes out again, and  *)
(* that even to one server: an initialize whose send waits for the new     *)
(* server is sent to it by the replay and then by the waiting thread.      *)
RunsAtMostOnce == \A r \in Reqs : runs[r] <= 1

(* A client is answered only for what it asked, each request after         *)
(* initialize at most once by a server and at most once by the relay, and  *)
(* no restart error follows an answer. The answer to an initialize         *)
(* replayed under an id of the relay's never reaches it; one that went out *)
(* twice under its own id may be answered twice.                           *)
AnswerHistory ==
    /\ \A r \in Reqs : log[r] \in {<<>>, <<"answer">>, <<"error">>, <<"error", "answer">>}
    /\ \A r \in Ids : log[r] # <<>> => Request(r) \in said
    /\ \A n \in ReplayIds : log[n] = <<>>

(* What either side sees is a possible session with one server.            *)
SessionLooksWhole == TypeOK /\ AnswerHistory /\ InitializedFirst

(* No request after initialize is repeated, and either side sees a session *)
(* with one server.                                                        *)
RelayAccounted == RunsAtMostOnce /\ SessionLooksWhole

(* "Each of them gets an error instead of a hang": a request the client    *)
(* wrote is answered unless the client gives it up, leaves, or sees the    *)
(* relay exit; or the client thread is dead (see SendBreaks).              *)
EveryRequestAnswered ==
    \A r \in Ids : Request(r) \in said
        ~> \/ log[r] # <<>> \/ Cancelled(r) \in said \/ gone \/ Exited
           \/ cpc = "dead"

=============================================================================
