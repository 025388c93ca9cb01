---------------------------- MODULE NativeClient ----------------------------
(***************************************************************************)
(* The Python side of the native helper (native/client.py): callers send   *)
(* requests to a child process through a queue and a writer thread, and a  *)
(* reader thread hands the answers back.  The child may die at any moment; *)
(* the next caller starts another one, a new generation.  A request may    *)
(* time out while its answer arrives, and close() may come between any two *)
(* steps.  The registry of helpers on disk (native/registry.py) has one    *)
(* entry per generation that was initialized.                              *)
(***************************************************************************)
EXTENDS Naturals, Sequences, FiniteSets, SequencesExt

CONSTANTS Threads,      \* callers of request() and close()
          NoThread,
          PendingLimit, \* pending_limit
          MaxGens,      \* bound: children started
          MaxIds        \* bound: requests made

ClientAssumption ==
    /\ IsFiniteSet(Threads) /\ NoThread \notin Threads
    /\ PendingLimit \in Nat \ {0} /\ MaxGens \in Nat /\ MaxIds \in Nat

Gens == 1..MaxGens
Ids  == 1..MaxIds

VARIABLES
    pc,        \* where each caller is
    kind,      \* what its request is: "user", "initialize", "shutdown"
    id,        \* the request it made last, 0 if none
    then,      \* what follows _stop_process_locked: "start", "raise", "closed"
    lifecycle, \* holder of _lifecycle_lock
    current,   \* generation of _process, 0 for None
    ready, closing, closed,
    entry,     \* generation of _registry_entry, 0 for None
    pending,   \* ids in _pending
    result,    \* what an event was set with
    made,      \* [1..requests made -> generation they were queued for, 0 if refused]
    queue, writer, hand, \* per generation: queue, writer thread, its frame
    reader,    \* per generation: reader thread
    loss,      \* per thread and generation: what it took out of _pending to fail
    life,      \* per generation: "none", "up", "dead" (can be waited for)
    inbox,     \* requests the child has received
    outbox,    \* answers it wrote that are not read yet
    disk,      \* generations with a file in the registry
    canceled,  \* requests that close() took out of _pending and has not woken yet
    dropped,   \* entry of a child that is forgotten and to be unregistered, 0 for none
    strayed,   \* history: files of registrations that failed after the file was in place
    notStarted,\* history: ids whose request() said it was refused or busy
    abandoned  \* history: given up by its caller while still in the queue

threadvars == <<pc, kind, id, then, lifecycle>>
clientvars == <<current, ready, closing, closed, entry, pending, result, made>>
readvars   == <<reader, loss>>
pipevars   == <<queue, writer, hand, readvars>>
childvars  == <<life, inbox, outbox>>
latevars   == <<canceled, dropped, strayed>>
vars == <<threadvars, clientvars, pipevars, childvars, disk, latevars, notStarted, abandoned>>

Stop == 0                 \* the None that ends a writer; a cancel is not an id either
CancelFrame(r) == MaxIds + r
NoFrame == 0

Started == Cardinality({g \in Gens : life[g] # "none"})
Exited(g) == life[g] = "dead"                        \* poll() is not None
Running == current # 0 /\ ~Exited(current)

Init ==
    /\ pc = [t \in Threads |-> "idle"] /\ kind = [t \in Threads |-> "user"]
    /\ id = [t \in Threads |-> 0] /\ then = [t \in Threads |-> "start"]
    /\ lifecycle = NoThread
    /\ current = 0 /\ ready = FALSE /\ closing = FALSE /\ closed = FALSE /\ entry = 0
    /\ pending = {} /\ result = [r \in Ids |-> "none"] /\ made = <<>>
    /\ queue = [g \in Gens |-> <<>>] /\ writer = [g \in Gens |-> "none"]
    /\ hand = [g \in Gens |-> NoFrame] /\ reader = [g \in Gens |-> "none"]
    /\ loss = [x \in {"reader", "writer"} |-> [g \in Gens |-> {}]]
    /\ life = [g \in Gens |-> "none"] /\ inbox = [g \in Gens |-> {}]
    /\ outbox = [g \in Gens |-> {}] /\ disk = {}
    /\ canceled = {} /\ dropped = 0 /\ strayed = {} /\ notStarted = {} /\ abandoned = {}

Goto(t, l) == pc' = [pc EXCEPT ![t] = l]
Sentinel(q) == IF Len(q) <= PendingLimit THEN Append(q, Stop) ELSE q  \* put_nowait(None)
Queued(g) == {queue[g][i] : i \in 1..Len(queue[g])}
-----------------------------------------------------------------------------
(* Room for the ids that every caller may still use up.                    *)
Room == Len(made) + 2 * (1 + Cardinality({t \in Threads : pc[t] # "idle"})) <= MaxIds

(* request(): _ensure_started decides under the lifecycle lock.            *)
Call(t) ==
    /\ pc[t] = "idle" /\ Room
    /\ Goto(t, "ensure")
    /\ UNCHANGED <<kind, id, then, lifecycle, clientvars, pipevars, childvars, disk, notStarted,
                   latevars>>

EnsureClosed(t) ==
    /\ pc[t] = "ensure" /\ lifecycle = NoThread /\ closed
    /\ Goto(t, "idle")
    /\ UNCHANGED <<kind, id, then, lifecycle, clientvars, pipevars, childvars, disk, notStarted,
                   latevars>>

EnsureReady(t) ==
    /\ pc[t] = "ensure" /\ lifecycle = NoThread /\ ~closed /\ ready /\ Running
    /\ Goto(t, "enqueue") /\ kind' = [kind EXCEPT ![t] = "user"]
    /\ UNCHANGED <<id, then, lifecycle, clientvars, pipevars, childvars, disk, notStarted,
                   latevars>>

EnsureRestart(t) ==
    /\ pc[t] = "ensure" /\ lifecycle = NoThread /\ ~closed /\ ~(ready /\ Running)
    /\ lifecycle' = t
    /\ Goto(t, IF current = 0 THEN "start" ELSE "stop") /\ then' = [then EXCEPT ![t] = "start"]
    /\ UNCHANGED <<kind, id, clientvars, pipevars, childvars, disk, notStarted, latevars>>

(* _start_locked: a child, its pipes and threads, and an empty queue.      *)
Start(t) ==
    /\ pc[t] = "start" /\ Started < MaxGens
    /\ LET g == Started + 1 IN
       /\ current' = g /\ ready' = FALSE
       /\ life' = [life EXCEPT ![g] = "up"]
       /\ writer' = [writer EXCEPT ![g] = "get"] /\ reader' = [reader EXCEPT ![g] = "read"]
    /\ Goto(t, "enqueue") /\ kind' = [kind EXCEPT ![t] = "initialize"]
    /\ UNCHANGED <<id, then, lifecycle, closing, closed, entry, pending, result, made, queue,
                   hand, loss, inbox, outbox, disk, notStarted, latevars>>

StartFails(t) ==          \* no such binary, no more processes
    /\ pc[t] = "start"
    /\ Goto(t, "idle") /\ lifecycle' = NoThread
    /\ UNCHANGED <<kind, id, then, clientvars, pipevars, childvars, disk, notStarted, latevars>>
-----------------------------------------------------------------------------
(* _request_started: refuse or enqueue, in one piece under the state lock. *)
Refused(t) ==
    \/ ~Running
    \/ kind[t] # "initialize" /\ ~ready
    \/ kind[t] # "shutdown" /\ closing
Busy == Cardinality(pending) >= PendingLimit \/ Len(queue[current]) > PendingLimit

Failed(t) ==              \* where an exception of _request_started leads
    /\ Goto(t, IF kind[t] = "user" THEN "idle" ELSE "stop")
    /\ then' = [then EXCEPT ![t] = CASE kind[t] = "user"       -> "start"
                                     [] kind[t] = "initialize" -> "raise"
                                     [] kind[t] = "shutdown"   -> "closed"]

Unsent(t) ==
    /\ pc[t] = "enqueue"
    /\ made' = Append(made, 0) /\ notStarted' = notStarted \cup {Len(made) + 1}
    /\ Failed(t)
    /\ UNCHANGED <<kind, id, lifecycle, current, ready, closing, closed, entry, pending, result,
                   pipevars, childvars, disk, latevars>>

Refuse(t) == Unsent(t) /\ Refused(t)
BeBusy(t) == Unsent(t) /\ ~Refused(t) /\ Busy

Enqueue(t) ==
    /\ pc[t] = "enqueue"  /\ ~Refused(t) /\ ~Busy
    /\ LET r == Len(made) + 1 IN
       /\ made' = Append(made, current) /\ id' = [id EXCEPT ![t] = r]
       /\ pending' = pending \cup {r}
       /\ queue' = [queue EXCEPT ![current] = Append(@, r)]
    /\ Goto(t, "wait")
    /\ UNCHANGED <<kind, then, lifecycle, current, ready, closing, closed, entry, result, writer,
                   hand, readvars, childvars, disk, notStarted, latevars>>

(* The event was set: with an answer, or with the error of a failure.      *)
Done(t) ==
    /\ pc[t] = "wait" /\ result[id[t]] # "none"
    /\ IF result[id[t]] = "answer" /\ kind[t] = "initialize"
       THEN Goto(t, "register") /\ UNCHANGED then
       ELSE Failed(t)
    /\ result' = [result EXCEPT ![id[t]] = "none"] /\ id' = [id EXCEPT ![t] = 0]
    /\ UNCHANGED <<kind, lifecycle, current, ready, closing, closed, entry, pending, made, pipevars,
                   childvars, disk, notStarted, latevars>>

(* The wait timed out and the request was still pending.                   *)
TimeOut(t) ==
    /\ pc[t] = "wait" /\ id[t] \in pending
    /\ pending' = pending \ {id[t]}
    /\ Goto(t, "cancel")
    /\ UNCHANGED <<kind, id, then, lifecycle, current, ready, closing, closed, entry, result, made,
                   pipevars, childvars, disk, notStarted, latevars>>

(* _send_cancel: only to the child the request went to, and only if there  *)
(* is room.                                                                *)
SendCancel(t) ==
    /\ pc[t] = "cancel"
    /\ LET g == made[id[t]] IN
       queue' = [queue EXCEPT ![g] = IF current = g /\ Len(@) <= PendingLimit
                                     THEN Append(@, CancelFrame(id[t])) ELSE @]
    /\ Failed(t) /\ id' = [id EXCEPT ![t] = 0]
    /\ UNCHANGED <<kind, lifecycle, clientvars, writer, hand, readvars, childvars, disk,
                   notStarted, latevars>>
-----------------------------------------------------------------------------
(* The rest of _start_locked. A registration may fail before its file is   *)
(* in place, or after it, when the directory cannot be synced.             *)
Register(t) ==
    /\ pc[t] = "register"
    /\ \/ disk' = disk \cup {current} /\ Goto(t, "publish") /\ UNCHANGED <<then, strayed>>
       \/ /\ disk' \in {disk, disk \cup {current}} /\ strayed' = strayed \cup (disk' \ disk)
          /\ Goto(t, "stop") /\ then' = [then EXCEPT ![t] = "raise"]
    /\ UNCHANGED <<kind, id, lifecycle, clientvars, pipevars, childvars, notStarted, canceled,
                   dropped>>

Publish(t) ==
    /\ pc[t] = "publish" /\ Running
    /\ ready' = TRUE /\ entry' = current
    /\ Goto(t, "enqueue") /\ kind' = [kind EXCEPT ![t] = "user"] /\ lifecycle' = NoThread
    /\ UNCHANGED <<id, then, current, closing, closed, pending, result, made, pipevars, childvars,
                   disk, notStarted, latevars>>

PublishGone(t) ==         \* it exited after initialize
    /\ pc[t] = "publish" /\ ~Running
    /\ Goto(t, "gone")
    /\ UNCHANGED <<kind, id, then, lifecycle, clientvars, pipevars, childvars, disk, notStarted,
                   latevars>>

Withdraw(t) ==            \* unregistered outside the state lock
    /\ pc[t] = "gone"
    /\ disk' = disk \ {current}
    /\ Goto(t, "stop") /\ then' = [then EXCEPT ![t] = "raise"]
    /\ UNCHANGED <<kind, id, lifecycle, clientvars, pipevars, childvars, notStarted, latevars>>
-----------------------------------------------------------------------------
(* _stop_process_locked: end the writer, wait or kill ...                  *)
StopProcess(t) ==
    /\ pc[t] = "stop"
    /\ queue' = [queue EXCEPT ![current] = Sentinel(@)]
    /\ Goto(t, "reap")
    /\ UNCHANGED <<kind, id, then, lifecycle, clientvars, writer, hand, readvars, childvars, disk,
                   notStarted, latevars>>

Reap(t) ==                \* wait(), terminate() or kill(), then the pipes are closed
    /\ pc[t] = "reap"
    /\ life' = [life EXCEPT ![current] = "dead"] /\ outbox' = [outbox EXCEPT ![current] = {}]
    /\ Goto(t, "forget")
    /\ UNCHANGED <<kind, id, then, lifecycle, clientvars, pipevars, inbox, disk, notStarted,
                   latevars>>

(* ... then forget the child and its registry entry, whether or not its    *)
(* threads have ended by then ...                                          *)
Forget(t) ==
    /\ pc[t] = "forget"
    /\ current' = 0 /\ ready' = FALSE /\ entry' = 0 /\ queue' = [queue EXCEPT ![current] = <<>>]
    /\ dropped' = entry /\ Goto(t, "unregister")
    /\ UNCHANGED <<kind, id, then, lifecycle, closing, closed, pending, result, made, writer, hand,
                   readvars, childvars, disk, notStarted, canceled, strayed>>

(* ... and unregister the entry without the state lock.                    *)
Unlist(t) ==
    /\ pc[t] = "unregister"
    /\ disk' = disk \ {dropped} /\ dropped' = 0
    /\ Goto(t, CASE then[t] = "start"  -> "start"
                 [] then[t] = "raise"  -> "idle"
                 [] then[t] = "closed" -> "closed")
    /\ IF then[t] = "raise"
       THEN lifecycle' = NoThread /\ kind' = [kind EXCEPT ![t] = "user"]
       ELSE UNCHANGED <<lifecycle, kind>>
    /\ then' = [then EXCEPT ![t] = "start"]
    /\ UNCHANGED <<id, clientvars, pipevars, childvars, notStarted, canceled, strayed>>

(* close(): _fail_pending takes what is pending under the state lock, ...  *)
Close(t) ==
    /\ pc[t] = "idle" /\ lifecycle = NoThread /\ ~closed /\ Room
    /\ lifecycle' = t /\ closing' = TRUE
    /\ pending' = {} /\ canceled' = pending
    /\ kind' = [kind EXCEPT ![t] = "shutdown"] /\ then' = [then EXCEPT ![t] = "closed"]
    /\ Goto(t, "wake")
    /\ UNCHANGED <<id, current, ready, closed, entry, result, made, pipevars, childvars, disk,
                   notStarted, dropped, strayed>>

(* ... wakes the callers without it, and the child is asked to shut down.  *)
Wake(t) ==
    /\ pc[t] = "wake"
    /\ result' = [r \in Ids |-> IF r \in canceled THEN "canceled" ELSE result[r]]
    /\ canceled' = {}
    /\ Goto(t, IF ready /\ Running THEN "enqueue" ELSE IF current # 0 THEN "stop" ELSE "closed")
    /\ UNCHANGED <<kind, id, then, lifecycle, current, ready, closing, closed, entry, pending, made,
                   pipevars, childvars, disk, notStarted, dropped, strayed>>

Closed(t) ==
    /\ pc[t] = "closed"
    /\ closed' = TRUE /\ closing' = FALSE /\ lifecycle' = NoThread
    /\ Goto(t, "idle") /\ kind' = [kind EXCEPT ![t] = "user"] /\ then' = [then EXCEPT ![t] = "start"]
    /\ UNCHANGED <<id, current, ready, entry, pending, result, made, pipevars, childvars, disk,
                   notStarted, latevars>>
-----------------------------------------------------------------------------
(* _fail_generation, by the reader or the writer of generation g.  Under   *)
(* the lock it takes what is pending and, of a child that was reaped, the  *)
(* registry entry ...  A thread of a child that is forgotten returns early *)
(* everywhere and changes nothing; it has no steps.                        *)
FailGeneration(g, x, thread) ==
    /\ current = g
    /\ ready' = FALSE
    /\ pending' = {} /\ loss' = [loss EXCEPT ![x][g] = pending]
    /\ entry' = IF Exited(g) THEN 0 ELSE entry
    /\ thread' = [thread EXCEPT ![g] = IF Exited(g) /\ entry # 0 THEN "unregister" ELSE "fail"]

(* ... and then unregisters, ends the writer and wakes the callers.        *)
Unregister(g, x, thread) ==
    /\ thread[g] = "unregister"
    /\ disk' = disk \ {g} /\ thread' = [thread EXCEPT ![g] = "fail"]

WakeFailed(g, x, thread) ==
    /\ thread[g] = "fail"
    /\ queue' = [queue EXCEPT ![g] = Sentinel(@)]
    /\ result' = [r \in Ids |-> IF r \in loss[x][g] THEN "crashed" ELSE result[r]]
    /\ loss' = [loss EXCEPT ![x][g] = {}] /\ thread' = [thread EXCEPT ![g] = "end"]

ReadAnswer(g) ==
    /\ reader[g] = "read" /\ current = g
    /\ \E r \in outbox[g] :
        /\ outbox' = [outbox EXCEPT ![g] = @ \ {r}]
        /\ pending' = pending \ {r}
        /\ result' = IF r \in pending THEN [result EXCEPT ![r] = "answer"] ELSE result
    /\ UNCHANGED <<threadvars, current, ready, closing, closed, entry, made, queue, writer, hand,
                   readvars, life, inbox, disk, notStarted, latevars>>

(* The end of the pipe, a closed pipe, or bytes that are not a frame.      *)
ReadFails(g) ==
    /\ reader[g] = "read"
    /\ FailGeneration(g, "reader", reader)
    /\ UNCHANGED <<threadvars, current, closing, closed, result, made, queue, writer, hand,
                   childvars, disk, notStarted, latevars>>

Taken(g, f) == /\ queue' = [queue EXCEPT ![g] = Tail(@)]
               /\ hand' = [hand EXCEPT ![g] = f]

(* Faulty variant: a frame is written without a look at _pending.          *)
WriterTakesAny(g) ==
    /\ writer[g] = "get" /\ current = g /\ queue[g] # <<>>
    /\ LET f == Head(queue[g]) IN
       Taken(g, f) /\ writer' = [writer EXCEPT ![g] = IF f = Stop THEN "end" ELSE "write"]
    /\ UNCHANGED <<threadvars, clientvars, readvars, childvars, disk, notStarted, latevars>>

WriterTakes(g) ==
    /\ writer[g] = "get" /\ current = g /\ queue[g] # <<>>
    /\ LET f == Head(queue[g]) IN
       \/ f = Stop /\ Taken(g, NoFrame) /\ writer' = [writer EXCEPT ![g] = "end"]
       \/ f \in Ids \ pending /\ Taken(g, NoFrame) /\ UNCHANGED writer
       \/ /\ f # Stop /\ (f \in Ids => f \in pending)
          /\ Taken(g, f) /\ writer' = [writer EXCEPT ![g] = "write"]
    /\ UNCHANGED <<threadvars, clientvars, readvars, childvars, disk, notStarted, latevars>>

WriterWrites(g) ==
    /\ writer[g] = "write" /\ life[g] = "up"
    /\ inbox' = [inbox EXCEPT ![g] = @ \cup ({hand[g]} \cap Ids)]
    /\ hand' = [hand EXCEPT ![g] = NoFrame] /\ writer' = [writer EXCEPT ![g] = "get"]
    /\ UNCHANGED <<threadvars, clientvars, queue, readvars, life, outbox, disk, notStarted,
                   latevars>>

WriterBreaks(g) ==
    /\ writer[g] = "write"
    /\ FailGeneration(g, "writer", writer)
    /\ hand' = [hand EXCEPT ![g] = NoFrame]
    /\ UNCHANGED <<threadvars, current, closing, closed, result, made, queue, reader, childvars,
                   disk, notStarted, latevars>>

ThreadFails(g) ==
    /\ \/ Unregister(g, "reader", reader) /\ UNCHANGED <<writer, queue, result, loss>>
       \/ Unregister(g, "writer", writer) /\ UNCHANGED <<reader, queue, result, loss>>
       \/ WakeFailed(g, "reader", reader) /\ UNCHANGED <<writer, disk>>
       \/ WakeFailed(g, "writer", writer) /\ UNCHANGED <<reader, disk>>
    /\ UNCHANGED <<threadvars, current, ready, closing, closed, entry, pending, made, hand,
                   childvars,
                   notStarted, latevars>>
-----------------------------------------------------------------------------
(* The child: it answers what it received, in any order, or never (an      *)
(* answer may be read after its request timed out; one that is written     *)
(* after that changes nothing and is left out).  Its pipes may fail before *)
(* it can be waited for: ReadFails and WriterBreaks do not need its death. *)
ChildAnswers(g) ==
    /\ life[g] = "up"
    /\ \E r \in inbox[g] \cap Ids :
        /\ r \in pending /\ r \notin outbox[g]
        /\ outbox' = [outbox EXCEPT ![g] = @ \cup {r}]
    /\ UNCHANGED <<threadvars, clientvars, pipevars, life, inbox, disk, notStarted, latevars>>

ChildDies(g) ==
    /\ life[g] = "up" /\ life' = [life EXCEPT ![g] = "dead"]
    /\ UNCHANGED <<threadvars, clientvars, pipevars, inbox, outbox, disk, notStarted, latevars>>

(* What a caller does by itself once it is inside request() or close().    *)
Proceed(t) ==
    \/ EnsureClosed(t) \/ EnsureReady(t) \/ EnsureRestart(t) \/ Start(t) \/ StartFails(t)
    \/ Refuse(t) \/ BeBusy(t) \/ Enqueue(t) \/ Done(t) \/ TimeOut(t) \/ SendCancel(t)
    \/ Register(t) \/ Publish(t) \/ PublishGone(t) \/ Withdraw(t)
    \/ StopProcess(t) \/ Reap(t) \/ Forget(t) \/ Unlist(t) \/ Wake(t) \/ Closed(t)

Threading(g) == ReadAnswer(g) \/ ReadFails(g) \/ WriterTakes(g) \/ WriterWrites(g)
                \/ WriterBreaks(g) \/ ThreadFails(g)

(* A request that its caller gives up while it is still in the queue.      *)
GiveUp == abandoned' = abandoned \cup ((pending \ pending') \cap UNION {Queued(g) : g \in Gens})

Next ==
    /\ \/ \E t \in Threads : Call(t) \/ Close(t) \/ Proceed(t)
       \/ \E g \in Gens : Threading(g) \/ ChildAnswers(g) \/ ChildDies(g)
    /\ GiveUp

Spec == Init /\ [][Next]_vars
-----------------------------------------------------------------------------
TypeOK ==
    /\ pc \in [Threads -> {"idle", "ensure", "start", "enqueue", "wait", "cancel", "register",
                           "publish", "gone", "stop", "reap", "forget", "unregister", "wake", "closed"}]
    /\ kind \in [Threads -> {"user", "initialize", "shutdown"}]
    /\ id \in [Threads -> 0..MaxIds] /\ then \in [Threads -> {"start", "raise", "closed"}]
    /\ lifecycle \in Threads \cup {NoThread}
    /\ current \in 0..MaxGens /\ entry \in 0..MaxGens /\ {ready, closing, closed} \subseteq BOOLEAN
    /\ pending \subseteq Ids /\ made \in Seq(0..MaxGens) /\ Len(made) <= MaxIds
    /\ result \in [Ids -> {"none", "answer", "crashed", "canceled"}]
    /\ writer \in [Gens -> {"none", "get", "write", "unregister", "fail", "end"}]
    /\ reader \in [Gens -> {"none", "read", "unregister", "fail", "end"}]
    /\ life \in [Gens -> {"none", "up", "dead"}]
    /\ disk \cup strayed \subseteq Gens /\ dropped \in 0..MaxGens /\ canceled \subseteq Ids
    /\ abandoned \cup notStarted \subseteq Ids
    /\ \A g \in Gens : Len(queue[g]) <= PendingLimit + 1 /\ outbox[g] \subseteq Ids

(* A request that was given up while it still waited in the queue, because *)
(* it timed out, close() canceled it or its child failed, is never written *)
(* to the child: the caller may repeat it (_writer_loop looks at _pending).*)
GivenUpIsNotWritten == \A g \in Gens : abandoned \cap inbox[g] = {}

(* A request reaches only the child it was queued for: what one child may  *)
(* have run is never replayed to the next one.                             *)
RequestsReachTheirChild == \A g \in Gens : \A r \in inbox[g] : made[r] = g

(* What request() reports as not started never reached a child.            *)
NotStartedNeverRan ==
    \A r \in Ids : r \in notStarted => \A g \in Gens : r \notin inbox[g]

(* Every pending request has a caller that waits for it: nothing uses up   *)
(* the pending limit after its caller is gone.                             *)
PendingHasWaiter ==
    \A r \in pending : \E t \in Threads : pc[t] = "wait" /\ id[t] = r

(* A registry file belongs to the child in use, to one that is about to be *)
(* published, or to one that a thread is about to unregister: no entry     *)
(* outlives its process for good (doctor and desktop_lock read the list),  *)
(* but one whose registration failed after its file was in place: its name *)
(* is in no variable, and nothing removes it.                              *)
EntryAccounted ==
    \A g \in disk \ strayed :
        \/ g = entry
        \/ g = current /\ \E t \in Threads : pc[t] \in {"publish", "gone"}
        \/ g = dropped /\ \E t \in Threads : pc[t] = "unregister"
        \/ "unregister" \in {reader[g], writer[g]}

(* At most one helper process runs, whoever restarts it.                   *)
OneHelper == Cardinality({g \in Gens : life[g] = "up"}) <= 1

(* Once close() is done no child runs, nobody waits for one and no later   *)
(* request starts one.                                                     *)
ClosedLeavesNothing ==
    closed => /\ current = 0 /\ pending = {} /\ ~ready
              /\ \A g \in Gens : life[g] \in {"none", "dead"}

(* A caller whose request is no longer pending waits without a time limit  *)
(* (the second wait of _request_started); somebody has woken it or is      *)
(* about to.                                                               *)
UnlimitedWaitIsOwed ==
    \A t \in Threads : pc[t] = "wait" =>
        \/ id[t] \in pending \/ result[id[t]] # "none"
        \/ id[t] \in canceled /\ \E u \in Threads : pc[u] = "wake"
        \/ \E g \in Gens : \/ reader[g] \in {"unregister", "fail"} /\ id[t] \in loss["reader"][g]
                           \/ writer[g] \in {"unregister", "fail"} /\ id[t] \in loss["writer"][g]

(* A child runs what it was meant for, and nothing that was given up       *)
(* before the writer took it; what is given up in the writer's hand or     *)
(* later may still run.                                                    *)
RunsOnlyWhatIsWanted == GivenUpIsNotWritten /\ NotStartedNeverRan /\ RequestsReachTheirChild

(* Every request and its caller know of each other until the answer.       *)
RequestsAccounted == PendingHasWaiter /\ UnlimitedWaitIsOwed

(* One helper at most, one registry entry for it, and none after close().  *)
HelpersAccounted == TypeOK /\ OneHelper /\ EntryAccounted /\ ClosedLeavesNothing
=============================================================================
