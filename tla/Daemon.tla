------------------------------- MODULE Daemon -------------------------------
(***************************************************************************)
(* The resident daemon (daemon.py): local sessions with their requests,    *)
(* the count of calls in flight, the restart into a newer build while      *)
(* idle, and held input when the last session ends.  Readers, writers and  *)
(* watchers run on one event loop and interleave at awaits; the idle check *)
(* runs in a worker thread.  A client may use a request id twice: here     *)
(* every request of a session has the same id.                             *)
(***************************************************************************)
EXTENDS Naturals, FiniteSets

CONSTANTS Sessions,     \* connections
          MaxRequests,  \* bound: requests of one session in flight
          MaxInFlight   \* bound: the count, which duplicate ids let grow

DaemonAssumption == IsFiniteSet(Sessions) /\ "http" \notin Sessions /\ {MaxRequests, MaxInFlight} \subseteq Nat

VARIABLES
    newer,     \* the version stamp names another build
    sess,      \* per connection: "none", "open", "hooks", "release", "done"
    real,      \* requests without an answer yet
    counted,   \* is its id in the session's in_flight set
    inflight,  \* DaemonState.in_flight
    doubled,   \* history: two requests with one id were in flight at once
    check,     \* watch_stamp: "sleep", "jobs", "grant", "go"
    jobs,      \* jobs are running
    grant,     \* the desktop grant is open
    http,      \* a call that came over HTTP runs
    held,      \* who holds keys or buttons down: "local", "http"
    earlier,   \* history: a request in flight now was so when the check began
    restarts

sessvars == <<sess, real, counted, inflight, doubled>>
vars == <<newer, sessvars, check, jobs, grant, http, held, earlier, restarts>>

Listed == {s \in Sessions : sess[s] = "open"}              \* DaemonState.sessions
Calls == {call \in Sessions \X (1..MaxRequests) : call[2] <= real[call[1]]}  \* in flight
Outstanding == Cardinality(Calls)

Init ==
    /\ newer = FALSE /\ sess = [s \in Sessions |-> "none"] /\ real = [s \in Sessions |-> 0]
    /\ counted = [s \in Sessions |-> FALSE] /\ inflight = 0 /\ doubled = FALSE
    /\ check = "sleep" /\ jobs = FALSE /\ grant = FALSE /\ http = FALSE /\ held = {} /\ earlier = {} /\ restarts = 0
-----------------------------------------------------------------------------
Connect(s) ==             \* handle(): the preamble was good
    /\ sess[s] = "none"
    /\ sess' = [sess EXCEPT ![s] = "open"]
    /\ UNCHANGED <<newer, real, counted, inflight, doubled, check, jobs, grant, http, held, earlier, restarts>>

(* Faulty variant: an id that is known already is not counted again.       *)
RequestOnce(s) ==
    /\ sess[s] = "open" /\ real[s] < MaxRequests /\ inflight < MaxInFlight
    /\ real' = [real EXCEPT ![s] = @ + 1] /\ counted' = [counted EXCEPT ![s] = TRUE]
    /\ inflight' = IF counted[s] THEN inflight ELSE inflight + 1
    /\ doubled' = (doubled \/ real[s] > 0)
    /\ UNCHANGED <<newer, sess, check, jobs, grant, http, held, earlier, restarts>>

Request(s) ==             \* reader()
    /\ sess[s] = "open" /\ real[s] < MaxRequests /\ inflight < MaxInFlight
    /\ real' = [real EXCEPT ![s] = @ + 1] /\ counted' = [counted EXCEPT ![s] = TRUE]
    /\ inflight' = inflight + 1
    /\ doubled' = (doubled \/ real[s] > 0)
    /\ UNCHANGED <<newer, sess, check, jobs, grant, http, held, earlier, restarts>>

Answer(s) ==              \* writer()
    /\ sess[s] = "open" /\ real[s] > 0
    /\ real' = [real EXCEPT ![s] = @ - 1] /\ counted' = [counted EXCEPT ![s] = FALSE]
    /\ inflight' = IF counted[s] THEN inflight - 1 ELSE inflight
    /\ earlier' = earlier \ {s}
    /\ UNCHANGED <<newer, sess, doubled, check, jobs, grant, http, held, restarts>>

(* What a call does: start a job, open or close the grant, press or lift.  *)
Effect(who) ==
    \/ jobs' = TRUE /\ UNCHANGED <<grant, held>>
    \/ grant' = ~grant /\ UNCHANGED <<jobs, held>>
    \/ held' \in {held \cup {who}, held \ {who}} /\ UNCHANGED <<jobs, grant>>

Works(s) ==
    /\ sess[s] = "open" /\ real[s] > 0
    /\ Effect("local")
    /\ UNCHANGED <<newer, sessvars, check, http, earlier, restarts>>

(* Calls over HTTP go past handle(): no session and no count.              *)
HttpCall ==
    /\ ~http /\ http' = TRUE
    /\ UNCHANGED <<newer, sessvars, check, jobs, grant, held, earlier, restarts>>

HttpWorks ==
    /\ http /\ Effect("http")
    /\ UNCHANGED <<newer, sessvars, check, http, earlier, restarts>>

HttpAnswer ==
    /\ http /\ http' = FALSE
    /\ earlier' = earlier \ {"http"}
    /\ UNCHANGED <<newer, sessvars, check, jobs, grant, held, restarts>>

(* The client is gone: what it had in flight is taken off the count.       *)
End(s) ==
    /\ sess[s] = "open"
    /\ sess' = [sess EXCEPT ![s] = "hooks"]
    /\ real' = [real EXCEPT ![s] = 0] /\ counted' = [counted EXCEPT ![s] = FALSE]
    /\ inflight' = IF counted[s] THEN inflight - 1 ELSE inflight
    /\ earlier' = earlier \ {s}
    /\ UNCHANGED <<newer, doubled, check, jobs, grant, http, held, restarts>>

(* Faulty variant: it looks before the session is off the list.            *)
EndedEarly(s) ==
    /\ sess[s] = "hooks"
    /\ sess' = [sess EXCEPT ![s] = IF held # {} /\ Listed \cup {s} = {} THEN "release" ELSE "done"]
    /\ UNCHANGED <<newer, real, counted, inflight, doubled, check, jobs, grant, http, held, earlier, restarts>>

(* _session_ended, in a worker thread: let go when nobody is left ...      *)
Ended(s) ==
    /\ sess[s] = "hooks"
    /\ sess' = [sess EXCEPT ![s] = IF held # {} /\ Listed = {} THEN "release" ELSE "done"]
    /\ UNCHANGED <<newer, real, counted, inflight, doubled, check, jobs, grant, http, held, earlier, restarts>>

ReleaseAll(s) ==          \* ... even if somebody came meanwhile
    /\ sess[s] = "release"
    /\ sess' = [sess EXCEPT ![s] = "done"] /\ held' = {}
    /\ UNCHANGED <<newer, real, counted, inflight, doubled, check, jobs, grant, http, earlier, restarts>>
-----------------------------------------------------------------------------
(* watch_stamp and _busy_reason.                                           *)
Install ==
    /\ ~newer /\ restarts = 0
    /\ newer' = TRUE
    /\ UNCHANGED <<sessvars, check, jobs, grant, http, held, earlier, restarts>>

CheckCalls ==
    /\ newer /\ check = "sleep"
    /\ check' = IF inflight > 0 THEN "sleep" ELSE "jobs"
    /\ earlier' = {s \in Sessions : real[s] > 0} \cup (IF http THEN {"http"} ELSE {})
    /\ UNCHANGED <<newer, sessvars, jobs, grant, http, held, restarts>>

(* What cannot be listed or read does not count as busy.                   *)
CheckJobs ==
    /\ check = "jobs"
    /\ check' \in {IF jobs THEN "sleep" ELSE "grant", "grant"}
    /\ UNCHANGED <<newer, sessvars, jobs, grant, http, held, earlier, restarts>>

CheckGrant ==
    /\ check = "grant"
    /\ check' \in {IF grant THEN "sleep" ELSE "go", "go"}
    /\ UNCHANGED <<newer, sessvars, jobs, grant, http, held, earlier, restarts>>

(* done is set: everything is canceled, the runtime closes, which lets go  *)
(* of input and retires a grant whose frame it owns, and systemd starts    *)
(* the newer build.  Jobs live on in their own scopes.                     *)
Restart ==
    /\ check = "go"
    /\ check' = "sleep" /\ newer' = FALSE /\ restarts' = restarts + 1
    /\ sess' = [s \in Sessions |-> "none"] /\ real' = [s \in Sessions |-> 0]
    /\ counted' = [s \in Sessions |-> FALSE] /\ inflight' = 0 /\ doubled' = FALSE
    /\ held' = {} /\ http' = FALSE /\ grant' \in {grant, FALSE} /\ earlier' = {}
    /\ UNCHANGED jobs

JobsEnd ==
    /\ jobs /\ jobs' = FALSE
    /\ UNCHANGED <<newer, sessvars, check, grant, http, held, earlier, restarts>>

GrantEnds ==              \* it expires, or another process closes it
    /\ grant /\ grant' = FALSE
    /\ UNCHANGED <<newer, sessvars, check, jobs, http, held, earlier, restarts>>
-----------------------------------------------------------------------------
Session(s) == \/ Connect(s) \/ Request(s) \/ Answer(s) \/ Works(s) \/ End(s)
              \/ Ended(s) \/ ReleaseAll(s)

Next ==
    \/ \E s \in Sessions : Session(s)
    \/ Install \/ CheckCalls \/ CheckJobs \/ CheckGrant \/ Restart \/ JobsEnd \/ GrantEnds
    \/ HttpCall \/ HttpWorks \/ HttpAnswer

Spec == Init /\ [][Next]_vars

(* The watchers poll for as long as the daemon runs, a session that ended  *)
(* is cleaned up, and time passes.                                         *)
Fairness ==
    /\ WF_vars(CheckCalls) /\ WF_vars(CheckJobs) /\ WF_vars(CheckGrant) /\ WF_vars(Restart)
    /\ \A s \in Sessions : WF_vars(Ended(s)) /\ WF_vars(ReleaseAll(s))
FairSpec == Spec /\ Fairness
-----------------------------------------------------------------------------
TypeOK ==
    /\ sess \in [Sessions -> {"none", "open", "hooks", "release", "done"}]
    /\ real \in [Sessions -> 0..MaxRequests] /\ counted \in [Sessions -> BOOLEAN] /\ inflight \in Nat
    /\ {newer, doubled, jobs, grant, http} \subseteq BOOLEAN /\ earlier \subseteq Sessions \cup {"http"}
    /\ held \subseteq {"local", "http"}
    /\ check \in {"sleep", "jobs", "grant", "go"} /\ restarts \in 0..1

(* The count is that of the local calls that wait for an answer; when a    *)
(* client has used one id twice it may be too high, which keeps an old     *)
(* build running (IdleRestarts), but no call is overlooked.                *)
CountCoversCalls == inflight >= Outstanding /\ (inflight = Outstanding \/ doubled)

DaemonAccounted == TypeOK /\ CountCoversCalls

(* A restart cuts off only local calls that came after the idle check      *)
(* began, and so needs no relay to give up a call it saw running.          *)
RestartSparesEarlierCalls == check \in {"jobs", "grant", "go"} => earlier \subseteq {"http"}

(* A newer build is started once the daemon is idle, unless a client has   *)
(* used an id twice (the count then stays too high for good).              *)
IdleRestarts ==
    LET Idle == Outstanding = 0 /\ ~jobs /\ ~grant IN
    newer ~> ~newer \/ ~Idle \/ doubled

(* Input that is held when the last local session is gone is let go.       *)
HeldIsLetGo ==
    "local" \in held /\ Listed = {} ~> "local" \notin held \/ Listed # {}
=============================================================================
