------------------------------ MODULE MCDaemon ------------------------------
(***************************************************************************)
(* Small instances of the daemon's two books: its connections, with the    *)
(* idle restart (Daemon), and its background jobs (Jobs).  To Daemon a job *)
(* runs or does not, to Jobs a restart is a parent that is gone; so each   *)
(* behaviour moves one part and leaves the other where it started.         *)
(***************************************************************************)
EXTENDS Naturals

CONSTANTS Parts,                                       \* of "daemon", "jobs"
          Sessions, MaxRequests, MaxInFlight,          \* Daemon
          Viewers, Poller                              \* Jobs

VARIABLES
    part,      \* which of the two moves
    newer, sess, real, counted, inflight, doubled, check, jobs, grant, http, held, earlier, restarts,
    starter, parent, wrapper, cmd, code, exitf, meta, late, pc, mode, report, over, stamped, since

D == INSTANCE Daemon
J == INSTANCE Jobs

ASSUME BooksAssumption == D!DaemonAssumption /\ J!JobsAssumption

dvars == <<newer, sess, real, counted, inflight, doubled, check, jobs, grant, http, held, earlier, restarts>>
jvars == <<starter, parent, wrapper, cmd, code, exitf, meta, late, pc, mode, report, over, stamped, since>>
vars == <<part, dvars, jvars>>

Init == part \in Parts /\ D!Init /\ J!Init

Next ==
    \/ part = "daemon" /\ D!Next /\ UNCHANGED <<part, jvars>>
    \/ part = "jobs" /\ J!Next /\ UNCHANGED <<part, dvars>>

Spec == Init /\ [][Next]_vars

(* The fairness of the two modules, each as long as its part moves.        *)
FairSpec ==
    /\ Spec
    /\ WF_dvars(part = "daemon" /\ D!CheckCalls) /\ WF_dvars(part = "daemon" /\ D!CheckJobs)
    /\ WF_dvars(part = "daemon" /\ D!CheckGrant) /\ WF_dvars(part = "daemon" /\ D!Restart)
    /\ \A s \in Sessions : /\ WF_dvars(part = "daemon" /\ D!Ended(s))
                           /\ WF_dvars(part = "daemon" /\ D!ReleaseAll(s))
    /\ WF_jvars(part = "jobs" /\ J!Begin(Poller, "look"))
    /\ \A v \in Viewers : WF_jvars(part = "jobs" /\ J!View(v))
-----------------------------------------------------------------------------
(* The properties of the two modules, stated and explained there.          *)
(* DaemonAccounted: no call is overlooked by the idle check; nothing that  *)
(* is over is told to run, and a command that runs without a record has    *)
(* one of three explanations.                                              *)
DaemonAccounted ==
    /\ D!DaemonAccounted /\ D!RestartSparesEarlierCalls
    /\ J!EndedStaysEnded /\ J!EndIsTrue /\ J!JobsSeen

(* DaemonSettles: an idle daemon takes over a newer build, what a session  *)
(* that ended held down comes up, and a job past its time limit is stopped.*)
DaemonSettles == D!IdleRestarts /\ D!HeldIsLetGo /\ J!OverdueJobStops
=============================================================================
