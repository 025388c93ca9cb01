----------------------------- MODULE KeepAwake ------------------------------
(***************************************************************************)
(* Keep-awake (power.py, daemon.py update_keep_awake): the daemon's loop   *)
(* counts the running jobs and then takes, keeps, changes or gives back an *)
(* inhibitor, a child process.  A method may refuse at once, or run        *)
(* without having taken (only a later look at the desktop tells), or die.  *)
(***************************************************************************)
EXTENDS Naturals, Sequences

CONSTANTS Methods,      \* methods_for(desktop), best first
          Unconfirmed,  \* those whose exit code does not say whether they took
          NoMethod,
          MaxDeaths     \* bound: inhibitors and daemons that die

MethodSet == {Methods[i] : i \in 1..Len(Methods)}

KeepAwakeAssumption ==
    /\ Methods \in Seq(MethodSet) /\ Len(Methods) > 0
    /\ Unconfirmed \subseteq MethodSet /\ NoMethod \notin MethodSet /\ MaxDeaths \in Nat

VARIABLES
    jobs,      \* jobs are running
    enabled,   \* [power] keep_awake in the config file
    installed, honored,  \* methods there, and those the desktop honors
    poll,      \* the loop: "sleep" or "update"
    seen,      \* what it counted: enabled and a job runs
    proc,      \* "none", "up", "exited"
    method, confirmed, \* of _proc
    aged,      \* CONFIRM_AFTER_S passed since it started
    skip,      \* methods that did not take, or seemed not to
    misread,   \* history: those of them that took; the look got no answer
    due,       \* _retry_at is over
    deaths

wishvars == <<jobs, enabled, installed, honored>>
procvars == <<proc, method, confirmed, aged>>
skipvars == <<skip, misread>>
vars == <<wishvars, poll, seen, procvars, skipvars, due, deaths>>

Init ==
    /\ jobs = FALSE /\ enabled \in BOOLEAN
    /\ installed \in SUBSET MethodSet /\ honored \in SUBSET MethodSet
    /\ poll = "sleep" /\ seen = FALSE
    /\ proc = "none" /\ method = NoMethod /\ confirmed = FALSE /\ aged = FALSE
    /\ skip = {} /\ misread = {} /\ due = TRUE /\ deaths = 0

Took == proc = "up" /\ method \in honored

(* method_for: the first installed one that has not failed to take.        *)
Chosen(failed) ==
    LET usable == IF MethodSet \subseteq failed THEN MethodSet ELSE MethodSet \ failed
        here   == {i \in 1..Len(Methods) : Methods[i] \in usable \cap installed}
        best   == {i \in 1..Len(Methods) : Methods[i] \in usable}
        first(S) == CHOOSE i \in S : \A j \in S : i <= j
    IN  Methods[first(IF here # {} THEN here ELSE best)]

NoProc == proc' = "none" /\ method' = NoMethod /\ confirmed' = FALSE /\ aged' = FALSE
Polled == poll' = "sleep" /\ UNCHANGED <<wishvars, seen, deaths>>
-----------------------------------------------------------------------------
Count ==                  \* the config file, then the jobs
    /\ poll = "sleep"
    /\ poll' = "update" /\ seen' = (enabled /\ jobs)
    /\ UNCHANGED <<wishvars, procvars, skipvars, due, deaths>>

Release ==                \* the pipe to `cat` closes and the inhibitor ends
    /\ poll = "update" /\ ~seen
    /\ NoProc /\ skip' = {} /\ misread' = {} /\ due' = TRUE
    /\ Polled

(* It runs and took, or it is too early to tell.                           *)
Keep ==
    /\ poll = "update" /\ seen /\ proc = "up"
    /\ \/ (method \notin Unconfirmed \/ confirmed \/ ~aged) /\ UNCHANGED confirmed
       \/ method \in Unconfirmed \cap honored /\ ~confirmed /\ aged /\ confirmed' = TRUE
    /\ Polled /\ UNCHANGED <<proc, method, aged, skipvars, due>>

(* _acquire: not there, refused in the first moments, or it runs.          *)
Acquire(m) ==
    \/ /\ m \notin installed \/ (m \notin honored /\ m \notin Unconfirmed)
       /\ NoProc /\ due' = FALSE
    \/ /\ m \in installed /\ (m \in honored \/ m \in Unconfirmed)
       /\ proc' = "up" /\ method' = m /\ confirmed' = FALSE /\ aged' = FALSE
       /\ UNCHANGED due

Take ==
    /\ poll = "update" /\ seen /\ proc = "none" /\ due
    /\ Acquire(Chosen(skip))
    /\ Polled /\ UNCHANGED skipvars

WaitForRetry ==
    /\ poll = "update" /\ seen /\ proc = "none" /\ ~due
    /\ Polled /\ UNCHANGED <<procvars, skipvars, due>>

(* Faulty variant: the method that did not take is tried again.            *)
SwitchToSame ==
    /\ poll = "update" /\ seen /\ proc = "up"
    /\ method \in Unconfirmed /\ ~confirmed /\ aged
    /\ Acquire(method) /\ UNCHANGED skipvars
    /\ Polled

(* confirm() says no: it runs without having taken, or it took and the     *)
(* desktop could not be asked, which reads the same.  The next one, now. *)
Switch ==
    /\ poll = "update" /\ seen /\ proc = "up"
    /\ method \in Unconfirmed /\ ~confirmed /\ aged
    /\ skip' = skip \cup {method}
    /\ misread' = misread \cup ({method} \cap honored)
    /\ Acquire(Chosen(skip'))
    /\ Polled

NoteExit ==               \* it died: another one in a minute
    /\ poll = "update" /\ seen /\ proc = "exited"
    /\ NoProc /\ due' = FALSE
    /\ Polled /\ UNCHANGED skipvars

Update == Release \/ Keep \/ Take \/ WaitForRetry \/ Switch \/ NoteExit
-----------------------------------------------------------------------------
TimePasses ==
    /\ ~aged \/ ~due
    /\ aged' = (proc = "up") /\ due' = TRUE
    /\ UNCHANGED <<wishvars, poll, seen, proc, method, confirmed, skipvars, deaths>>

InhibitorDies ==
    /\ proc = "up" /\ deaths < MaxDeaths
    /\ proc' = "exited" /\ deaths' = deaths + 1
    /\ UNCHANGED <<wishvars, poll, seen, method, confirmed, aged, skipvars, due>>

JobsChange ==
    /\ jobs' = ~jobs
    /\ UNCHANGED <<enabled, installed, honored, poll, seen, procvars, skipvars, due, deaths>>

(* The daemon stops or dies: the pipe closes with it, so does the          *)
(* inhibitor.  Jobs live on and the next daemon starts from nothing.       *)
DaemonRestarts ==
    /\ deaths < MaxDeaths /\ deaths' = deaths + 1
    /\ NoProc /\ poll' = "sleep" /\ seen' = FALSE /\ skip' = {} /\ misread' = {} /\ due' = TRUE
    /\ UNCHANGED wishvars

Configure ==
    /\ enabled' = ~enabled
    /\ UNCHANGED <<jobs, installed, honored, poll, seen, procvars, skipvars, due, deaths>>
-----------------------------------------------------------------------------
Next == Count \/ Update \/ TimePasses \/ InhibitorDies \/ JobsChange \/ Configure \/ DaemonRestarts

Spec == Init /\ [][Next]_vars

(* The loop polls for as long as the daemon runs, and time passes.         *)
Fairness == WF_vars(Count) /\ WF_vars(Update) /\ WF_vars(TimePasses)
FairSpec == Spec /\ Fairness
-----------------------------------------------------------------------------
TypeOK ==
    /\ {jobs, enabled, seen, confirmed, aged, due} \subseteq BOOLEAN
    /\ installed \cup honored \cup skip \subseteq MethodSet /\ misread \subseteq skip \cap honored
    /\ poll \in {"sleep", "update"} /\ proc \in {"none", "up", "exited"}
    /\ method \in MethodSet \cup {NoMethod} /\ (method = NoMethod <=> proc = "none")
    /\ deaths \in 0..MaxDeaths

(* While jobs run and keep-awake is on, a method that the desktop honors   *)
(* ends up holding the machine awake, if there is one: refusals, deaths    *)
(* and methods that only seem to take lead on to it.  One that took and    *)
(* was dropped because a look at the desktop got no answer is not tried    *)
(* again for these jobs: it is the exception, and where it was the only    *)
(* one the machine may sleep (power.py:98, 221).                           *)
JobsKeepAwake ==
    jobs /\ enabled /\ (installed \cap honored) \ misread # {} ~> Took \/ ~jobs \/ ~enabled

(* When no job runs or keep-awake is off the inhibitor is given back.      *)
IdleSleeps == ~(jobs /\ enabled) ~> proc # "up" \/ (jobs /\ enabled)
=============================================================================
