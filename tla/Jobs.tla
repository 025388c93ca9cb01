-------------------------------- MODULE Jobs --------------------------------
(***************************************************************************)
(* One background job (jobs.py): a wrapper shell that runs a command and   *)
(* then writes an exit file, a meta file, and any number of callers that   *)
(* look at the job or cancel it with no lock between them.  Everything a   *)
(* caller knows comes from the two files and from kill(pid, 0), for which  *)
(* a child that was not waited for (a zombie) is alive, and so is another  *)
(* process that was given the pid since.  The daemon may restart at any    *)
(* step; the job goes on.                                                  *)
(***************************************************************************)
EXTENDS Naturals, FiniteSets

CONSTANTS Viewers,      \* threads that call status(), list_jobs() and cancel()
          Poller        \* the thread of the daemon's periodic list_jobs()

JobsAssumption == Poller \in Viewers

VARIABLES
    starter,   \* where start() is
    parent,    \* is the process that started the job the daemon of now
    wrapper,   \* "none", "cmd", "open", "wrote", "zombie", "gone"; "other": its pid is another's
    cmd,       \* the command itself: "none", "run", "done"
    code,      \* its exit code
    exitf,     \* exit file: "none", "empty" or the code in it
    meta,      \* meta file: "none", "torn", "run", "done" (with finished_at)
    late,      \* the deadline is over
    pc,        \* where each viewer is
    mode,      \* what it was called for: "look" or "cancel"
    report,    \* what it answered last
    over,      \* history: an end of the job was reported
    stamped,   \* per viewer: had the record it read a finished_at
    since      \* history, per viewer: over when its call began

jobvars  == <<starter, parent, wrapper, cmd, code, late>>
filevars == <<exitf, meta>>
viewvars == <<pc, mode, report, over, since, stamped>>
vars == <<jobvars, filevars, viewvars>>

Codes == {"0", "3"}
Ended == {"finished", "failed", "timeout", "vanished", "stopped"}

Init ==
    /\ starter = "idle" /\ parent = TRUE /\ wrapper = "none" /\ cmd = "none" /\ code = "0"
    /\ exitf = "none" /\ meta = "none" /\ late = FALSE
    /\ pc = [v \in Viewers |-> "idle"] /\ mode = [v \in Viewers |-> "look"]
    /\ report = [v \in Viewers |-> "none"] /\ over = FALSE /\ since = [v \in Viewers |-> FALSE]
    /\ stamped = [v \in Viewers |-> FALSE]

Dead == IF parent THEN "zombie" ELSE "gone"    \* who waits for it: nobody yet, or init
PidAlive == wrapper \notin {"none", "gone"}
Working == wrapper \in {"cmd", "open", "wrote"}
-----------------------------------------------------------------------------
(* start(): the record is proved writable before anything runs.            *)
Probe ==
    /\ starter = "idle"
    /\ starter' \in {"popen", "failed"}
    /\ UNCHANGED <<parent, wrapper, cmd, code, late, filevars, viewvars>>

Popen ==
    /\ starter = "popen"
    /\ starter' = "record" /\ wrapper' = "cmd" /\ cmd' = "run" /\ code' \in Codes
    /\ UNCHANGED <<parent, late, filevars, viewvars>>

OpenRecord ==
    /\ starter = "record"
    /\ starter' = "write" /\ meta' = "torn"
    /\ UNCHANGED <<parent, wrapper, cmd, code, late, exitf, viewvars>>

WriteRecord ==
    /\ starter = "write"
    /\ starter' = "returned" /\ meta' = "run"
    /\ UNCHANGED <<parent, wrapper, cmd, code, late, exitf, viewvars>>

(* SIGTERM to the group: the wrapper dies of it, the command may ignore it.*)
Terminate ==
    /\ wrapper' = IF Working THEN Dead ELSE wrapper
    /\ cmd' \in {cmd, IF cmd = "run" THEN "done" ELSE cmd}

RecordFails ==            \* the disk is full: the group is told to end
    /\ starter \in {"record", "write"}
    /\ starter' = "failed"
    /\ Terminate
    /\ UNCHANGED <<parent, code, late, filevars, viewvars>>
-----------------------------------------------------------------------------
(* The job: command > log; printf $? > exit.                               *)
CommandEnds ==
    /\ cmd = "run" /\ cmd' = "done"
    /\ UNCHANGED <<starter, parent, wrapper, code, late, filevars, viewvars>>

OpenExit ==
    /\ wrapper = "cmd" /\ cmd = "done"
    /\ wrapper' = "open" /\ exitf' = "empty"
    /\ UNCHANGED <<starter, parent, cmd, code, late, meta, viewvars>>

WriteExit ==
    /\ wrapper = "open"
    /\ wrapper' = "wrote" /\ exitf' = code
    /\ UNCHANGED <<starter, parent, cmd, code, late, meta, viewvars>>

WrapperExits ==           \* also killed by somebody else, in the middle of it
    /\ Working
    /\ wrapper' = Dead
    /\ UNCHANGED <<starter, parent, cmd, code, late, filevars, viewvars>>

Reap ==                   \* any later Popen of the daemon waits for old children
    /\ wrapper = "zombie"
    /\ wrapper' = "gone"
    /\ UNCHANGED <<starter, parent, cmd, code, late, filevars, viewvars>>

(* The kernel gives the pid away, though not while the group has a member. *)
(* What a cancel() then does to the other process is left out.             *)
Reuse ==
    /\ wrapper = "gone" /\ cmd = "done"
    /\ wrapper' = "other"
    /\ UNCHANGED <<starter, parent, cmd, code, late, filevars, viewvars>>

DeadlinePasses ==
    /\ starter = "returned" /\ ~late
    /\ late' = TRUE
    /\ UNCHANGED <<starter, parent, wrapper, cmd, code, filevars, viewvars>>

(* The daemon ends, by a restart or a crash, with all its threads; init    *)
(* waits for the children it leaves.                                       *)
Restart ==
    /\ parent
    /\ parent' = FALSE
    /\ starter' = IF starter \in {"returned", "failed"} THEN starter ELSE "lost"
    /\ wrapper' = IF wrapper = "zombie" THEN "gone" ELSE wrapper
    /\ pc' = [v \in Viewers |-> "idle"]
    /\ UNCHANGED <<cmd, code, late, filevars, mode, report, over, since, stamped>>
-----------------------------------------------------------------------------
Goto(v, l) == pc' = [pc EXCEPT ![v] = l]
Report(v, what) ==
    /\ report' = [report EXCEPT ![v] = what]
    /\ over' = (over \/ what \in Ended)
    /\ Goto(v, "idle")

(* status() and cancel() both begin with the meta file.                    *)
Begin(v, m) ==
    /\ pc[v] = "idle" /\ meta # "none"
    /\ mode' = [mode EXCEPT ![v] = m] /\ since' = [since EXCEPT ![v] = over]
    /\ stamped' = [stamped EXCEPT ![v] = meta = "done"]
    /\ report' = [report EXCEPT ![v] = IF meta = "torn" THEN "unreadable" ELSE "none"]
    /\ Goto(v, IF meta = "torn" THEN "idle" ELSE IF m = "look" THEN "exit" ELSE "cancel")
    /\ UNCHANGED <<jobvars, filevars, over>>

SeeExit(v) ==
    /\ pc[v] = "exit"
    /\ Goto(v, IF exitf # "none" THEN "read" ELSE "alive")
    /\ UNCHANGED <<jobvars, filevars, mode, report, over, since, stamped>>

(* An empty exit file reads as 0.  The first look adds finished_at.        *)
ReadExit(v) ==
    /\ pc[v] = "read"
    /\ LET status == IF exitf \in {"empty", "0"} THEN "finished" ELSE "failed" IN
       \/ stamped[v] /\ Report(v, status) /\ UNCHANGED meta
       \/ /\ ~stamped[v] /\ meta' = "torn"
          /\ report' = [report EXCEPT ![v] = status]
          /\ Goto(v, "finish") /\ UNCHANGED over
    /\ UNCHANGED <<jobvars, exitf, mode, since, stamped>>

WriteFinished(v) ==
    /\ pc[v] = "finish"
    /\ meta' = "done" /\ Report(v, report[v])
    /\ UNCHANGED <<jobvars, exitf, mode, since, stamped>>

SeeAlive(v) ==
    /\ pc[v] = "alive"
    /\ \/ ~PidAlive /\ Report(v, "vanished")
       \/ PidAlive /\ late /\ Goto(v, "cancel") /\ UNCHANGED <<report, over>>
       \/ PidAlive /\ ~late /\ Report(v, "running")
    /\ UNCHANGED <<jobvars, filevars, mode, since, stamped>>

(* The answer of cancel(): its own, or that of the status() that called it.*)
Answer(v, own) == Report(v, IF mode[v] = "look" THEN "timeout" ELSE own)

CancelFinds(v) ==
    /\ pc[v] = "cancel"
    /\ \/ ~PidAlive /\ Answer(v, "not running")
       \/ PidAlive /\ Goto(v, "term") /\ UNCHANGED <<report, over>>
    /\ UNCHANGED <<jobvars, filevars, mode, since, stamped>>

Signal(v) ==              \* killpg(getpgid(pid), SIGTERM); a process that is gone has no group
    /\ pc[v] = "term"
    /\ IF wrapper = "gone" THEN UNCHANGED <<wrapper, cmd>> ELSE Terminate
    /\ Goto(v, "wait")
    /\ UNCHANGED <<starter, parent, code, late, filevars, mode, report, over, since, stamped>>

(* Twelve looks, a quarter of a second apart, then SIGKILL.                *)
Kill(v) ==
    /\ pc[v] = "wait"
    /\ \/ ~PidAlive /\ UNCHANGED <<wrapper, cmd>>
       \/ PidAlive /\ wrapper' = (IF Working THEN Dead ELSE wrapper) /\ cmd' = "done"
    /\ Goto(v, "code")
    /\ UNCHANGED <<starter, parent, code, late, filevars, mode, report, over, since, stamped>>

NeedsCode(v) ==
    /\ pc[v] = "code"
    /\ \/ exitf # "none" /\ Answer(v, "stopped")
       \/ exitf = "none" /\ Goto(v, "open130") /\ UNCHANGED <<report, over>>
    /\ UNCHANGED <<jobvars, filevars, mode, since, stamped>>

Open130(v) ==
    /\ pc[v] = "open130"
    /\ exitf' = "empty" /\ Goto(v, "write130")
    /\ UNCHANGED <<jobvars, meta, mode, report, over, since, stamped>>

Write130(v) ==
    /\ pc[v] = "write130"
    /\ exitf' = "130" /\ Answer(v, "stopped")
    /\ UNCHANGED <<jobvars, meta, mode, since, stamped>>
-----------------------------------------------------------------------------
View(v) ==
    \/ SeeExit(v) \/ ReadExit(v) \/ WriteFinished(v) \/ SeeAlive(v)
    \/ CancelFinds(v) \/ Signal(v) \/ Kill(v) \/ NeedsCode(v) \/ Open130(v) \/ Write130(v)

Next ==
    \/ Probe \/ Popen \/ OpenRecord \/ WriteRecord \/ RecordFails
    \/ CommandEnds \/ OpenExit \/ WriteExit \/ WrapperExits \/ Reap \/ Reuse
    \/ DeadlinePasses \/ Restart
    \/ \E v \in Viewers : Begin(v, "look") \/ Begin(v, "cancel") \/ View(v)

Spec == Init /\ [][Next]_vars

(* The daemon lists its jobs every few seconds for as long as it runs, and *)
(* every wait in status() and cancel() has a limit.                        *)
Fairness ==
    /\ WF_vars(Begin(Poller, "look"))
    /\ \A v \in Viewers : WF_vars(View(v))
FairSpec == Spec /\ Fairness
-----------------------------------------------------------------------------
TypeOK ==
    /\ starter \in {"idle", "popen", "record", "write", "returned", "failed", "lost"}
    /\ wrapper \in {"none", "cmd", "open", "wrote", "zombie", "gone", "other"}
    /\ cmd \in {"none", "run", "done"} /\ code \in Codes
    /\ exitf \in {"none", "empty", "0", "3", "130"} /\ meta \in {"none", "torn", "run", "done"}
    /\ {parent, late, over} \subseteq BOOLEAN /\ {since, stamped} \subseteq [Viewers -> BOOLEAN]
    /\ pc \in [Viewers -> {"idle", "exit", "read", "finish", "alive", "cancel", "term", "wait",
                           "code", "open130", "write130"}]
    /\ mode \in [Viewers -> {"look", "cancel"}]
    /\ report \in [Viewers -> Ended \cup {"none", "unreadable", "running", "not running"}]
    /\ \A v \in Viewers : pc[v] \in {"read", "finish"} => exitf # "none"

(* Once anybody was told that the job is over, by a status or by a cancel, *)
(* nobody who asks later is told that it runs; unless it left no exit file *)
(* and another process has its pid.                                        *)
EndedStaysEnded ==
    \A v \in Viewers : report[v] = "running" /\ pc[v] = "idle" => ~since[v] \/ wrapper = "other"

(* Whoever is told that the job is over can rely on it: the wrapper has    *)
(* left its command for good.  The command may have survived it.           *)
EndIsTrue == over => wrapper \notin {"none", "cmd"}

(* A start() that failed leaves no wrapper at work.                        *)
FailedStartRunsNothing == starter = "failed" => ~Working

(* A job that start() returned can be seen, and so stopped, for as long as *)
(* its command runs under the wrapper, through any restart.                *)
RunningIsVisible == starter = "returned" /\ wrapper = "cmd" => meta = "run"

(* A command that runs without a record is not ruled out.  There are three *)
(* ways to it: start() is about to write the record; the daemon ended in   *)
(* that moment, and then nobody ever sees the job; or the wrapper was told *)
(* to end, because the record could not be written, or was killed, and the *)
(* command ignored it.                                                     *)
UnseenIsExplained ==
    cmd = "run" => meta \in {"run", "done"} \/ starter \in {"record", "write"} \/ starter = "lost" \/ ~Working

JobsSeen == TypeOK /\ FailedStartRunsNothing /\ RunningIsVisible /\ UnseenIsExplained

(* A job that runs past its deadline is stopped, through any restart of    *)
(* the daemon, as long as its record can be read.                          *)
OverdueJobStops == late /\ meta = "run" /\ wrapper = "cmd" ~> wrapper # "cmd"

=============================================================================
