------------------------------- MODULE Lease -------------------------------
(***************************************************************************)
(* The desktop grant file and its read-modify-write operations:            *)
(* pcbridge/desktop/lease.py (LeaseStore, LeaseSnapshot, LeaseToken) as    *)
(* SafetyGate (pcbridge/desktop/safety.py) calls it.                       *)
(*                                                                         *)
(* Every process of the machine (daemon, command line, another stdio       *)
(* server) works on one JSON file.  An operation takes its time stamp,     *)
(* waits for the flock of the lock file, reads the file, and replaces it   *)
(* by an atomic rename before the lock goes.  Other processes step in      *)
(* between any two of these, and a process may die anywhere: the kernel    *)
(* then drops its lock and the file is the old one or the new one.         *)
(*                                                                         *)
(* Time is counted in ticks, Second of them to the second, so that touch's *)
(* "less than a second" comparison is not lost to rounding.                *)
(***************************************************************************)
EXTENDS Integers

CONSTANTS Procs,      \* the processes
          NoProc,     \* no process holds the lock file
          Second,     \* ticks per second
          Idle,       \* unlock_idle_seconds, in ticks; 0 turns sliding off
          Terms,      \* the lengths a grant is asked for, in ticks
          MaxTime,    \* bound: the clock stops here
          MaxGrants,  \* bound: grants opened in a behaviour
          MaxEpoch    \* bound: revokes in a behaviour

ASSUME LeaseAssumption ==
    /\ NoProc \notin Procs
    /\ Second \in Nat \ {0}
    /\ Idle \in Nat
    /\ Terms \subseteq Nat \ {0}
    /\ MaxTime \in Nat /\ MaxGrants \in Nat /\ MaxEpoch \in Nat

VARIABLES file,    \* the state file, as LeaseSnapshot.from_mapping reads it
          now,     \* time.time()
          issued,  \* grant ids handed out: the n-th uuid is the number n
          lock,    \* holder of the exclusive flock, or NoProc
          pc,      \* where each process is in its operation
          req,     \* the operation each process runs, with its arguments
          cur,     \* what each process read under the lock
          token,   \* the LeaseToken each process captured
          last     \* history: the latest moment of an admitted touch of the
                   \* grant in the file, -1 before the first one

procvars == <<pc, req, cur, token>>
vars == <<file, now, issued, lock, procvars, last>>

-----------------------------------------------------------------------------
NoId == 0                                  \* grant_id == ""
NoToken == [id |-> NoId, epoch |-> -1]     \* token is None
SCHEMA_VERSION == 1

(* What a missing, unreadable or corrupt file reads as.                    *)
Empty == [schema |-> 0, id |-> NoId, epoch |-> 0, until |-> 0, hard |-> 0]

Snapshots == [schema : {0, SCHEMA_VERSION}, id : Nat, epoch : Nat,
              until : Nat, hard : Nat]
Tokens == [id : Nat, epoch : Nat \cup {-1}]
NoReq == [op |-> "none", moment |-> 0, until |-> 0]
Ops == {"none", "grant", "revoke", "revoke_if", "touch"}

(* LeaseSnapshot.is_active                                                 *)
IsActive(s, moment) == /\ s.until > moment
                       /\ s.schema # SCHEMA_VERSION \/ s.hard > moment

TokenOf(s) == [id |-> s.id, epoch |-> s.epoch]

(* LeaseStore.grant: a fresh identity under the epoch of the file.         *)
Granted(s, until, id) == [schema |-> SCHEMA_VERSION, id |-> id, epoch |-> s.epoch,
                          until |-> until, hard |-> until]

(* LeaseStore._revoke_unlocked                                             *)
Revoked(s) == [schema |-> SCHEMA_VERSION, id |-> s.id, epoch |-> s.epoch + 1,
               until |-> 0, hard |-> 0]

(* The identity comparison of LeaseStore.revoke_if.                        *)
RevokeIfMatches(s, t) == /\ s.schema = SCHEMA_VERSION
                         /\ t.id # NoId
                         /\ TokenOf(s) = t

(* Faulty variants: a touch that ignores the deadline, a deadline without  *)
(* the ceiling, and one counted from the old deadline.                     *)
TouchAdmitsExpired(s, t, moment) == s.until > 0 /\ TokenOf(s) = t
TouchDeadlineUnbounded(s, moment) == moment + Idle
TouchDeadlineAdds(s, moment) == IF s.hard < s.until + Idle THEN s.hard ELSE s.until + Idle

(* LeaseStore.touch: its refusals, the deadline it wants, and whether that *)
(* differs enough from the old one to be worth a write.                    *)
TouchAdmits(s, t, moment) == /\ IsActive(s, moment)
                             /\ TokenOf(s) = t
                             /\ Idle <= 0 \/ s.hard <= 0 \/ s.hard > moment

TouchDeadline(s, moment) == IF s.hard < moment + Idle THEN s.hard ELSE moment + Idle

Distance(a, b) == IF a < b THEN b - a ELSE a - b

TouchWrites(s, moment) == /\ Idle > 0 /\ s.hard > 0
                          /\ Distance(TouchDeadline(s, moment), s.until) >= Second
-----------------------------------------------------------------------------
(* The file may be missing, or written by a release that had neither       *)
(* identity nor ceiling.                                                   *)
Init == /\ file \in {Empty} \cup {[Empty EXCEPT !.until = t] : t \in Terms}
        /\ now = 0
        /\ issued = 0
        /\ lock = NoProc
        /\ pc = [p \in Procs |-> "idle"]
        /\ req = [p \in Procs |-> NoReq]
        /\ cur = [p \in Procs |-> Empty]
        /\ token = [p \in Procs |-> NoToken]
        /\ last = -1

(* SafetyGate.current_token: a read under the shared lock, so no writer is *)
(* inside its critical section.                                            *)
CaptureToken(p) ==
    /\ pc[p] = "idle"
    /\ lock = NoProc
    /\ token' = [token EXCEPT ![p] = IF IsActive(file, now) THEN TokenOf(file) ELSE NoToken]
    /\ UNCHANGED <<file, now, issued, lock, pc, req, cur, last>>

Begin(p, r) ==
    /\ pc[p] = "idle"
    /\ pc' = [pc EXCEPT ![p] = "waiting"]
    /\ req' = [req EXCEPT ![p] = r]
    /\ UNCHANGED <<file, now, issued, lock, cur, token, last>>

(* SafetyGate._grant computes the deadline before the store is locked.     *)
BeginGrant(p) == \E d \in Terms : Begin(p, [op |-> "grant", moment |-> 0, until |-> now + d])

BeginRevoke(p) == Begin(p, [op |-> "revoke", moment |-> 0, until |-> 0])

(* glowowner.FrameOwner._retire and a failed unlock give up their own grant. *)
BeginRevokeIf(p) == /\ token[p] # NoToken
                    /\ Begin(p, [op |-> "revoke_if", moment |-> 0, until |-> 0])

(* touch reads the clock, then waits for the lock.                         *)
BeginTouch(p) == /\ token[p] # NoToken
                 /\ Begin(p, [op |-> "touch", moment |-> now, until |-> 0])

(* Faulty variant: the lock file does not exclude a second writer.         *)
AcquireShared(p) ==
    /\ pc[p] = "waiting"
    /\ req[p].op = "grant" => issued < MaxGrants
    /\ req[p].op \in {"revoke", "revoke_if"} => file.epoch < MaxEpoch
    /\ lock' = p
    /\ cur' = [cur EXCEPT ![p] = file]
    /\ pc' = [pc EXCEPT ![p] = "locked"]
    /\ UNCHANGED <<file, now, issued, req, token, last>>

(* _locked(exclusive=True) and _read_unlocked.  The bounds keep an         *)
(* operation outside; inside, nothing stops it.                            *)
Acquire(p) ==
    /\ pc[p] = "waiting"
    /\ lock = NoProc
    /\ req[p].op = "grant" => issued < MaxGrants
    /\ req[p].op \in {"revoke", "revoke_if"} => file.epoch < MaxEpoch
    /\ lock' = p
    /\ cur' = [cur EXCEPT ![p] = file]
    /\ pc' = [pc EXCEPT ![p] = "locked"]
    /\ UNCHANGED <<file, now, issued, req, token, last>>

(* The end of the critical section.                                        *)
Return(p) ==
    /\ lock' = NoProc
    /\ pc' = [pc EXCEPT ![p] = "idle"]
    /\ req' = [req EXCEPT ![p] = NoReq]
    /\ cur' = [cur EXCEPT ![p] = Empty]
    /\ UNCHANGED now

Inside(p, op) == pc[p] = "locked" /\ req[p].op = op

CommitGrant(p) ==
    /\ Inside(p, "grant")
    /\ file' = Granted(cur[p], req[p].until, issued + 1)
    /\ issued' = issued + 1
    /\ token' = [token EXCEPT ![p] = TokenOf(Granted(cur[p], req[p].until, issued + 1))]
    /\ last' = -1
    /\ Return(p)

(* SafetyGate.lock also forgets the token of its own call.                 *)
CommitRevoke(p) ==
    /\ Inside(p, "revoke")
    /\ file' = Revoked(cur[p])
    /\ token' = [token EXCEPT ![p] = NoToken]
    /\ Return(p)
    /\ UNCHANGED <<issued, last>>

CommitRevokeIf(p) ==
    /\ Inside(p, "revoke_if")
    /\ file' = IF RevokeIfMatches(cur[p], token[p]) THEN Revoked(cur[p]) ELSE file
    /\ Return(p)
    /\ UNCHANGED <<issued, token, last>>

CommitTouch(p) ==
    /\ Inside(p, "touch")
    /\ IF TouchAdmits(cur[p], token[p], req[p].moment)
       THEN /\ file' = IF TouchWrites(cur[p], req[p].moment)
                       THEN [cur[p] EXCEPT !.until = TouchDeadline(cur[p], req[p].moment)]
                       ELSE file
            /\ last' = IF last < req[p].moment THEN req[p].moment ELSE last
       ELSE UNCHANGED <<file, last>>
    /\ Return(p)
    /\ UNCHANGED <<issued, token>>

(* A process dies: its memory is gone and the kernel drops its lock.  The  *)
(* file is replaced by one rename, so there is no half-written state.      *)
Crash(p) ==
    /\ lock' = IF lock = p THEN NoProc ELSE lock
    /\ pc' = [pc EXCEPT ![p] = "idle"]
    /\ req' = [req EXCEPT ![p] = NoReq]
    /\ cur' = [cur EXCEPT ![p] = Empty]
    /\ token' = [token EXCEPT ![p] = NoToken]
    /\ UNCHANGED <<file, now, issued, last>>

Tick == /\ now < MaxTime
        /\ now' = now + 1
        /\ UNCHANGED <<file, issued, lock, procvars, last>>

Step(p) == \/ CaptureToken(p)
           \/ BeginGrant(p) \/ BeginRevoke(p) \/ BeginRevokeIf(p) \/ BeginTouch(p)
           \/ Acquire(p)
           \/ CommitGrant(p) \/ CommitRevoke(p) \/ CommitRevokeIf(p) \/ CommitTouch(p)
           \/ Crash(p)

Next == Tick \/ \E p \in Procs : Step(p)

Spec == Init /\ [][Next]_vars
-----------------------------------------------------------------------------
(* Every variable holds what the code stores in it; a process that is      *)
(* inside the critical section is the one the lock file names.             *)
TypeOK ==
    /\ file \in Snapshots
    /\ now \in Nat /\ issued \in Nat
    /\ lock \in Procs \cup {NoProc}
    /\ pc \in [Procs -> {"idle", "waiting", "locked"}]
    /\ req \in [Procs -> [op : Ops, moment : Nat, until : Nat]]
    /\ cur \in [Procs -> Snapshots]
    /\ token \in [Procs -> Tokens]
    /\ last \in Nat \cup {-1}

(* The read-modify-write operations of lease.py behave like the atomic     *)
(* operations of Grant: no update is lost between two processes, a revoked *)
(* or replaced grant never opens again, and no touch passes the ceiling.   *)
G == INSTANCE Grant WITH id <- file.id, until <- file.until, hard <- file.hard
ImplementsGrant == G!Spec

(* LeaseStore.revoke_if: "Retire this owner without revoking a replacement *)
(* grant."  Whatever happened while the caller waited for the lock, the    *)
(* file only changes when it still holds the caller's own grant.           *)
RevokeIfSparesReplacement ==
    [][\A p \in Procs : Inside(p, "revoke_if") /\ file' # file
                            => TokenOf(file) = token[p] /\ file'.until = 0]_vars

(* Every answer and every write is made on the file as it is at that       *)
(* moment: between the read and the rename nobody else revoked, replaced   *)
(* or slid the grant, so a revoked grant admits no touch and no write      *)
(* undoes another one.                                                     *)
DecidesOnCurrentFile ==
    \A p \in Procs : pc[p] = "locked" => cur[p] = file

(* The grant "closes 90 s after the last desktop action": once an action   *)
(* was admitted, the deadline is less than a second beyond the idle time   *)
(* after the latest admitted action, in whatever order touches were made.  *)
ClosesAfterLastAction ==
    last # -1 /\ Idle > 0 /\ file.schema = SCHEMA_VERSION
        => file.until < last + Idle + Second

(* What the code does guarantee of an expired grant: its deadline is moved *)
(* only by a touch that was stamped before the deadline passed.            *)
ExpiredMovesOnlyByEarlierTouch ==
    [][\A p \in Procs :
          /\ Inside(p, "touch") /\ pc'[p] = "idle"
          /\ file'.until # file.until
          => req[p].moment < file.until]_vars

=============================================================================
