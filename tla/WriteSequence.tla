--------------------------- MODULE WriteSequence ---------------------------
(***************************************************************************)
(* One desktop write from its admission to the release of the execution    *)
(* lock: SafetyGate.check and verify (pcbridge/desktop/safety.py),         *)
(* ExecutionLock.hold and SequenceGuard (pcbridge/desktop/execution.py),   *)
(* DesktopRuntime.write_sequence (pcbridge/desktop/runtime.py) and the     *)
(* tools' _guard, computer_batch and desktop_lock (pcbridge/tools.py).     *)
(*                                                                         *)
(* Calls of several processes compete for one flock.  The grant, the       *)
(* screen lock and the client's cancellation change between any two steps  *)
(* of a call, and a process may die in any of them.  The grant is the      *)
(* atomic one of Grant.tla, which Lease.tla implements.                    *)
(***************************************************************************)
EXTENDS Integers

CONSTANTS Calls,       \* the write calls of a behaviour
          Hosts,       \* the processes that run them
          HostOf,      \* [Calls -> Hosts]
          Batches,     \* the calls of computer_batch; the others send one action
          NoCall,      \* the execution lock is free
          MaxActions,  \* bound: actions in one sequence
          MaxGrants,   \* bound: grants opened
          MaxEpoch     \* bound: revokes

ASSUME SequenceAssumption ==
    /\ NoCall \notin Calls
    /\ HostOf \in [Calls -> Hosts]
    /\ Batches \subseteq Calls
    /\ MaxActions \in Nat \ {0} /\ MaxGrants \in Nat /\ MaxEpoch \in Nat

VARIABLES grant,     \* the grant file: identity, revoke epoch, still active
          issued,    \* identities given out
          screen,    \* the state of the screen lock
          slot,      \* who holds the execution flock
          pc,        \* where each call is
          admitted,  \* the call passed admit() inside the slot
          tok,       \* the grant identity captured by check()
          left,      \* actions the call still has to send
          outcome,   \* how the call ended
          canceled,  \* the client canceled the call
          held,      \* per process: the calls whose key or button is down
          locking,   \* per process: desktop_lock is between revoke and cleanup
          overrun,   \* history: actions sent under a grant that had ended
          blind      \* history: actions sent since the screen locked

callvars == <<pc, admitted, tok, left, outcome, canceled>>
grantvars == <<grant, issued>>
vars == <<grantvars, screen, slot, callvars, held, locking, overrun, blind>>

NoToken == [id |-> 0, epoch |-> -1]
TokenOf(g) == [id |-> g.id, epoch |-> g.epoch]

(* LeaseStore.touch on the atomic grant: the same grant, still active.     *)
Current(t) == grant.open /\ TokenOf(grant) = t

(* The call is inside hold(): it owns the flock.                           *)
InSlot == {"verify", "touch", "between", "pace", "send", "unwind", "exit"}

Init == /\ grant = [id |-> 0, epoch |-> 0, open |-> FALSE]
        /\ issued = 0
        /\ screen = "unlocked"
        /\ slot = NoCall
        /\ pc = [c \in Calls |-> "idle"]
        /\ admitted = [c \in Calls |-> FALSE]
        /\ tok = [c \in Calls |-> NoToken]
        /\ left = [c \in Calls |-> IF c \in Batches THEN MaxActions ELSE 1]
        /\ outcome = [c \in Calls |-> "none"]
        /\ canceled = [c \in Calls |-> FALSE]
        /\ held = [h \in Hosts |-> {}]
        /\ locking = [h \in Hosts |-> FALSE]
        /\ overrun = [i \in 1..MaxGrants |-> 0]
        /\ blind = 0
-----------------------------------------------------------------------------
Goto(c, where) == pc' = [pc EXCEPT ![c] = where]

End(c, how) == /\ pc' = [pc EXCEPT ![c] = "done"]
               /\ outcome' = [outcome EXCEPT ![c] = how]

(* SafetyGate.check: the screen lock and current_token ...                 *)
Check(c) ==
    /\ pc[c] = "idle"
    /\ IF screen = "unlocked" /\ grant.open
       THEN /\ tok' = [tok EXCEPT ![c] = TokenOf(grant)]
            /\ Goto(c, "checked")
            /\ UNCHANGED outcome
       ELSE End(c, "refused") /\ UNCHANGED tok
    /\ UNCHANGED <<grantvars, screen, slot, admitted, left, canceled, held, locking, overrun, blind>>

(* ... the user at the machine, an unknown activity or the rate limit ...  *)
CheckRefuses(c) ==
    /\ pc[c] = "checked"
    /\ End(c, "refused")
    /\ tok' = [tok EXCEPT ![c] = NoToken]
    /\ UNCHANGED <<grantvars, screen, slot, admitted, left, canceled, held, locking, overrun, blind>>

(* ... and the touch of the token it read, which may be stale by now.      *)
CheckAdmits(c) ==
    /\ pc[c] = "checked"
    /\ IF Current(tok[c]) THEN Goto(c, "waiting") /\ UNCHANGED outcome
                          ELSE End(c, "refused")
    /\ UNCHANGED <<grantvars, screen, slot, admitted, tok, left, canceled, held, locking, overrun, blind>>

(* Faulty variant: the descriptor is opened but never locked.              *)
TakeSlotUnlocked(c) ==
    /\ pc[c] = "waiting"
    /\ ~canceled[c]
    /\ slot' = c
    /\ Goto(c, "verify")
    /\ UNCHANGED <<grantvars, screen, admitted, tok, left, outcome, canceled, held, locking, overrun, blind>>

(* ExecutionLock.hold: one attempt of the non-blocking flock.  The second  *)
(* check_canceled of hold() raises before the sequence context exists.     *)
TakeSlot(c) ==
    /\ pc[c] = "waiting"
    /\ slot = NoCall
    /\ ~canceled[c]
    /\ slot' = c
    /\ Goto(c, "verify")
    /\ UNCHANGED <<grantvars, screen, admitted, tok, left, outcome, canceled, held, locking, overrun, blind>>

(* EXECUTION_WAIT_SECONDS are over and the lock is still taken.            *)
Busy(c) ==
    /\ pc[c] = "waiting"
    /\ slot # NoCall
    /\ End(c, "busy")
    /\ UNCHANGED <<grantvars, screen, slot, admitted, tok, left, canceled, held, locking, overrun, blind>>

(* check_canceled while waiting: the call never was in the slot.           *)
WaitCanceled(c) ==
    /\ pc[c] = "waiting"
    /\ canceled[c]
    /\ End(c, "canceled")
    /\ UNCHANGED <<grantvars, screen, slot, admitted, tok, left, canceled, held, locking, overrun, blind>>

(* An exception leaves the sequence: _sequence_context comes next.         *)
Raise(c, how) == /\ Goto(c, "unwind")
                 /\ outcome' = [outcome EXCEPT ![c] = how]

(* Faulty variant: the screen is looked at once, at admission.             *)
VerifyScreenOnce(c) ==
    /\ pc[c] = "verify"
    /\ IF canceled[c] THEN Raise(c, "canceled")
       ELSE IF screen # "unlocked" /\ ~admitted[c] THEN Raise(c, "refused")
       ELSE Goto(c, "touch") /\ UNCHANGED outcome
    /\ UNCHANGED <<grantvars, screen, slot, admitted, tok, left, canceled, held, locking, overrun, blind>>

(* Faulty variant: a sequence waits for the user to unlock the screen.     *)
VerifyScreenWaits(c) ==
    /\ pc[c] = "verify"
    /\ screen = "unlocked"
    /\ Goto(c, "touch")
    /\ UNCHANGED <<grantvars, screen, slot, admitted, tok, left, outcome, canceled, held, locking, overrun, blind>>

(* SafetyGate.verify, first half: the screen.                              *)
VerifyScreen(c) ==
    /\ pc[c] = "verify"
    /\ IF canceled[c] THEN Raise(c, "canceled")
       ELSE IF screen # "unlocked" THEN Raise(c, "refused")
       ELSE Goto(c, "touch") /\ UNCHANGED outcome
    /\ UNCHANGED <<grantvars, screen, slot, admitted, tok, left, canceled, held, locking, overrun, blind>>

(* Faulty variant: the grant is looked at once, at admission.              *)
VerifyGrantOnce(c) ==
    /\ pc[c] = "touch"
    /\ IF ~Current(tok[c]) /\ ~admitted[c] THEN Raise(c, "refused") /\ UNCHANGED admitted
       ELSE /\ Goto(c, IF admitted[c] THEN "pace" ELSE "between")
            /\ admitted' = [admitted EXCEPT ![c] = TRUE]
            /\ UNCHANGED outcome
    /\ UNCHANGED <<grantvars, screen, slot, tok, left, canceled, held, locking, overrun, blind>>

(* SafetyGate.verify, second half: the captured grant.  The first success  *)
(* is admit(), the later ones are the guard of one action.                 *)
VerifyGrant(c) ==
    /\ pc[c] = "touch"
    /\ IF ~Current(tok[c]) THEN Raise(c, "refused") /\ UNCHANGED admitted
       ELSE /\ Goto(c, IF admitted[c] THEN "pace" ELSE "between")
            /\ admitted' = [admitted EXCEPT ![c] = TRUE]
            /\ UNCHANGED outcome
    /\ UNCHANGED <<grantvars, screen, slot, tok, left, canceled, held, locking, overrun, blind>>

(* SequenceGuard.__call__ at the next action of the list.                  *)
NextAction(c) ==
    /\ pc[c] = "between"
    /\ left[c] > 0
    /\ IF canceled[c] THEN Raise(c, "canceled") ELSE Goto(c, "verify") /\ UNCHANGED outcome
    /\ UNCHANGED <<grantvars, screen, slot, admitted, tok, left, canceled, held, locking, overrun, blind>>

(* A "wait" in the list sends nothing and is not verified; batch.run may   *)
(* also stop at its budget, the focus or a repeated click.                 *)
WaitAction(c) ==
    /\ pc[c] = "between"
    /\ left[c] > 0 /\ c \in Batches
    /\ ~canceled[c]
    /\ left' = [left EXCEPT ![c] = @ - 1]
    /\ UNCHANGED <<grantvars, screen, slot, pc, admitted, tok, outcome, canceled, held, locking, overrun, blind>>

BatchStops(c) ==
    /\ pc[c] = "between"
    /\ left[c] > 0 /\ c \in Batches
    /\ Raise(c, "stopped")
    /\ UNCHANGED <<grantvars, screen, slot, admitted, tok, left, canceled, held, locking, overrun, blind>>

(* A plan over the budget is refused up front and touches nothing, not     *)
(* even what an earlier call holds.                                        *)
PlanRefused(c) ==
    /\ pc[c] = "between"
    /\ c \in Batches /\ left[c] = MaxActions
    /\ Goto(c, "exit")
    /\ outcome' = [outcome EXCEPT ![c] = "stopped"]
    /\ UNCHANGED <<grantvars, screen, slot, admitted, tok, left, canceled, held, locking, overrun, blind>>

(* ExecutionSlot.pace may sleep up to a second after the grant was         *)
(* verified; only a cancellation is looked for before the action goes out. *)
Pace(c) ==
    /\ pc[c] = "pace"
    /\ IF canceled[c] THEN Raise(c, "canceled") ELSE Goto(c, "send") /\ UNCHANGED outcome
    /\ UNCHANGED <<grantvars, screen, slot, admitted, tok, left, canceled, held, locking, overrun, blind>>

(* The input backend sends one action: it leaves the held keys alone,      *)
(* presses one, or releases one.                                           *)
Send(c) ==
    LET h == HostOf[c] IN
    /\ pc[c] = "send"
    /\ held' \in {held, [held EXCEPT ![h] = @ \cup {c}]}
                 \cup {[held EXCEPT ![h] = @ \ {d}] : d \in held[h]}
    /\ left' = [left EXCEPT ![c] = @ - 1]
    /\ overrun' = IF Current(tok[c]) THEN overrun
                  ELSE [overrun EXCEPT ![tok[c].id] = @ + 1]
    /\ blind' = IF screen = "unlocked" THEN blind ELSE blind + 1
    /\ Goto(c, "between")
    /\ UNCHANGED <<grantvars, screen, slot, admitted, tok, outcome, canceled, locking>>

(* The provider fails: batch.run stops and releases what is held, a        *)
(* single-action tool reports the error and leaves the slot normally.      *)
SendFails(c) ==
    /\ pc[c] = "send"
    /\ IF c \in Batches THEN Raise(c, "stopped")
       ELSE /\ Goto(c, "exit")
            /\ outcome' = [outcome EXCEPT ![c] = "failed"]
    /\ UNCHANGED <<grantvars, screen, slot, admitted, tok, left, canceled, held, locking, overrun, blind>>

(* _sequence_context: finish() at the end of the body ...                  *)
Finish(c) ==
    /\ pc[c] = "between"
    /\ left[c] = 0
    /\ IF canceled[c] THEN Raise(c, "canceled")
       ELSE /\ Goto(c, "exit")
            /\ outcome' = [outcome EXCEPT ![c] = "ok"]
    /\ UNCHANGED <<grantvars, screen, slot, admitted, tok, left, canceled, held, locking, overrun, blind>>

(* Faulty variant: the exception leaves without the release.               *)
UnwindKeeping(c) ==
    /\ pc[c] = "unwind"
    /\ Goto(c, "exit")
    /\ UNCHANGED <<grantvars, screen, slot, admitted, tok, left, outcome, canceled, held, locking, overrun, blind>>

(* ... and release_all() when an exception passes through.                 *)
Unwind(c) ==
    /\ pc[c] = "unwind"
    /\ held' = [held EXCEPT ![HostOf[c]] = {}]
    /\ Goto(c, "exit")
    /\ UNCHANGED <<grantvars, screen, slot, admitted, tok, left, outcome, canceled, locking, overrun, blind>>

(* hold() closes the descriptor of the lock file.                          *)
Exit(c) ==
    /\ pc[c] = "exit"
    /\ slot' = NoCall
    /\ Goto(c, "done")
    /\ UNCHANGED <<grantvars, screen, admitted, tok, left, outcome, canceled, held, locking, overrun, blind>>
-----------------------------------------------------------------------------
(* A notifications/cancelled of the client reaches the worker thread.      *)
Cancel(c) ==
    /\ pc[c] # "done" /\ ~canceled[c]
    /\ canceled' = [canceled EXCEPT ![c] = TRUE]
    /\ UNCHANGED <<grantvars, screen, slot, pc, admitted, tok, left, outcome, held, locking, overrun, blind>>

(* SafetyGate.unlock; the tool looks at the screen first.                  *)
Unlock ==
    /\ issued < MaxGrants
    /\ screen = "unlocked"
    /\ issued' = issued + 1
    /\ grant' = [id |-> issued + 1, epoch |-> grant.epoch, open |-> TRUE]
    /\ UNCHANGED <<screen, slot, callvars, held, locking, overrun, blind>>

(* The deadline of the grant passes.                                       *)
Expire ==
    /\ grant.open
    /\ grant' = [id |-> grant.id, epoch |-> grant.epoch, open |-> FALSE]
    /\ UNCHANGED <<issued, screen, slot, callvars, held, locking, overrun, blind>>

(* desktop_lock in process h: the revoke comes first ...                   *)
LockRevoke(h) ==
    /\ ~locking[h]
    /\ grant.epoch < MaxEpoch
    /\ grant' = [id |-> grant.id, epoch |-> grant.epoch + 1, open |-> FALSE]
    /\ locking' = [locking EXCEPT ![h] = TRUE]
    /\ UNCHANGED <<issued, screen, slot, callvars, held, overrun, blind>>

(* ... then release_all and release_resources, without the execution lock. *)
LockCleanup(h) ==
    /\ locking[h]
    /\ held' = [held EXCEPT ![h] = {}]
    /\ locking' = [locking EXCEPT ![h] = FALSE]
    /\ UNCHANGED <<grantvars, screen, slot, callvars, overrun, blind>>

(* InputBackend._auto_release after hold_max_seconds.                      *)
HoldTimer(h) ==
    /\ held[h] # {}
    /\ held' = [held EXCEPT ![h] = {}]
    /\ UNCHANGED <<grantvars, screen, slot, callvars, locking, overrun, blind>>

(* The session's screen lock; "unknown" when it cannot be read.            *)
ScreenChanges ==
    /\ screen' \in {"unlocked", "locked", "unknown"} \ {screen}
    /\ blind' = IF screen = "unlocked" THEN 0 ELSE blind
    /\ UNCHANGED <<grantvars, slot, callvars, held, locking, overrun>>

(* Process h dies: the kernel closes its descriptors, so the flock is free *)
(* and its virtual devices are gone.                                       *)
Crash(h) ==
    LET lost == {c \in Calls : HostOf[c] = h /\ pc[c] # "done"} IN
    /\ lost # {}
    /\ pc' = [c \in Calls |-> IF c \in lost THEN "done" ELSE pc[c]]
    /\ outcome' = [c \in Calls |-> IF c \in lost THEN "crashed" ELSE outcome[c]]
    /\ slot' = IF slot \in lost THEN NoCall ELSE slot
    /\ held' = [held EXCEPT ![h] = {}]
    /\ locking' = [locking EXCEPT ![h] = FALSE]
    /\ UNCHANGED <<grantvars, screen, admitted, tok, left, canceled, overrun, blind>>
-----------------------------------------------------------------------------
(* What a call that was begun does by itself.                              *)
Work(c) == \/ CheckRefuses(c) \/ CheckAdmits(c)
           \/ TakeSlot(c) \/ Busy(c) \/ WaitCanceled(c)
           \/ VerifyScreen(c) \/ VerifyGrant(c) \/ NextAction(c) \/ WaitAction(c)
           \/ BatchStops(c) \/ PlanRefused(c) \/ Pace(c) \/ Send(c) \/ SendFails(c)
           \/ Finish(c) \/ Unwind(c) \/ Exit(c)

Next == \/ \E c \in Calls : Check(c) \/ Work(c) \/ Cancel(c)
        \/ \E h \in Hosts : LockRevoke(h) \/ LockCleanup(h) \/ HoldTimer(h) \/ Crash(h)
        \/ Unlock \/ Expire \/ ScreenChanges

Spec == Init /\ [][Next]_vars

(* Worker threads are scheduled, and the wait for the lock has a deadline. *)
FairSpec == Spec /\ \A c \in Calls : WF_vars(Work(c))
-----------------------------------------------------------------------------
Outcomes == {"none", "ok", "refused", "busy", "canceled", "stopped", "failed", "crashed"}

(* Types, and the flock is held by the one call that is inside the slot.   *)
TypeOK ==
    /\ grant \in [id : Nat, epoch : Nat, open : BOOLEAN] /\ issued \in Nat
    /\ screen \in {"unlocked", "locked", "unknown"}
    /\ slot \in Calls \cup {NoCall}
    /\ pc \in [Calls -> {"idle", "checked", "waiting", "done"} \cup InSlot]
    /\ admitted \in [Calls -> BOOLEAN] /\ canceled \in [Calls -> BOOLEAN]
    /\ tok \in [Calls -> [id : Nat, epoch : Nat \cup {-1}]]
    /\ left \in [Calls -> Nat]
    /\ outcome \in [Calls -> Outcomes]
    /\ held \in [Hosts -> SUBSET Calls] /\ locking \in [Hosts -> BOOLEAN]
    /\ overrun \in [1..MaxGrants -> Nat] /\ blind \in Nat

(* "Only one runs at a time so that the input of two sequences never       *)
(* mixes", also across processes and after a crash of the owner.           *)
OneSequenceAtATime ==
    \A c \in Calls : pc[c] \in InSlot <=> slot = c

(* "A desktop_lock from anywhere stops the next action": once a grant is   *)
(* revoked, replaced or expired, at most one action, already verified at   *)
(* that moment, still goes out under it on the whole machine.              *)
AtMostOneLateAction == \A i \in 1..MaxGrants : overrun[i] <= 1

(* "Nothing is sent behind a locked screen": at most the one action that   *)
(* was already verified when the screen locked, and none of a later call.  *)
AtMostOneBlindAction == blind <= 1

(* "Escaping failures and canceled final actions release held input before *)
(* the execution lock is relinquished": only a sequence that ran to its    *)
(* end leaves a key down for the next call.                                *)
OnlyFinishedSequencesHold ==
    \A h \in Hosts : \A c \in held[h] :
        pc[c] \in InSlot \ {"exit"} \/ outcome[c] = "ok"

(* A call that was begun ends: it gets the slot or BUSY, and every path    *)
(* through the slot leads out of it, whatever others do.                   *)
EveryCallEnds == \A c \in Calls : pc[c] # "idle" ~> pc[c] = "done"
=============================================================================
