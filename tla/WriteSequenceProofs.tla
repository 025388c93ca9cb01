------------------------ MODULE WriteSequenceProofs ------------------------
(***************************************************************************)
(* Proofs about WriteSequence, for any calls, processes and bounds.        *)
(*                                                                         *)
(* Late actions are bounded because three facts hold together: the flock   *)
(* admits one sequence (OneSequenceAtATime), a grant identity is used once *)
(* (GrantsOK), and an identity under which a late action went out has      *)
(* ended and has no verified call left (SpentOK).  BlindOK is the same     *)
(* argument for the screen lock.                                           *)
(***************************************************************************)
EXTENDS WriteSequence, TLAPS

Verified == {"pace", "send"}

GrantsOK ==
    /\ issued <= MaxGrants
    /\ grant.id <= issued
    /\ grant.open => grant.id >= 1
    /\ \A c \in Calls :
         /\ tok[c].id <= issued
         /\ grant.open /\ tok[c].id = grant.id => tok[c].epoch = grant.epoch
         /\ pc[c] \in Verified => tok[c].id >= 1

SpentOK ==
    \A i \in 1..MaxGrants : overrun[i] > 0 =>
        /\ overrun[i] = 1
        /\ i <= issued
        /\ ~(grant.open /\ grant.id = i)
        /\ \A c \in Calls : tok[c].id = i => pc[c] \notin Verified

BlindOK ==
    /\ blind <= 1
    /\ screen # "unlocked" /\ blind = 1
         => \A c \in Calls : pc[c] \notin Verified \cup {"touch"}

(* A call that may send has an action left to send.                        *)
LeftOK ==
    \A c \in Calls :
        /\ pc[c] \in {"idle", "checked", "waiting"} => ~admitted[c]
        /\ pc[c] \in Verified \/ (admitted[c] /\ pc[c] \in {"verify", "touch"}) => left[c] > 0

SeqInv == TypeOK /\ OneSequenceAtATime /\ GrantsOK /\ SpentOK /\ BlindOK /\ LeftOK

(* The initial states satisfy the inductive invariant.                     *)
LEMMA InitInv == Init => SeqInv
  <1> SUFFICES ASSUME Init PROVE SeqInv
    OBVIOUS
  <1> USE SequenceAssumption DEF Init
  <1>1. TypeOK
    BY DEF TypeOK, NoToken, Outcomes
  <1>2. OneSequenceAtATime
    BY DEF OneSequenceAtATime, InSlot
  <1>3. GrantsOK /\ SpentOK /\ BlindOK /\ LeftOK
    BY DEF GrantsOK, SpentOK, BlindOK, LeftOK, NoToken, Verified
  <1> QED
    BY <1>1, <1>2, <1>3 DEF SeqInv

(* Every step keeps the types.                                             *)
LEMMA NextType == TypeOK /\ GrantsOK /\ LeftOK /\ [Next]_vars => TypeOK'
  <1> SUFFICES ASSUME TypeOK, GrantsOK, LeftOK, [Next]_vars PROVE TypeOK'
    OBVIOUS
  <1> USE SequenceAssumption DEF TypeOK, Goto, End, Raise, InSlot, Outcomes, grantvars, callvars
  <1>1. ASSUME NEW c \in Calls, Check(c) \/ CheckRefuses(c) \/ CheckAdmits(c) PROVE TypeOK'
    <2>1. TokenOf(grant) \in [id : Nat, epoch : Nat \cup {-1}]
          /\ NoToken \in [id : Nat, epoch : Nat \cup {-1}]
      BY DEF TokenOf, NoToken
    <2>2. CASE Check(c)
      <3>1. CASE screen = "unlocked" /\ grant.open
        <4>1. /\ tok' = [tok EXCEPT ![c] = TokenOf(grant)]
              /\ pc' = [pc EXCEPT ![c] = "checked"]
              /\ outcome' = outcome
          BY <2>2, <3>1, Zenon DEF Check
        <4>2. tok' \in [Calls -> [id : Nat, epoch : Nat \cup {-1}]]
          BY <2>1, <4>1
        <4> QED
          BY <2>2, <4>1, <4>2 DEF Check
      <3>2. CASE ~(screen = "unlocked" /\ grant.open)
        BY <2>2, <3>2 DEF Check
      <3> QED
        BY <3>1, <3>2
    <2>3. CASE CheckRefuses(c)
      BY <2>1, <2>3 DEF CheckRefuses
    <2>4. CASE CheckAdmits(c)
      BY <2>4 DEF CheckAdmits
    <2> QED
      BY <1>1, <2>2, <2>3, <2>4
  <1>2. ASSUME NEW c \in Calls, TakeSlot(c) \/ Busy(c) \/ WaitCanceled(c) PROVE TypeOK'
    <2>1. CASE TakeSlot(c)
      BY <2>1 DEF TakeSlot
    <2>2. CASE Busy(c)
      BY <2>2 DEF Busy
    <2>3. CASE WaitCanceled(c)
      BY <2>3 DEF WaitCanceled
    <2> QED
      BY <1>2, <2>1, <2>2, <2>3
  <1>3. ASSUME NEW c \in Calls, VerifyScreen(c) \/ VerifyGrant(c) \/ NextAction(c) PROVE TypeOK'
    <2>1. CASE VerifyScreen(c)
      BY <2>1 DEF VerifyScreen
    <2>2. CASE VerifyGrant(c)
      BY <2>2 DEF VerifyGrant
    <2>3. CASE NextAction(c)
      BY <2>3 DEF NextAction
    <2> QED
      BY <1>3, <2>1, <2>2, <2>3
  <1>4. ASSUME NEW c \in Calls,
               WaitAction(c) \/ BatchStops(c) \/ PlanRefused(c) \/ Pace(c) PROVE TypeOK'
    <2>1. CASE WaitAction(c)
      BY <2>1 DEF WaitAction
    <2>2. CASE BatchStops(c)
      BY <2>2 DEF BatchStops
    <2>3. CASE PlanRefused(c)
      BY <2>3 DEF PlanRefused
    <2>4. CASE Pace(c)
      BY <2>4 DEF Pace
    <2> QED
      BY <1>4, <2>1, <2>2, <2>3, <2>4
  <1>5. ASSUME NEW c \in Calls, Send(c) PROVE TypeOK'
    <2>1. left[c] > 0 /\ pc[c] = "send" /\ tok[c].id \in 1..MaxGrants
      BY <1>5 DEF Send, LeftOK, GrantsOK, Verified
    <2>2. left' \in [Calls -> Nat]
      BY <1>5, <2>1 DEF Send
    <2>3. overrun' \in [1..MaxGrants -> Nat] /\ blind' \in Nat
      BY <1>5, <2>1 DEF Send
    <2>4. held' \in [Hosts -> SUBSET Calls]
      <3>1. CASE held' = held
        BY <3>1
      <3>2. CASE held' = [held EXCEPT ![HostOf[c]] = @ \cup {c}]
        BY <3>2
      <3>3. ASSUME NEW d \in held[HostOf[c]], held' = [held EXCEPT ![HostOf[c]] = @ \ {d}]
            PROVE  held' \in [Hosts -> SUBSET Calls]
        BY <3>3
      <3> QED
        BY <1>5, <3>1, <3>2, <3>3 DEF Send
    <2> QED
      BY <1>5, <2>2, <2>3, <2>4 DEF Send
  <1>6. ASSUME NEW c \in Calls, SendFails(c) \/ Finish(c) \/ Unwind(c) \/ Exit(c) PROVE TypeOK'
    <2>1. CASE SendFails(c)
      BY <2>1 DEF SendFails
    <2>2. CASE Finish(c)
      BY <2>2 DEF Finish
    <2>3. CASE Unwind(c)
      BY <2>3 DEF Unwind
    <2>4. CASE Exit(c)
      BY <2>4 DEF Exit
    <2> QED
      BY <1>6, <2>1, <2>2, <2>3, <2>4
  <1>7. ASSUME NEW c \in Calls, Cancel(c) PROVE TypeOK'
    BY <1>7 DEF Cancel
  <1>8. ASSUME NEW h \in Hosts, LockRevoke(h) \/ LockCleanup(h) \/ HoldTimer(h) PROVE TypeOK'
    <2>1. CASE LockRevoke(h)
      BY <2>1 DEF LockRevoke
    <2>2. CASE LockCleanup(h)
      BY <2>2 DEF LockCleanup
    <2>3. CASE HoldTimer(h)
      BY <2>3 DEF HoldTimer
    <2> QED
      BY <1>8, <2>1, <2>2, <2>3
  <1>9. ASSUME NEW h \in Hosts, Crash(h) PROVE TypeOK'
    BY <1>9 DEF Crash
  <1>10. CASE Unlock \/ Expire \/ ScreenChanges
    <2>1. CASE Unlock
      BY <2>1 DEF Unlock
    <2>2. CASE Expire
      BY <2>2 DEF Expire
    <2>3. CASE ScreenChanges
      BY <2>3 DEF ScreenChanges
    <2> QED
      BY <1>10, <2>1, <2>2, <2>3
  <1>11. CASE UNCHANGED vars
    BY <1>11 DEF vars
  <1> QED
    BY <1>1, <1>2, <1>3, <1>4, <1>5, <1>6, <1>7, <1>8, <1>9, <1>10, <1>11 DEF Next, Work


(* Every step keeps the slot, the grants and the spent identities in order. *)
LEMMA NextSafe ==
  SeqInv /\ [Next]_vars
    => OneSequenceAtATime' /\ GrantsOK' /\ SpentOK' /\ BlindOK' /\ LeftOK'
  <1> DEFINE Safe == OneSequenceAtATime /\ GrantsOK /\ SpentOK /\ BlindOK /\ LeftOK
  <1> SUFFICES ASSUME SeqInv, [Next]_vars PROVE Safe'
    OBVIOUS
  <1>t. TypeOK /\ OneSequenceAtATime /\ GrantsOK /\ SpentOK /\ BlindOK /\ LeftOK
    BY DEF SeqInv
  <1> USE SequenceAssumption
  <1> USE DEF OneSequenceAtATime, GrantsOK, SpentOK, BlindOK, LeftOK, Verified, InSlot,
              TypeOK, Goto, End, Raise, grantvars, callvars
  <1>1. ASSUME NEW c \in Calls, CheckRefuses(c) PROVE Safe'
    BY <1>t, <1>1 DEF CheckRefuses, NoToken
  <1>2. ASSUME NEW c \in Calls, CheckAdmits(c) PROVE Safe'
    <2>1. pc' \in {[pc EXCEPT ![c] = "waiting"], [pc EXCEPT ![c] = "done"]}
          /\ pc[c] = "checked"
      BY <1>2 DEF CheckAdmits
    <2>2. UNCHANGED <<grant, issued, screen, slot, admitted, tok, left, overrun, blind>>
      BY <1>2 DEF CheckAdmits
    <2>3. OneSequenceAtATime' /\ LeftOK'
      BY <1>t, <2>1, <2>2
    <2>4. GrantsOK' /\ SpentOK'
      BY <1>t, <2>1, <2>2
    <2>5. BlindOK'
      BY <1>t, <2>1, <2>2
    <2> QED
      BY <2>3, <2>4, <2>5
  <1>3. ASSUME NEW c \in Calls, TakeSlot(c) PROVE Safe'
    BY <1>t, <1>3 DEF TakeSlot
  <1>4. ASSUME NEW c \in Calls, Busy(c) PROVE Safe'
    BY <1>t, <1>4 DEF Busy
  <1>5. ASSUME NEW c \in Calls, WaitCanceled(c) PROVE Safe'
    BY <1>t, <1>5 DEF WaitCanceled
  <1>6. ASSUME NEW c \in Calls, VerifyScreen(c) PROVE Safe'
    <2>1. /\ pc[c] = "verify"
          /\ \/ pc' = [pc EXCEPT ![c] = "unwind"]
             \/ pc' = [pc EXCEPT ![c] = "touch"] /\ screen = "unlocked"
      BY <1>6 DEF VerifyScreen
    <2>2. UNCHANGED <<grant, issued, screen, slot, admitted, tok, left, overrun, blind>>
      BY <1>6 DEF VerifyScreen
    <2>3. OneSequenceAtATime' /\ LeftOK'
      BY <1>t, <2>1, <2>2
    <2>4. GrantsOK' /\ SpentOK'
      BY <1>t, <2>1, <2>2
    <2>5. BlindOK'
      BY <1>t, <2>1, <2>2
    <2> QED
      BY <2>3, <2>4, <2>5
  <1>7. ASSUME NEW c \in Calls, VerifyGrant(c) PROVE Safe'
    <2>1. /\ pc[c] = "touch"
          /\ UNCHANGED <<grant, issued, screen, slot, tok, left, overrun, blind>>
      BY <1>7 DEF VerifyGrant
    <2>2. CASE ~Current(tok[c])
      <3>1. pc' = [pc EXCEPT ![c] = "unwind"] /\ admitted' = admitted
        BY <1>7, <2>2, Zenon DEF VerifyGrant
      <3> QED
        BY <1>t, <2>1, <3>1
    <2>3. CASE Current(tok[c])
      <3>1. /\ pc' = [pc EXCEPT ![c] = IF admitted[c] THEN "pace" ELSE "between"]
            /\ admitted' = [admitted EXCEPT ![c] = TRUE]
        BY <1>7, <2>3, Zenon DEF VerifyGrant
      <3>2. grant.open /\ tok[c].id = grant.id
        <4>1. grant.open /\ TokenOf(grant) = tok[c]
          BY <2>3, Zenon DEF Current
        <4>2. TokenOf(grant).id = grant.id
          BY DEF TokenOf
        <4> QED
          BY <4>1, <4>2, Zenon
      <3>3. OneSequenceAtATime'
        BY <1>t, <2>1, <3>1
      <3>4. GrantsOK'
        BY <1>t, <2>1, <3>1, <3>2
      <3>5. SpentOK'
        BY <1>t, <2>1, <3>1, <3>2
      <3>6. BlindOK' /\ LeftOK'
        BY <1>t, <2>1, <3>1
      <3> QED
        BY <3>3, <3>4, <3>5, <3>6
    <2> QED
      BY <2>2, <2>3
  <1>8. ASSUME NEW c \in Calls, NextAction(c) PROVE Safe'
    <2>1. /\ pc[c] = "between" /\ left[c] > 0
          /\ pc' \in {[pc EXCEPT ![c] = "unwind"], [pc EXCEPT ![c] = "verify"]}
      BY <1>8 DEF NextAction
    <2>2. UNCHANGED <<grant, issued, screen, slot, admitted, tok, left, overrun, blind>>
      BY <1>8 DEF NextAction
    <2> QED
      BY <1>t, <2>1, <2>2
  <1>9. ASSUME NEW c \in Calls, WaitAction(c) PROVE Safe'
    BY <1>t, <1>9 DEF WaitAction
  <1>10. ASSUME NEW c \in Calls, BatchStops(c) PROVE Safe'
    BY <1>t, <1>10 DEF BatchStops
  <1>11. ASSUME NEW c \in Calls, PlanRefused(c) PROVE Safe'
    BY <1>t, <1>11 DEF PlanRefused
  <1>12. ASSUME NEW c \in Calls, Pace(c) PROVE Safe'
    BY <1>t, <1>12 DEF Pace
  <1>13. ASSUME NEW c \in Calls, SendFails(c) PROVE Safe'
    BY <1>t, <1>13 DEF SendFails
  <1>14. ASSUME NEW c \in Calls, Finish(c) PROVE Safe'
    BY <1>t, <1>14 DEF Finish
  <1>15. ASSUME NEW c \in Calls, Unwind(c) PROVE Safe'
    BY <1>t, <1>15 DEF Unwind
  <1>16. ASSUME NEW c \in Calls, Exit(c) PROVE Safe'
    BY <1>t, <1>16 DEF Exit
  <1>17. ASSUME NEW c \in Calls, Cancel(c) PROVE Safe'
    BY <1>t, <1>17 DEF Cancel
  <1>18. ASSUME NEW c \in Calls, Check(c) PROVE Safe'
    <2>1. /\ pc[c] = "idle"
          /\ UNCHANGED <<grant, issued, screen, slot, admitted, left, overrun, blind>>
      BY <1>18 DEF Check
    <2>2. CASE ~(screen = "unlocked" /\ grant.open)
      <3>1. pc' = [pc EXCEPT ![c] = "done"] /\ tok' = tok
        BY <1>18, <2>2, Zenon DEF Check
      <3> QED
        BY <1>t, <2>1, <3>1
    <2>3. CASE screen = "unlocked" /\ grant.open
      <3>1. pc' = [pc EXCEPT ![c] = "checked"] /\ tok' = [tok EXCEPT ![c] = TokenOf(grant)]
        BY <1>18, <2>3, Zenon DEF Check
      <3>2. TokenOf(grant).id = grant.id /\ TokenOf(grant).epoch = grant.epoch
        BY DEF TokenOf
      <3>3. OneSequenceAtATime' /\ BlindOK' /\ LeftOK'
        BY <1>t, <2>1, <3>1
      <3>4. GrantsOK'
        BY <1>t, <2>1, <3>1, <3>2
      <3>5. SpentOK'
        BY <1>t, <2>1, <3>1, <3>2
      <3> QED
        BY <3>3, <3>4, <3>5
    <2> QED
      BY <2>2, <2>3
  <1>19. ASSUME NEW c \in Calls, Send(c) PROVE Safe'
    <2>1. /\ pc[c] = "send" /\ pc' = [pc EXCEPT ![c] = "between"]
          /\ left' = [left EXCEPT ![c] = @ - 1]
          /\ UNCHANGED <<grant, issued, screen, slot, admitted, tok>>
      BY <1>19 DEF Send
    <2>2. slot = c /\ tok[c].id \in 1..MaxGrants
      BY <1>t, <2>1
    <2>3. \A d \in Calls : pc'[d] \in Verified \cup {"touch"} => FALSE
      BY <1>t, <2>1, <2>2
    <2>4. OneSequenceAtATime' /\ GrantsOK'
      BY <1>t, <2>1
    <2>5. LeftOK'
      BY <1>t, <2>1
    <2>6. SpentOK'
      <3>1. CASE Current(tok[c])
        <4>1. overrun' = overrun
          BY <1>19, <3>1, Zenon DEF Send
        <4> QED
          BY <1>t, <2>1, <2>3, <4>1
      <3>2. CASE ~Current(tok[c])
        <4>1. overrun' = [overrun EXCEPT ![tok[c].id] = @ + 1]
          BY <1>19, <3>2, Zenon DEF Send
        <4>2. ~(grant.open /\ grant.id = tok[c].id)
          BY <1>t, <3>2 DEF Current, TokenOf
        <4>3. overrun[tok[c].id] = 0
          <5>1. overrun[tok[c].id] \in Nat
            BY <1>t, <2>2
          <5>2. ~(overrun[tok[c].id] > 0)
            BY <1>t, <2>1, <2>2
          <5> QED
            BY <5>1, <5>2
        <4> QED
          BY <1>t, <2>1, <2>2, <2>3, <4>1, <4>2, <4>3
      <3> QED
        BY <3>1, <3>2
    <2>7. BlindOK'
      BY <1>19, <1>t, <2>1, <2>3 DEF Send
    <2> QED
      BY <2>4, <2>5, <2>6, <2>7
  <1>20. ASSUME NEW h \in Hosts, LockRevoke(h) PROVE Safe'
    BY <1>t, <1>20 DEF LockRevoke
  <1>21. ASSUME NEW h \in Hosts, LockCleanup(h) PROVE Safe'
    BY <1>t, <1>21 DEF LockCleanup
  <1>22. ASSUME NEW h \in Hosts, HoldTimer(h) PROVE Safe'
    BY <1>t, <1>22 DEF HoldTimer
  <1>23. ASSUME NEW h \in Hosts, Crash(h) PROVE Safe'
    BY <1>t, <1>23 DEF Crash
  <1>24. CASE Unlock
    BY <1>t, <1>24 DEF Unlock
  <1>25. CASE Expire
    BY <1>t, <1>25 DEF Expire
  <1>26. CASE ScreenChanges
    BY <1>t, <1>26 DEF ScreenChanges
  <1>27. CASE UNCHANGED vars
    BY <1>t, <1>27 DEF vars
  <1> QED
    BY <1>1, <1>2, <1>3, <1>4, <1>5, <1>6, <1>7, <1>8, <1>9, <1>10, <1>11, <1>12, <1>13, <1>14, <1>15, <1>16,
       <1>17, <1>18, <1>19, <1>20, <1>21, <1>22, <1>23, <1>24, <1>25, <1>26, <1>27 DEF Next, Work

(* The inductive invariant holds in every reachable state.                 *)
THEOREM SequenceInvariant == Spec => []SeqInv
  <1>1. SeqInv /\ [Next]_vars => SeqInv'
    BY NextType, NextSafe DEF SeqInv
  <1> QED
    BY <1>1, InitInv, PTL DEF Spec

(* Every variable of a write sequence keeps its type.                      *)
THEOREM TypeCorrect == Spec => []TypeOK
  <1>1. SeqInv => TypeOK
    BY DEF SeqInv
  <1> QED
    BY <1>1, SequenceInvariant, PTL

(* Two write sequences of the machine never overlap.                       *)
THEOREM SequencesExclude == Spec => []OneSequenceAtATime
  <1>1. SeqInv => OneSequenceAtATime
    BY DEF SeqInv
  <1> QED
    BY <1>1, SequenceInvariant, PTL

(* A revoke, a replacement or the expiry of a grant lets at most the one   *)
(* action through that SequenceGuard had already verified.                 *)
THEOREM LateActionsBounded == Spec => []AtMostOneLateAction
  <1>1. SeqInv => AtMostOneLateAction
    <2> SUFFICES ASSUME SeqInv, NEW i \in 1..MaxGrants PROVE overrun[i] <= 1
      BY DEF AtMostOneLateAction
    <2>1. overrun[i] \in Nat
      BY DEF SeqInv, TypeOK
    <2> QED
      BY <2>1 DEF SeqInv, SpentOK
  <1> QED
    BY <1>1, SequenceInvariant, PTL

(* At most one action, verified before the screen locked, goes out behind  *)
(* the lock screen.                                                        *)
THEOREM BlindActionsBounded == Spec => []AtMostOneBlindAction
  <1>1. SeqInv => AtMostOneBlindAction
    BY DEF SeqInv, BlindOK, AtMostOneBlindAction
  <1> QED
    BY <1>1, SequenceInvariant, PTL
-----------------------------------------------------------------------------
(* What is held down.  A held key belongs to the process of the call that  *)
(* pressed it, that call has sent an action, and only a sequence that ran  *)
(* to its end is "ok"; so a list refused up front, or a single action that *)
(* failed, has nothing down when it leaves the slot without a release.     *)
Actions(c) == IF c \in Batches THEN MaxActions ELSE 1

HeldOK ==
    /\ \A h \in Hosts : \A c \in held[h] : HostOf[c] = h /\ left[c] < Actions(c)
    /\ \A c \in Calls : outcome[c] = "ok" => pc[c] \in {"exit", "done"}
    /\ \A c \in Calls : left[c] <= Actions(c)
    /\ OnlyFinishedSequencesHold

(* The held keys stay accounted for in every step.                         *)
LEMMA NextHeld == SeqInv /\ HeldOK /\ [Next]_vars => HeldOK'
  <1> SUFFICES ASSUME SeqInv, HeldOK, [Next]_vars PROVE HeldOK'
    OBVIOUS
  <1> USE SequenceAssumption DEF HeldOK, OnlyFinishedSequencesHold, InSlot, Actions, Goto, End, Raise,
                                 grantvars, callvars
  <1>t. TypeOK /\ LeftOK
    BY DEF SeqInv
  <1> USE <1>t DEF TypeOK, LeftOK
  <1>1. ASSUME NEW c \in Calls, Check(c) PROVE HeldOK'
    <2>1. pc[c] = "idle" /\ UNCHANGED <<held, left>>
      BY <1>1 DEF Check
    <2>2. \/ pc' = [pc EXCEPT ![c] = "checked"] /\ outcome' = outcome
          \/ pc' = [pc EXCEPT ![c] = "done"] /\ outcome' = [outcome EXCEPT ![c] = "refused"]
      BY <1>1, Zenon DEF Check
    <2>3. CASE pc' = [pc EXCEPT ![c] = "checked"] /\ outcome' = outcome
      BY <2>1, <2>3
    <2>4. CASE pc' = [pc EXCEPT ![c] = "done"] /\ outcome' = [outcome EXCEPT ![c] = "refused"]
      BY <2>1, <2>4
    <2> QED
      BY <2>2, <2>3, <2>4
  <1>2. ASSUME NEW c \in Calls, CheckRefuses(c) PROVE HeldOK'
    BY <1>2 DEF CheckRefuses
  <1>3. ASSUME NEW c \in Calls, CheckAdmits(c) PROVE HeldOK'
    <2>1. pc[c] = "checked" /\ UNCHANGED <<held, left>>
      BY <1>3 DEF CheckAdmits
    <2>2. \/ pc' = [pc EXCEPT ![c] = "waiting"] /\ outcome' = outcome
          \/ pc' = [pc EXCEPT ![c] = "done"] /\ outcome' = [outcome EXCEPT ![c] = "refused"]
      BY <1>3, Zenon DEF CheckAdmits
    <2>3. CASE pc' = [pc EXCEPT ![c] = "waiting"] /\ outcome' = outcome
      BY <2>1, <2>3
    <2>4. CASE pc' = [pc EXCEPT ![c] = "done"] /\ outcome' = [outcome EXCEPT ![c] = "refused"]
      BY <2>1, <2>4
    <2> QED
      BY <2>2, <2>3, <2>4
  <1>4. ASSUME NEW c \in Calls, TakeSlot(c) PROVE HeldOK'
    BY <1>4 DEF TakeSlot
  <1>5. ASSUME NEW c \in Calls, Busy(c) PROVE HeldOK'
    BY <1>5 DEF Busy
  <1>6. ASSUME NEW c \in Calls, WaitCanceled(c) PROVE HeldOK'
    BY <1>6 DEF WaitCanceled
  <1>7. ASSUME NEW c \in Calls, VerifyScreen(c) PROVE HeldOK'
    <2>1. pc[c] = "verify" /\ UNCHANGED <<held, left>>
      BY <1>7 DEF VerifyScreen
    <2>2. CASE canceled[c] \/ screen # "unlocked"
      <3>1. pc' = [pc EXCEPT ![c] = "unwind"] /\ \E how \in {"canceled", "refused"} : outcome' = [outcome EXCEPT ![c] = how]
        BY <1>7, <2>2, Zenon DEF VerifyScreen
      <3> QED
        BY <2>1, <3>1
    <2>3. CASE ~(canceled[c] \/ screen # "unlocked")
      <3>1. pc' = [pc EXCEPT ![c] = "touch"] /\ outcome' = outcome
        BY <1>7, <2>3, Zenon DEF VerifyScreen
      <3> QED
        BY <2>1, <3>1
    <2> QED
      BY <2>2, <2>3
  <1>8. ASSUME NEW c \in Calls, VerifyGrant(c) PROVE HeldOK'
    <2>1. pc[c] = "touch" /\ UNCHANGED <<held, left>>
      BY <1>8 DEF VerifyGrant
    <2>2. CASE ~Current(tok[c])
      <3>1. pc' = [pc EXCEPT ![c] = "unwind"] /\ \E how \in {"canceled", "refused"} : outcome' = [outcome EXCEPT ![c] = how]
        BY <1>8, <2>2, Zenon DEF VerifyGrant
      <3> QED
        BY <2>1, <3>1
    <2>3. CASE ~(~Current(tok[c]))
      <3>1. pc' = [pc EXCEPT ![c] = IF admitted[c] THEN "pace" ELSE "between"] /\ outcome' = outcome
        BY <1>8, <2>3, Zenon DEF VerifyGrant
      <3> QED
        BY <2>1, <3>1
    <2> QED
      BY <2>2, <2>3
  <1>9. ASSUME NEW c \in Calls, NextAction(c) PROVE HeldOK'
    <2>1. pc[c] = "between" /\ UNCHANGED <<held, left>>
      BY <1>9 DEF NextAction
    <2>2. CASE canceled[c]
      <3>1. pc' = [pc EXCEPT ![c] = "unwind"] /\ \E how \in {"canceled", "refused"} : outcome' = [outcome EXCEPT ![c] = how]
        BY <1>9, <2>2, Zenon DEF NextAction
      <3> QED
        BY <2>1, <3>1
    <2>3. CASE ~(canceled[c])
      <3>1. pc' = [pc EXCEPT ![c] = "verify"] /\ outcome' = outcome
        BY <1>9, <2>3, Zenon DEF NextAction
      <3> QED
        BY <2>1, <3>1
    <2> QED
      BY <2>2, <2>3
  <1>10. ASSUME NEW c \in Calls, WaitAction(c) PROVE HeldOK'
    BY <1>10 DEF WaitAction
  <1>11. ASSUME NEW c \in Calls, BatchStops(c) PROVE HeldOK'
    BY <1>11 DEF BatchStops
  <1>12. ASSUME NEW c \in Calls, PlanRefused(c) PROVE HeldOK'
    BY <1>12 DEF PlanRefused
  <1>13. ASSUME NEW c \in Calls, Pace(c) PROVE HeldOK'
    <2>1. pc[c] = "pace" /\ UNCHANGED <<held, left>>
      BY <1>13 DEF Pace
    <2>2. CASE canceled[c]
      <3>1. pc' = [pc EXCEPT ![c] = "unwind"] /\ \E how \in {"canceled", "refused"} : outcome' = [outcome EXCEPT ![c] = how]
        BY <1>13, <2>2, Zenon DEF Pace
      <3> QED
        BY <2>1, <3>1
    <2>3. CASE ~(canceled[c])
      <3>1. pc' = [pc EXCEPT ![c] = "send"] /\ outcome' = outcome
        BY <1>13, <2>3, Zenon DEF Pace
      <3> QED
        BY <2>1, <3>1
    <2> QED
      BY <2>2, <2>3
  <1>14. ASSUME NEW c \in Calls, Send(c) PROVE HeldOK'
    <2>1. /\ pc[c] = "send" /\ left' = [left EXCEPT ![c] = @ - 1]
          /\ pc' = [pc EXCEPT ![c] = "between"] /\ outcome' = outcome
          /\ held' \in {held, [held EXCEPT ![HostOf[c]] = @ \cup {c}]}
                       \cup {[held EXCEPT ![HostOf[c]] = @ \ {d}] : d \in held[HostOf[c]]}
      BY <1>14, Zenon DEF Send
    <2>2. left[c] > 0 /\ left[c] <= Actions(c)
      BY <2>1 DEF Verified
    <2>3. ASSUME NEW h \in Hosts PROVE held'[h] \subseteq held[h] \cup (IF h = HostOf[c] THEN {c} ELSE {})
      <3>1. CASE held' = held
        BY <3>1
      <3>2. CASE held' = [held EXCEPT ![HostOf[c]] = @ \cup {c}]
        BY <3>2
      <3>3. ASSUME NEW d \in held[HostOf[c]], held' = [held EXCEPT ![HostOf[c]] = @ \ {d}]
            PROVE  held'[h] \subseteq held[h]
        BY <3>3
      <3> QED
        BY <2>1, <3>1, <3>2, <3>3
    <2>4. ASSUME NEW h \in Hosts, NEW d \in held'[h]
          PROVE  /\ HostOf[d] = h /\ left'[d] < Actions(d)
                 /\ pc'[d] \in InSlot \ {"exit"} \/ outcome'[d] = "ok"
      <3>1. CASE d = c
        BY <2>1, <2>2, <2>3, <3>1
      <3>2. CASE d # c
        <4>1. d \in held[h]
          BY <2>3, <3>2
        <4> QED
          BY <2>1, <3>2, <4>1
      <3> QED
        BY <3>1, <3>2
    <2> QED
      BY <2>1, <2>4
  <1>15. ASSUME NEW c \in Calls, SendFails(c) PROVE HeldOK'
    <2>1. pc[c] = "send" /\ left[c] > 0 /\ UNCHANGED <<held, left>>
      BY <1>15 DEF SendFails, Verified
    <2>2. CASE c \in Batches
      <3>1. pc' = [pc EXCEPT ![c] = "unwind"] /\ outcome' = [outcome EXCEPT ![c] = "stopped"]
        BY <1>15, <2>2, Zenon DEF SendFails
      <3> QED
        BY <2>1, <3>1
    <2>3. CASE c \notin Batches
      <3>1. pc' = [pc EXCEPT ![c] = "exit"] /\ outcome' = [outcome EXCEPT ![c] = "failed"]
        BY <1>15, <2>3, Zenon DEF SendFails
      <3>2. \A h \in Hosts : c \notin held[h]
        BY <2>1, <2>3
      <3> QED
        BY <2>1, <3>1, <3>2
    <2> QED
      BY <2>2, <2>3
  <1>16. ASSUME NEW c \in Calls, Finish(c) PROVE HeldOK'
    <2>1. pc[c] = "between" /\ UNCHANGED <<held, left>>
      BY <1>16 DEF Finish
    <2>2. \/ pc' = [pc EXCEPT ![c] = "unwind"] /\ outcome' = [outcome EXCEPT ![c] = "canceled"]
          \/ pc' = [pc EXCEPT ![c] = "exit"] /\ outcome' = [outcome EXCEPT ![c] = "ok"]
      BY <1>16, Zenon DEF Finish
    <2>3. CASE pc' = [pc EXCEPT ![c] = "unwind"] /\ outcome' = [outcome EXCEPT ![c] = "canceled"]
      BY <2>1, <2>3
    <2>4. CASE pc' = [pc EXCEPT ![c] = "exit"] /\ outcome' = [outcome EXCEPT ![c] = "ok"]
      BY <2>1, <2>4
    <2> QED
      BY <2>2, <2>3, <2>4
  <1>17. ASSUME NEW c \in Calls, Unwind(c) PROVE HeldOK'
    BY <1>17 DEF Unwind
  <1>18. ASSUME NEW c \in Calls, Exit(c) PROVE HeldOK'
    BY <1>18 DEF Exit
  <1>19. ASSUME NEW c \in Calls, Cancel(c) PROVE HeldOK'
    BY <1>19 DEF Cancel
  <1>20. ASSUME NEW h \in Hosts, LockRevoke(h) PROVE HeldOK'
    BY <1>20 DEF LockRevoke
  <1>21. ASSUME NEW h \in Hosts, LockCleanup(h) PROVE HeldOK'
    BY <1>21 DEF LockCleanup
  <1>22. ASSUME NEW h \in Hosts, HoldTimer(h) PROVE HeldOK'
    BY <1>22 DEF HoldTimer
  <1>23. ASSUME NEW h \in Hosts, Crash(h) PROVE HeldOK'
    BY <1>23 DEF Crash
  <1>24. CASE Unlock
    BY <1>24 DEF Unlock
  <1>25. CASE Expire
    BY <1>25 DEF Expire
  <1>26. CASE ScreenChanges
    BY <1>26 DEF ScreenChanges
  <1>27. CASE UNCHANGED vars
    BY <1>27 DEF vars
  <1> QED
    BY <1>1, <1>2, <1>3, <1>4, <1>5, <1>6, <1>7, <1>8, <1>9, <1>10, <1>11, <1>12, <1>13, <1>14, <1>15, <1>16,
       <1>17, <1>18, <1>19, <1>20, <1>21, <1>22, <1>23, <1>24, <1>25, <1>26, <1>27 DEF Next, Work

(* A call that failed, was canceled or was refused has let go of all it    *)
(* pressed before the execution lock is free.                              *)
THEOREM OnlyFinishedHold == Spec => []OnlyFinishedSequencesHold
  <1>1. Init => HeldOK
    BY SequenceAssumption DEF Init, HeldOK, OnlyFinishedSequencesHold, Actions
  <1>2. HeldOK => OnlyFinishedSequencesHold
    BY DEF HeldOK
  <1> QED
    BY <1>1, <1>2, NextHeld, SequenceInvariant, PTL DEF Spec
=============================================================================
