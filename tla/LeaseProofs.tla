---------------------------- MODULE LeaseProofs ----------------------------
(***************************************************************************)
(* Proofs about Lease, for any set of processes and any bounds, about      *)
(* Coordinates, for any layouts, and about NativeGuard, for any bounds.    *)
(*                                                                         *)
(* The inductive invariant of Lease adds to the types that the lock file   *)
(* names exactly the process inside the critical section (LockOK), and     *)
(* that what this process read is still in the file                        *)
(* (DecidesOnCurrentFile): together they make read, decision and rename    *)
(* one atomic step of Grant.                                               *)
(*                                                                         *)
(* The one of Coordinates (PointsInv) says of a picture that it is of a    *)
(* part of one output and that, if the layout stayed, the two ends of its  *)
(* box in the frame are to half a pixel where they are on the desktop; of  *)
(* a region, that it covers the pixels asked for; and of a click, that its *)
(* picture was current.  The rest is arithmetic of the three roundings.    *)
(*                                                                         *)
(* The one of NativeGuard (HelperInv) says of a device that is open though *)
(* its latch is set that somebody is about to close it (Doomed), or that   *)
(* it was registered after the latch was set (late), and then that it      *)
(* belongs to the request being served, which looks again before it ends.  *)
(***************************************************************************)
EXTENDS MCLease, Sequences, TLAPS

LockOK == \A p \in Procs : pc[p] = "locked" <=> lock = p

LeaseInv == TypeOK /\ LockOK /\ DecidesOnCurrentFile

(* The initial states satisfy the inductive invariant.                     *)
LEMMA InitInv == Init => LeaseInv
  <1> SUFFICES ASSUME Init PROVE LeaseInv
    OBVIOUS
  <1> USE LeaseAssumption DEF Init
  <1>1. Empty \in Snapshots
    BY DEF Empty, Snapshots, NoId
  <1>2. file \in Snapshots
    BY <1>1 DEF Empty, Snapshots, NoId, SCHEMA_VERSION
  <1>3. TypeOK
    BY <1>1, <1>2 DEF TypeOK, NoReq, Ops, NoToken, NoId, Tokens
  <1>4. LockOK /\ DecidesOnCurrentFile
    BY DEF LockOK, DecidesOnCurrentFile
  <1> QED
    BY <1>3, <1>4 DEF LeaseInv

(* What the operations write is a well-formed snapshot.                    *)
LEMMA WritesAreSnapshots ==
  ASSUME NEW s \in Snapshots, NEW moment \in Nat, NEW u \in Nat, NEW i \in Nat
  PROVE  /\ Granted(s, u, i) \in Snapshots
         /\ Revoked(s) \in Snapshots
         /\ TouchDeadline(s, moment) \in Nat
         /\ [s EXCEPT !.until = TouchDeadline(s, moment)] \in Snapshots
         /\ TokenOf(s) \in Tokens
  <1>1. TouchDeadline(s, moment) \in Nat
    BY LeaseAssumption DEF TouchDeadline, Snapshots
  <1>2. Granted(s, u, i) \in Snapshots
    BY DEF Granted, Snapshots
  <1>3. Revoked(s) \in Snapshots
    BY DEF Revoked, Snapshots
  <1>4. [s EXCEPT !.until = TouchDeadline(s, moment)] \in Snapshots
    BY <1>1 DEF Snapshots
  <1>5. TokenOf(s) \in Tokens
    BY DEF TokenOf, Tokens, Snapshots
  <1> QED
    BY <1>1, <1>2, <1>3, <1>4, <1>5

(* Every step preserves the inductive invariant.                           *)
LEMMA NextInv == LeaseInv /\ [Next]_vars => LeaseInv'
  <1> SUFFICES ASSUME LeaseInv, [Next]_vars PROVE LeaseInv'
    OBVIOUS
  <1> USE LeaseAssumption
  <1>t. TypeOK /\ LockOK /\ DecidesOnCurrentFile
    BY DEF LeaseInv
  <1>e. /\ Empty \in Snapshots /\ NoToken \in Tokens
        /\ NoReq \in [op : Ops, moment : Nat, until : Nat]
    BY DEF Empty, Snapshots, NoId, NoToken, Tokens, NoReq, Ops
  <1>1. CASE Tick
    BY <1>1, <1>t DEF Tick, LeaseInv, TypeOK, LockOK, DecidesOnCurrentFile, procvars
  <1>2. ASSUME NEW p \in Procs, CaptureToken(p) PROVE LeaseInv'
    <2>1. TokenOf(file) \in Tokens
      BY <1>t, WritesAreSnapshots DEF TypeOK
    <2> QED
      BY <1>2, <1>t, <1>e, <2>1
      DEF CaptureToken, LeaseInv, TypeOK, LockOK, DecidesOnCurrentFile
  <1>3. ASSUME NEW p \in Procs,
               BeginGrant(p) \/ BeginRevoke(p) \/ BeginRevokeIf(p) \/ BeginTouch(p)
        PROVE  LeaseInv'
    <2> DEFINE Reqs == [op : Ops, moment : Nat, until : Nat]
    <2>1. \E r \in Reqs : Begin(p, r)
      <3>1. CASE BeginGrant(p)
        <4>1. PICK d \in Terms : Begin(p, [op |-> "grant", moment |-> 0, until |-> now + d])
          BY <3>1 DEF BeginGrant
        <4>2. [op |-> "grant", moment |-> 0, until |-> now + d] \in Reqs
          BY <1>t DEF TypeOK, Ops
        <4> QED
          BY <4>1, <4>2
      <3>2. CASE BeginRevoke(p)
        <4>1. [op |-> "revoke", moment |-> 0, until |-> 0] \in Reqs
          BY DEF Ops
        <4> QED
          BY <3>2, <4>1 DEF BeginRevoke
      <3>3. CASE BeginRevokeIf(p)
        <4>1. [op |-> "revoke_if", moment |-> 0, until |-> 0] \in Reqs
          BY DEF Ops
        <4> QED
          BY <3>3, <4>1 DEF BeginRevokeIf
      <3>4. CASE BeginTouch(p)
        <4>1. [op |-> "touch", moment |-> now, until |-> 0] \in Reqs
          BY <1>t DEF Ops, TypeOK
        <4> QED
          BY <3>4, <4>1 DEF BeginTouch
      <3> QED
        BY <1>3, <3>1, <3>2, <3>3, <3>4
    <2> QED
      BY <2>1, <1>t DEF Begin, LeaseInv, TypeOK, LockOK, DecidesOnCurrentFile
  <1>4. ASSUME NEW p \in Procs, Acquire(p) PROVE LeaseInv'
    BY <1>4, <1>t DEF Acquire, LeaseInv, TypeOK, LockOK, DecidesOnCurrentFile
  <1>5. ASSUME NEW p \in Procs,
               CommitGrant(p) \/ CommitRevoke(p) \/ CommitRevokeIf(p) \/ CommitTouch(p)
        PROVE  LeaseInv'
    <2>1. pc[p] = "locked" /\ Return(p) /\ lock = p /\ cur[p] \in Snapshots
          /\ req[p].moment \in Nat /\ req[p].until \in Nat
      BY <1>5, <1>t DEF CommitGrant, CommitRevoke, CommitRevokeIf, CommitTouch, Inside,
                        LockOK, TypeOK
    <2>2. LockOK' /\ DecidesOnCurrentFile'
      BY <2>1, <1>t DEF Return, LockOK, DecidesOnCurrentFile, TypeOK
    <2>3. /\ Granted(cur[p], req[p].until, issued + 1) \in Snapshots
          /\ Revoked(cur[p]) \in Snapshots
          /\ [cur[p] EXCEPT !.until = TouchDeadline(cur[p], req[p].moment)] \in Snapshots
          /\ TokenOf(Granted(cur[p], req[p].until, issued + 1)) \in Tokens
      <3>1. issued + 1 \in Nat
        BY <1>t DEF TypeOK
      <3>2. Granted(cur[p], req[p].until, issued + 1) \in Snapshots
        BY <2>1, <3>1, WritesAreSnapshots
      <3> QED
        BY <2>1, <3>1, <3>2, WritesAreSnapshots
    <2>4. /\ file' \in Snapshots /\ issued' \in Nat
          /\ token' \in [Procs -> Tokens] /\ last' \in Nat \cup {-1}
      BY <1>5, <1>t, <1>e, <2>1, <2>3
      DEF CommitGrant, CommitRevoke, CommitRevokeIf, CommitTouch, TypeOK
    <2>5. TypeOK'
      BY <1>t, <1>e, <2>1, <2>4 DEF Return, TypeOK
    <2> QED
      BY <2>2, <2>5 DEF LeaseInv
  <1>6. ASSUME NEW p \in Procs, Crash(p) PROVE LeaseInv'
    BY <1>6, <1>t, <1>e DEF Crash, LeaseInv, TypeOK, LockOK, DecidesOnCurrentFile
  <1>7. CASE UNCHANGED vars
    BY <1>7, <1>t DEF vars, procvars, LeaseInv, TypeOK, LockOK, DecidesOnCurrentFile
  <1> QED
    BY <1>1, <1>2, <1>3, <1>4, <1>5, <1>6, <1>7 DEF Next, Step

(* The inductive invariant holds in every reachable state of lease.py.     *)
THEOREM LeaseInvariant == Spec => []LeaseInv
  BY InitInv, NextInv, PTL DEF Spec

(* The state file, the requests and the tokens always have their types.    *)
THEOREM TypeCorrect == Spec => []TypeOK
  <1>1. LeaseInv => TypeOK
    BY DEF LeaseInv
  <1> QED
    BY <1>1, LeaseInvariant, PTL

(* No update of the grant file is ever lost: whoever is inside the         *)
(* critical section of lease.py decides on the file as it is.              *)
THEOREM NoLostUpdate == Spec => []DecidesOnCurrentFile
  <1>1. LeaseInv => DecidesOnCurrentFile
    BY DEF LeaseInv
  <1> QED
    BY <1>1, LeaseInvariant, PTL
-----------------------------------------------------------------------------
(* An admitted touch that writes moves an unclosed deadline to a positive  *)
(* one within the ceiling.                                                 *)
LEMMA TouchSlides ==
  ASSUME NEW s \in Snapshots, NEW t, NEW moment \in Nat,
         TouchAdmits(s, t, moment), TouchWrites(s, moment)
  PROVE  s.until > 0 /\ TouchDeadline(s, moment) \in 1..s.hard
  BY LeaseAssumption DEF Snapshots, TouchAdmits, TouchWrites, TouchDeadline, IsActive

(* Every step of lease.py is a step of the abstract grant, or none.        *)
LEMMA StepImplements == LeaseInv /\ [Next]_vars => [G!Next]_<<file.id, file.until, file.hard, issued>>
  <1> SUFFICES ASSUME LeaseInv, [Next]_vars
               PROVE  \/ G!Next
                      \/ UNCHANGED <<file.id, file.until, file.hard, issued>>
    OBVIOUS
  <1> USE LeaseAssumption
  <1>t. TypeOK /\ LockOK /\ DecidesOnCurrentFile
    BY DEF LeaseInv
  <1>1. ASSUME NEW p \in Procs, CommitGrant(p) PROVE G!Open
    <2>1. file' = Granted(cur[p], req[p].until, issued + 1) /\ issued' = issued + 1
      BY <1>1 DEF CommitGrant
    <2>2. req[p].until \in Nat
      BY <1>t DEF TypeOK
    <2> QED
      BY <2>1, <2>2 DEF Granted, G!Open
  <1>2. ASSUME NEW p \in Procs, CommitRevoke(p) PROVE G!Close
    BY <1>2, <1>t DEF CommitRevoke, Inside, DecidesOnCurrentFile, Revoked, G!Close
  <1>3. ASSUME NEW p \in Procs, CommitRevokeIf(p) PROVE G!Close \/ UNCHANGED <<file, issued>>
    BY <1>3, <1>t DEF CommitRevokeIf, Inside, DecidesOnCurrentFile, Revoked, G!Close
  <1>4. ASSUME NEW p \in Procs, CommitTouch(p) PROVE G!Slide \/ UNCHANGED <<file, issued>>
    <2>1. cur[p] = file /\ file \in Snapshots /\ req[p].moment \in Nat /\ issued' = issued
      BY <1>4, <1>t DEF CommitTouch, Inside, DecidesOnCurrentFile, TypeOK
    <2>2. CASE TouchAdmits(cur[p], token[p], req[p].moment) /\ TouchWrites(cur[p], req[p].moment)
      <3>1. file' = [file EXCEPT !.until = TouchDeadline(file, req[p].moment)]
        BY <1>4, <2>1, <2>2 DEF CommitTouch
      <3>2. file.until > 0 /\ TouchDeadline(file, req[p].moment) \in 1..file.hard
        BY <2>1, <2>2, TouchSlides
      <3>3. /\ file'.until = TouchDeadline(file, req[p].moment)
            /\ file'.id = file.id /\ file'.hard = file.hard
        BY <2>1, <3>1 DEF Snapshots
      <3> QED
        BY <2>1, <3>2, <3>3 DEF G!Slide
    <2>3. CASE ~(TouchAdmits(cur[p], token[p], req[p].moment) /\ TouchWrites(cur[p], req[p].moment))
      BY <1>4, <2>1, <2>3 DEF CommitTouch
    <2> QED
      BY <2>2, <2>3
  <1>5. CASE UNCHANGED <<file, issued>>
    BY <1>5
  <1>6. ASSUME NEW p \in Procs,
               \/ CaptureToken(p) \/ Acquire(p) \/ Crash(p)
               \/ BeginGrant(p) \/ BeginRevoke(p) \/ BeginRevokeIf(p) \/ BeginTouch(p)
        PROVE  UNCHANGED <<file, issued>>
    BY <1>6 DEF CaptureToken, Acquire, Crash, BeginGrant, BeginRevoke, BeginRevokeIf,
                BeginTouch, Begin
  <1>7. CASE Tick \/ UNCHANGED vars
    BY <1>7 DEF Tick, vars
  <1>8. CASE \E p \in Procs : Step(p)
    BY <1>8, <1>1, <1>2, <1>3, <1>4, <1>6 DEF Step, G!Next
  <1> QED
    BY <1>7, <1>8 DEF Next

(* LeaseStore implements the abstract grant: a revoked or replaced grant   *)
(* never opens again and no deadline passes its ceiling, whatever the      *)
(* processes, their order and their crashes.                               *)
THEOREM ImplementsGrantSpec == Spec => ImplementsGrant
  <1>1. Init => G!Init
    BY LeaseAssumption DEF Init, Empty, NoId, G!Init
  <1>2. LeaseInv /\ [Next]_vars => [G!Next]_(G!gvars)
    BY StepImplements DEF G!gvars
  <1> QED
    BY <1>1, <1>2, LeaseInvariant, PTL DEF Spec, ImplementsGrant, G!Spec

(* revoke_if ends only the caller's own grant.                             *)
THEOREM RetireSparesReplacement == Spec => RevokeIfSparesReplacement
  <1>1. LeaseInv /\ [Next]_vars =>
          [\A p \in Procs : Inside(p, "revoke_if") /\ file' # file
                              => TokenOf(file) = token[p] /\ file'.until = 0]_vars
    <2> SUFFICES ASSUME LeaseInv, Next, NEW p \in Procs, Inside(p, "revoke_if"), file' # file
                 PROVE  TokenOf(file) = token[p] /\ file'.until = 0
      OBVIOUS
    <2>1. TypeOK /\ LockOK /\ DecidesOnCurrentFile
      BY DEF LeaseInv
    <2>2. ASSUME NEW q \in Procs,
                 \/ CaptureToken(q) \/ Acquire(q) \/ Crash(q)
                 \/ BeginGrant(q) \/ BeginRevoke(q) \/ BeginRevokeIf(q) \/ BeginTouch(q)
          PROVE  FALSE
      BY <2>2 DEF CaptureToken, Acquire, Crash, BeginGrant, BeginRevoke, BeginRevokeIf,
                  BeginTouch, Begin
    <2>3. ASSUME NEW q \in Procs,
                 CommitGrant(q) \/ CommitRevoke(q) \/ CommitRevokeIf(q) \/ CommitTouch(q)
          PROVE  CommitRevokeIf(p)
      <3>1. pc[p] = "locked" /\ pc[q] = "locked" /\ req[p].op = "revoke_if"
        BY <2>3 DEF CommitGrant, CommitRevoke, CommitRevokeIf, CommitTouch, Inside
      <3>2. p = q
        BY <2>1, <3>1 DEF LockOK
      <3> QED
        BY <2>3, <3>1, <3>2 DEF CommitGrant, CommitRevoke, CommitTouch, Inside
    <2>4. ~Tick
      BY DEF Tick
    <2>5. CommitRevokeIf(p)
      BY <2>2, <2>3, <2>4 DEF Next, Step
    <2> QED
      BY <2>1, <2>5 DEF CommitRevokeIf, RevokeIfMatches, Revoked, DecidesOnCurrentFile, Inside
  <1> QED
    BY <1>1, LeaseInvariant, PTL DEF Spec, RevokeIfSparesReplacement
(* A deadline that has run out is moved again only by a touch whose own    *)
(* moment lay before it, however long that touch waited for the lock:      *)
(* lease.py's touch answers from the moment it took before the lock, and   *)
(* writes to the grant that was still open at that moment.                 *)
THEOREM TouchesOnlyWhatWasOpen == Spec => ExpiredMovesOnlyByEarlierTouch
  <1>1. LeaseInv /\ [Next]_vars =>
          [\A p \in Procs :
              /\ Inside(p, "touch") /\ pc'[p] = "idle"
              /\ file'.until # file.until
              => req[p].moment < file.until]_vars
    <2> SUFFICES ASSUME LeaseInv, Next, NEW p \in Procs, Inside(p, "touch"),
                        file'.until # file.until
                 PROVE  req[p].moment < file.until
      OBVIOUS
    <2>1. TypeOK /\ LockOK /\ DecidesOnCurrentFile
      BY DEF LeaseInv
    <2>2. ASSUME NEW q \in Procs,
                 \/ CaptureToken(q) \/ Acquire(q) \/ Crash(q)
                 \/ BeginGrant(q) \/ BeginRevoke(q) \/ BeginRevokeIf(q) \/ BeginTouch(q)
          PROVE  FALSE
      BY <2>2 DEF CaptureToken, Acquire, Crash, BeginGrant, BeginRevoke, BeginRevokeIf,
                  BeginTouch, Begin
    <2>3. ASSUME NEW q \in Procs,
                 CommitGrant(q) \/ CommitRevoke(q) \/ CommitRevokeIf(q) \/ CommitTouch(q)
          PROVE  CommitTouch(p)
      <3>1. pc[p] = "locked" /\ pc[q] = "locked" /\ req[p].op = "touch"
        BY <2>3 DEF CommitGrant, CommitRevoke, CommitRevokeIf, CommitTouch, Inside
      <3>2. p = q
        BY <2>1, <3>1 DEF LockOK
      <3> QED
        BY <2>3, <3>1, <3>2 DEF CommitGrant, CommitRevoke, CommitRevokeIf, Inside
    <2>4. ~Tick
      BY DEF Tick
    <2>5. CommitTouch(p)
      BY <2>2, <2>3, <2>4 DEF Next, Step
    <2>6. TouchAdmits(file, token[p], req[p].moment)
      BY <2>1, <2>5 DEF CommitTouch, DecidesOnCurrentFile, Inside
    <2> QED
      BY <2>1, <2>6 DEF TouchAdmits, IsActive, TypeOK, Snapshots
  <1> QED
    BY <1>1, LeaseInvariant, PTL DEF Spec, ExpiredMovesOnlyByEarlierTouch
(* The grant closes within the idle time (and less than a second) of the   *)
(* latest admitted action, also when touches finish out of order.          *)
THEOREM ClosesInTime == Spec => []ClosesAfterLastAction
  <1> USE LeaseAssumption
  <1>1. Init => ClosesAfterLastAction
    BY DEF Init, ClosesAfterLastAction
  <1>2. LeaseInv /\ ClosesAfterLastAction /\ [Next]_vars => ClosesAfterLastAction'
    <2> SUFFICES ASSUME LeaseInv, ClosesAfterLastAction, [Next]_vars
                 PROVE  ClosesAfterLastAction'
      OBVIOUS
    <2>t. TypeOK /\ LockOK /\ DecidesOnCurrentFile
      BY DEF LeaseInv
    <2>1. CASE UNCHANGED <<file, last>>
      BY <2>1 DEF ClosesAfterLastAction
    <2>2. ASSUME NEW p \in Procs, CommitGrant(p) PROVE ClosesAfterLastAction'
      BY <2>2 DEF CommitGrant, ClosesAfterLastAction
    <2>3. ASSUME NEW p \in Procs, CommitRevoke(p) \/ CommitRevokeIf(p)
          PROVE  ClosesAfterLastAction'
      <3>1. CASE file' = Revoked(cur[p]) /\ last' = last
        BY <3>1, <2>t DEF Revoked, ClosesAfterLastAction, TypeOK
      <3>2. CASE file' = file /\ last' = last
        BY <3>2, <2>1
      <3> QED
        BY <2>3, <3>1, <3>2 DEF CommitRevoke, CommitRevokeIf
    <2>4. ASSUME NEW p \in Procs, CommitTouch(p) PROVE ClosesAfterLastAction'
      <3> DEFINE moment == req[p].moment
      <3>1. /\ cur[p] = file /\ file \in Snapshots /\ moment \in Nat
            /\ last \in Nat \cup {-1}
        BY <2>4, <2>t DEF CommitTouch, Inside, DecidesOnCurrentFile, TypeOK
      <3>2. CASE ~TouchAdmits(file, token[p], moment)
        BY <2>4, <2>1, <3>1, <3>2 DEF CommitTouch
      <3>3. CASE TouchAdmits(file, token[p], moment)
        <4>1. last' >= moment /\ last' \in Nat
          BY <2>4, <3>1, <3>3 DEF CommitTouch
        <4>2. TouchDeadline(file, moment) <= moment + Idle
              /\ TouchDeadline(file, moment) \in Nat
          BY <3>1 DEF TouchDeadline, Snapshots
        <4>3. CASE TouchWrites(file, moment)
          <5>1. file' = [file EXCEPT !.until = TouchDeadline(file, moment)]
            BY <2>4, <3>1, <3>3, <4>3 DEF CommitTouch
          <5>2. file'.until = TouchDeadline(file, moment)
            BY <3>1, <5>1 DEF Snapshots
          <5> QED
            BY <3>1, <4>1, <4>2, <5>2 DEF ClosesAfterLastAction
        <4>4. CASE ~TouchWrites(file, moment)
          <5>1. file' = file
            BY <2>4, <3>1, <3>3, <4>4 DEF CommitTouch
          <5>2. ASSUME Idle > 0, file.schema = SCHEMA_VERSION
                PROVE  file.until < TouchDeadline(file, moment) + Second
            <6>1. file.hard > 0 /\ file.until \in Nat
              BY <3>1, <3>3, <5>2 DEF TouchAdmits, IsActive, Snapshots
            <6>2. ~(Distance(TouchDeadline(file, moment), file.until) >= Second)
              BY <4>4, <5>2, <6>1 DEF TouchWrites
            <6> QED
              BY <6>1, <6>2, <4>2 DEF Distance
          <5> QED
            BY <3>1, <4>1, <4>2, <5>1, <5>2 DEF ClosesAfterLastAction, Snapshots
        <4> QED
          BY <4>3, <4>4
      <3> QED
        BY <3>2, <3>3
    <2>5. ASSUME NEW p \in Procs,
                 \/ CaptureToken(p) \/ Acquire(p) \/ Crash(p)
                 \/ BeginGrant(p) \/ BeginRevoke(p) \/ BeginRevokeIf(p) \/ BeginTouch(p)
          PROVE  UNCHANGED <<file, last>>
      BY <2>5 DEF CaptureToken, Acquire, Crash, BeginGrant, BeginRevoke, BeginRevokeIf,
                  BeginTouch, Begin
    <2>6. CASE Tick \/ UNCHANGED vars
      BY <2>6, <2>1 DEF Tick, vars
    <2> QED
      BY <2>1, <2>2, <2>3, <2>4, <2>5, <2>6 DEF Next, Step
  <1> QED
    BY <1>1, <1>2, LeaseInvariant, PTL DEF Spec
-----------------------------------------------------------------------------
(* A product of two natural numbers is one, and multiplying by one keeps   *)
(* an order.                                                               *)
LEMMA Products == \A m, n \in Nat : m * n \in Nat
  OBVIOUS
LEMMA TimesKeeps == \A x, y \in Int, c \in Nat : x <= y => c * x <= c * y
  OBVIOUS

(* round_half_away gives the nearest whole number.                         *)
LEMMA RoundedIsNear ==
  ASSUME NEW n \in Nat, NEW d \in Nat \ {0}
  PROVE  /\ C!Rounded(n, d) \in Nat
         /\ 2 * d * C!Rounded(n, d) <= 2 * n + d
         /\ 2 * d * C!Rounded(n, d) > 2 * n - d
  <1> DEFINE q == (2 * n + d) \div (2 * d)
  <1>1. \A m \in Nat, k \in Nat \ {0} : m \div k \in Nat /\ k * (m \div k) <= m /\ m < k * (m \div k) + k
    OBVIOUS
  <1>2. 2 * n + d \in Nat /\ 2 * d \in Nat \ {0}
    OBVIOUS
  <1>3. q \in Nat /\ 2 * d * q <= 2 * n + d /\ 2 * n + d < 2 * d * q + 2 * d
    BY <1>1, <1>2
  <1>4. q = C!Rounded(n, d)
    BY DEF C!Rounded
  <1> QED
    BY <1>3, <1>4

(* The two ways to round outward.                                          *)
LEMMA DivIsBelow ==
  ASSUME NEW n \in Nat, NEW d \in Nat \ {0}
  PROVE  n \div d \in Nat /\ d * (n \div d) <= n /\ n < d * (n \div d) + d
  OBVIOUS

LEMMA CeilIsAbove ==
  ASSUME NEW n \in Nat, NEW d \in Nat \ {0}
  PROVE  C!Ceil(n, d) \in Nat /\ d * C!Ceil(n, d) >= n /\ d * C!Ceil(n, d) < n + d
  <1>1. n + d - 1 \in Nat
    OBVIOUS
  <1>2. C!Ceil(n, d) = (n + d - 1) \div d
    BY DEF C!Ceil
  <1> QED
    BY <1>1, <1>2, DivIsBelow

(* A pixel of a picture, in units of the desktop and in pixels of the      *)
(* frame: the picture is of the desktop from A on, D wide, and of a frame  *)
(* with P pixels for W units, from L on, N wide, both in W-ths of a pixel; *)
(* it is s pixels wide.                                                    *)
LEMMA PixelPlace ==
  ASSUME NEW A \in Int, NEW D \in Int, NEW L \in Int, NEW N \in Int, NEW P \in Int,
         NEW s \in Int, NEW p \in Int
  PROVE  2 * (L * s + p * N) =
            2 * P * (A * s + p * D) + (s - p) * (2 * L - 2 * A * P) + p * (2 * (L + N) - 2 * (A + D) * P)
  OBVIOUS

(* A point for a pixel is where the pixel is.                              *)
LEMMA PointIsNear ==
  ASSUME NEW A \in Int, NEW D \in Int, NEW L \in Int, NEW N \in Int, NEW P \in Nat, NEW W \in Nat,
         NEW s \in Nat, NEW p \in Nat, NEW R \in Int, p <= s,
         -W <= 2 * L - 2 * A * P, 2 * L - 2 * A * P <= W,
         -W <= 2 * (L + N) - 2 * (A + D) * P, 2 * (L + N) - 2 * (A + D) * P <= W,
         2 * s * R <= 2 * (p * D) + s, 2 * s * R >= 2 * (p * D) - s
  PROVE  2 * ((A + R) * s * P - (L * s + p * N)) \in -(s * (P + W))..(s * (P + W))
  <1> DEFINE l == 2 * L - 2 * A * P
             h == 2 * (L + N) - 2 * (A + D) * P
             r == 2 * s * R - 2 * (p * D)
             E == 2 * ((A + R) * s * P - (L * s + p * N))
  <1>1. E = P * r - (s - p) * l - p * h
    OBVIOUS
  <1>2. /\ l \in Int /\ h \in Int /\ r \in Int /\ E \in Int
        /\ -W <= l /\ l <= W /\ -W <= h /\ h <= W /\ -s <= r /\ r <= s
    OBVIOUS
  <1> HIDE DEF l, h, r, E
  <1>3. -(P * s) <= P * r /\ P * r <= P * s
    BY <1>2
  <1>4. -((s - p) * W) <= (s - p) * l /\ (s - p) * l <= (s - p) * W
    <2>1. s - p \in Nat
      OBVIOUS
    <2> QED
      BY <1>2, <2>1, TimesKeeps
  <1>5. -(p * W) <= p * h /\ p * h <= p * W
    BY <1>2
  <1>6. s * (P + W) = P * s + (s - p) * W + p * W
    OBVIOUS
  <1>7. -(s * (P + W)) <= E /\ E <= s * (P + W)
    BY <1>1, <1>2, <1>3, <1>4, <1>5, <1>6
  <1> QED
    BY <1>2, <1>7 DEF E

(* l W-ths of a pixel of a frame with P pixels for W units are a units, to *)
(* half a pixel.                                                           *)
Near(W, l, a, P) == -W <= 2 * l - 2 * a * P /\ 2 * l - 2 * a * P <= W

(* The picture of PixelPlace, to half a pixel at both ends.                *)
Framed(A, D, L, N, P, W) ==
    /\ A \in Int /\ D \in Int /\ L \in Int /\ N \in Int /\ P \in Nat /\ W \in Nat
    /\ Near(W, L, A, P) /\ Near(W, L + N, A + D, P)

(* From lo on, or up to hi, in V-ths of a pixel, a frame of F pixels for V *)
(* units shows the picture from its pixel p on, or up to it.               *)
ShowsFrom(lo, F, V, P, W, s, L, p, N) == 2 * lo * P * s - s * (P * V + F * W) <= 2 * F * (L * s + p * N)
ShowsTo(hi, F, V, P, W, s, L, p, N) == 2 * hi * P * s + s * (P * V + F * W) >= 2 * F * (L * s + p * N)

(* A region of a picture in a new frame of F pixels for V units: from lo   *)
(* on it shows pixel p of the picture, and up to hi it shows the pixels    *)
(* before p.                                                               *)
LEMMA StartIsShown ==
  ASSUME NEW A, NEW D, NEW L, NEW N, NEW P, NEW W, Framed(A, D, L, N, P, W),
         NEW s \in Nat, NEW p \in Nat, NEW F \in Nat, NEW V \in Nat, NEW lo \in Int, NEW a \in Int,
         p <= s, s * a <= s * A + p * D, Near(V, lo, a, F)
  PROVE  ShowsFrom(lo, F, V, P, W, s, L, p, N)
  <1>a. /\ A \in Int /\ D \in Int /\ L \in Int /\ N \in Int /\ P \in Nat /\ W \in Nat
        /\ -W <= 2 * L - 2 * A * P /\ -W <= 2 * (L + N) - 2 * (A + D) * P
    BY DEF Framed, Near
  <1>b. 2 * lo <= 2 * (a * F) + V
    <2>1. 2 * lo - 2 * a * F <= V
      BY DEF Near
    <2> QED
      BY <1>a, <2>1
  <1> SUFFICES 2 * lo * P * s - s * (P * V + F * W) <= 2 * F * (L * s + p * N)
    BY DEF ShowsFrom
  <1> USE <1>a, <1>b
  <1> DEFINE l == 2 * L - 2 * A * P
             h == 2 * (L + N) - 2 * (A + D) * P
             X == 2 * (L * s + p * N)
             Z == A * s + p * D
  <1>1. X = 2 * (P * Z) + ((s - p) * l + p * h)
    BY PixelPlace
  <1>2. l \in Int /\ h \in Int /\ X \in Int /\ Z \in Int /\ -W <= l /\ -W <= h
    OBVIOUS
  <1>3. 2 * lo * P * s - s * (P * V + F * W) = (P * s) * (2 * lo) - s * (P * V + F * W)
    OBVIOUS
  <1>4. 2 * F * (L * s + p * N) = F * X
    OBVIOUS
  <1>5. s * a <= Z
    OBVIOUS
  <1> HIDE DEF l, h, X, Z
  <1>6. (P * s) * (2 * lo) <= (P * s) * (2 * (a * F) + V)
    <2>1. P * s \in Nat /\ 2 * lo \in Int /\ 2 * (a * F) + V \in Int
      OBVIOUS
    <2> QED
      BY <2>1, TimesKeeps
  <1>7. (P * s) * (2 * (a * F) + V) - s * (P * V + F * W) = F * (2 * (P * (s * a)) - W * s)
    OBVIOUS
  <1>8. P * (s * a) <= P * Z
    BY <1>2, <1>5
  <1>9. -((s - p) * W) <= (s - p) * l /\ -(p * W) <= p * h
    <2>1. s - p \in Nat
      OBVIOUS
    <2> QED
      BY <1>2, <2>1, TimesKeeps
  <1>10. 2 * (P * (s * a)) - W * s <= X
    <2>1. (s - p) * W + p * W = W * s
      OBVIOUS
    <2> QED
      BY <1>1, <1>2, <1>8, <1>9, <2>1
  <1>11. F * (2 * (P * (s * a)) - W * s) <= F * X
    BY <1>2, <1>10
  <1> QED
    BY <1>2, <1>3, <1>4, <1>6, <1>7, <1>11

LEMMA EndIsShown ==
  ASSUME NEW A, NEW D, NEW L, NEW N, NEW P, NEW W, Framed(A, D, L, N, P, W),
         NEW s \in Nat, NEW p \in Nat, NEW F \in Nat, NEW V \in Nat, NEW hi \in Int, NEW b \in Int,
         p <= s, s * b >= s * A + p * D, Near(V, hi, b, F)
  PROVE  ShowsTo(hi, F, V, P, W, s, L, p, N)
  <1>a. /\ A \in Int /\ D \in Int /\ L \in Int /\ N \in Int /\ P \in Nat /\ W \in Nat
        /\ 2 * L - 2 * A * P <= W /\ 2 * (L + N) - 2 * (A + D) * P <= W
    BY DEF Framed, Near
  <1>b. 2 * hi >= 2 * (b * F) - V
    <2>1. -V <= 2 * hi - 2 * b * F
      BY DEF Near
    <2> QED
      BY <1>a, <2>1
  <1> SUFFICES 2 * hi * P * s + s * (P * V + F * W) >= 2 * F * (L * s + p * N)
    BY DEF ShowsTo
  <1> USE <1>a, <1>b
  <1> DEFINE l == 2 * L - 2 * A * P
             h == 2 * (L + N) - 2 * (A + D) * P
             X == 2 * (L * s + p * N)
             Z == A * s + p * D
  <1>1. X = 2 * (P * Z) + ((s - p) * l + p * h)
    BY PixelPlace
  <1>2. l \in Int /\ h \in Int /\ X \in Int /\ Z \in Int /\ l <= W /\ h <= W
    OBVIOUS
  <1>3. 2 * hi * P * s + s * (P * V + F * W) = (P * s) * (2 * hi) + s * (P * V + F * W)
    OBVIOUS
  <1>4. 2 * F * (L * s + p * N) = F * X
    OBVIOUS
  <1>5. Z <= s * b
    OBVIOUS
  <1> HIDE DEF l, h, X, Z
  <1>6. (P * s) * (2 * (b * F) - V) <= (P * s) * (2 * hi)
    <2>1. P * s \in Nat /\ 2 * hi \in Int /\ 2 * (b * F) - V \in Int
      OBVIOUS
    <2> QED
      BY <2>1, TimesKeeps
  <1>7. (P * s) * (2 * (b * F) - V) + s * (P * V + F * W) = F * (2 * (P * (s * b)) + W * s)
    OBVIOUS
  <1>8. P * Z <= P * (s * b)
    BY <1>2, <1>5
  <1>9. (s - p) * l <= (s - p) * W /\ p * h <= p * W
    <2>1. s - p \in Nat
      OBVIOUS
    <2> QED
      BY <1>2, <2>1, TimesKeeps
  <1>10. X <= 2 * (P * (s * b)) + W * s
    <2>1. (s - p) * W + p * W = W * s
      OBVIOUS
    <2> QED
      BY <1>1, <1>2, <1>8, <1>9, <2>1
  <1>11. F * X <= F * (2 * (P * (s * b)) + W * s)
    BY <1>2, <1>10
  <1> QED
    BY <1>2, <1>3, <1>4, <1>6, <1>7, <1>11

(* A place of a picture of everything, rendered at num/den and cropped at  *)
(* the same ratio.                                                         *)
LEMMA ScaledIsNear ==
  ASSUME NEW x \in Nat, NEW n \in Nat, NEW d \in Nat \ {0}, NEW num \in Nat, NEW den \in Nat \ {0},
         n * den = num * d
  PROVE  Near(den, C!Rounded(x * n, d) * den, x, num)
  <1> DEFINE q == C!Rounded(x * n, d)
             e == 2 * (q * den) - 2 * x * num
  <1>1. x * n \in Nat
    BY Products
  <1>2. q \in Nat /\ 2 * d * q <= 2 * (x * n) + d /\ 2 * d * q > 2 * (x * n) - d
    BY <1>1, RoundedIsNear
  <1> HIDE DEF q
  <1>3. d * e = den * (2 * d * q - 2 * (x * n))
    <2>1. d * (2 * (q * den) - 2 * x * num) = den * (2 * d * q) - 2 * x * (num * d)
      BY <1>2
    <2>2. den * (2 * d * q - 2 * (x * n)) = den * (2 * d * q) - 2 * x * (n * den)
      BY <1>2
    <2> QED
      BY <2>1, <2>2
  <1>4. e \in Int
    BY <1>2
  <1>5. d * (-den) <= d * e /\ d * e <= d * den
    <2> DEFINE y == 2 * d * q - 2 * (x * n)
    <2>1. y \in Int /\ -d <= y /\ y <= d
      BY <1>1, <1>2
    <2> HIDE DEF y
    <2>2. den * (-d) <= den * y /\ den * y <= den * d
      BY <2>1, TimesKeeps
    <2>3. den * (-d) = d * (-den) /\ den * d = d * den
      OBVIOUS
    <2> QED
      BY <1>3, <2>2, <2>3 DEF y
  <1> HIDE DEF e
  <1>6. -den <= e /\ e <= den
    <2>1. \A u, v \in Int : u + 1 <= v => d * u + d <= d * v
      <3> SUFFICES ASSUME NEW u \in Int, NEW v \in Int, u + 1 <= v PROVE d * u + d <= d * v
        OBVIOUS
      <3>1. d * (u + 1) <= d * v
        BY TimesKeeps
      <3> QED
        BY <3>1
    <2>2. d * e \in Int /\ d * den \in Int /\ d * (-den) \in Int
      BY <1>4
    <2> QED
      BY <1>4, <1>5, <2>1, <2>2
  <1> QED
    BY <1>6 DEF Near, e, q

(* One rendered at num/den that is as wide as the desktop is taken to have *)
(* a pixel for a unit, and is as good as that.                             *)
LEMMA UnscaledIsNear ==
  ASSUME NEW x \in Nat, NEW E \in Nat, x <= E, NEW num \in Nat, NEW den \in Nat \ {0},
         C!Rounded(E * num, den) = E
  PROVE  Near(den, x * den, x, num)
  <1>1. E * num \in Nat
    BY Products
  <1>2. 2 * den * E <= 2 * (E * num) + den /\ 2 * den * E > 2 * (E * num) - den
    BY <1>1, RoundedIsNear
  <1> DEFINE g == 2 * den - 2 * num
  <1>3. 2 * (x * den) - 2 * x * num = x * g /\ 2 * den * E - 2 * (E * num) = E * g /\ g \in Int
    OBVIOUS
  <1> HIDE DEF g
  <1>4. -den <= E * g /\ E * g <= den
    BY <1>1, <1>2, <1>3
  <1>5. CASE g >= 0
    <2>1. g * x <= g * E /\ g * 0 <= g * x
      BY <1>3, <1>5, TimesKeeps
    <2> QED
      BY <1>3, <1>4, <2>1 DEF Near
  <1>6. CASE g < 0
    <2>1. (-g) * x <= (-g) * E /\ (-g) * 0 <= (-g) * x
      BY <1>3, <1>6, TimesKeeps
    <2> QED
      BY <1>3, <1>4, <2>1 DEF Near
  <1> QED
    BY <1>3, <1>5, <1>6
-----------------------------------------------------------------------------
(* What the layouts are, as the assumption says.                           *)
LEMMA LayoutFacts ==
  /\ CACHE_TTL \in Nat \ {0} /\ MinEdge \in Nat \ {0} /\ MaxChanges \in Nat
  /\ \A e \in LongEdges : e \in Nat
  /\ \A l \in Layouts : \A o \in l : o \in C!Outputs
  /\ \A o \in C!Outputs : o.x \in Nat /\ o.w \in Nat \ {0} /\ o.num \in Nat \ {0} /\ o.den \in Nat \ {0}
  /\ \A l \in Layouts : \A o, p \in l : o.port = p.port => o = p
  /\ \A l \in Layouts : \E far \in l : \A o \in l : o.x + o.w <= far.x + far.w
  BY PointsAssumption DEF C!CoordinatesAssumption, C!Outputs

(* A place of the desktop is on one output at most.                        *)
LEMMA OneOutput ==
  ASSUME NEW l \in Layouts, NEW o \in l, NEW p \in l, NEW x \in Int,
         o.x <= x, x < o.x + o.w, p.x <= x, x < p.x + p.w
  PROVE  o = p
  <1>1. o.x \in Nat /\ o.w \in Nat /\ p.x \in Nat /\ p.w \in Nat
    BY LayoutFacts
  <1>2. o # p => (o.x <= p.x => o.x + o.w <= p.x) /\ (p.x <= o.x => p.x + p.w <= o.x)
    BY PointsAssumption DEF C!CoordinatesAssumption
  <1> QED
    BY <1>1, <1>2

(* The canvas reaches to the right end of every output.                    *)
LEMMA CanvasReaches ==
  ASSUME NEW l \in Layouts, NEW o \in l
  PROVE  C!canvas_size(l) \in Nat /\ o.x + o.w <= C!canvas_size(l)
  <1> DEFINE S == {p.x + p.w : p \in l}
  <1>1. PICK far \in l : \A p \in l : p.x + p.w <= far.x + far.w
    BY LayoutFacts
  <1>2. S \subseteq Nat
    BY LayoutFacts
  <1>3. far.x + far.w \in S /\ \A y \in S : far.x + far.w >= y
    BY <1>1
  <1> HIDE DEF S
  <1>4. C!Max(S) \in S /\ \A y \in S : C!Max(S) >= y
    BY <1>3 DEF C!Max
  <1>5. o.x + o.w \in S /\ C!canvas_size(l) = C!Max(S)
    BY DEF S, C!canvas_size
  <1> QED
    BY <1>2, <1>4, <1>5

(* r is a box inside one output.                                           *)
BoxOK(r) ==
    /\ r.lo \in Nat /\ r.hi \in Nat /\ r.lo < r.hi
    /\ r.home \in C!Outputs /\ r.home.x <= r.lo /\ r.hi <= r.home.x + r.home.w

(* The picture s is of a part of the output o, and shows what t says.      *)
IsOf(s, t, o) ==
    /\ o.port = s.port /\ o.serial = s.serial
    /\ [x |-> o.x, w |-> o.w, num |-> o.num, den |-> o.den, primary |-> o.primary] \in s.topology
    /\ s.offset \in Nat /\ s.desktop \in Nat \ {0}
    /\ o.x <= s.offset /\ s.offset + s.desktop <= o.x + o.w
    /\ s.size \in Nat /\ s.scaled \in 1..s.size /\ t.scaled = s.scaled /\ t.size = s.size
    /\ t.steady => /\ t.id = o.id /\ t.port = o.port /\ t.serial = o.serial
                   /\ t.w \in Nat /\ t.per \in Nat /\ t.lo \in Int
                   /\ Near(t.w, t.lo, s.offset - o.x, t.per)
                   /\ Near(t.w, t.lo + t.size * t.w, s.offset - o.x + s.desktop, t.per)

(* The box r covers what was asked for of the picture s, on its output.    *)
Covers(r, s, t) ==
    /\ s # None
    /\ r.want[1] \in Nat /\ r.want[2] \in Nat /\ r.want[1] <= s.scaled /\ r.want[2] <= s.scaled
    /\ r.lo = s.offset + (r.want[1] * s.desktop) \div s.scaled
    /\ r.hi = s.offset + C!Ceil(r.want[2] * s.desktop, s.scaled)
    /\ \E o \in C!Outputs : IsOf(s, t, o) /\ r.home.x = o.x /\ r.home.w = o.w
    /\ t.steady => C!Same(r.home, t)

ShotOK(s, t) == \E o \in C!Outputs : IsOf(s, t, o)

JobOK(j, s, t) ==
    /\ j.table \in Layouts /\ j.target \in j.table /\ j.edge \in LongEdges
    /\ j.region # None => BoxOK(j.region) /\ j.region.home.x = j.target.x /\ j.region.home.w = j.target.w
    /\ j.of # None => j.of = t /\ j.region # None /\ Covers(j.region, s, t)

ClickOK(c, s) ==
    /\ s # None /\ c.table \in Layouts /\ C!Current(c.table)
    /\ c.pixel \in 0..(s.scaled - 1) /\ c.point = C!ToGlobal(c.pixel)

(* One thing at a time, and what holds of each.                            *)
PointsTypes ==
    /\ layout \in Layouts /\ cache \in [table : Layouts, age : 0..CACHE_TTL] /\ changes \in 0..MaxChanges
    /\ job # None => region = None
    /\ click # None => job = None /\ region = None

RegionInv == region # None => BoxOK(region) /\ (region.want # <<>> => Covers(region, shot, taken))
JobInv == job # None => JobOK(job, shot, taken)
ShotInv == shot # None => ShotOK(shot, taken)
WholeInv == taken # None /\ taken.steady => taken.whole
ClickInv == click # None => ClickOK(click, shot)

PointsInv == PointsTypes /\ RegionInv /\ JobInv /\ ShotInv /\ WholeInv /\ ClickInv

(* list_monitors gives a layout, and so does its cache after it.           *)
LEMMA ListIsLayout ==
  ASSUME PointsTypes
  PROVE  C!List \in Layouts /\ (C!Listed => cache' \in [table : Layouts, age : 0..CACHE_TTL])
  <1>1. CACHE_TTL \in Nat
    BY LayoutFacts
  <1>2. [table |-> layout, age |-> 0] \in [table : Layouts, age : 0..CACHE_TTL]
    BY <1>1 DEF PointsTypes
  <1> QED
    BY <1>2 DEF PointsTypes, C!List, C!Listed

(* p is at the place of o, and is the output the picture t is of, as far   *)
(* as it can be told.                                                      *)
InPlaceOf(p, o, t, table) ==
    /\ p.x = o.x /\ p.w = o.w
    /\ t.steady => C!Same(p, t) /\ ((\E q \in table \ {p} : q.serial = t.serial) => p.port = t.port)

(* A picture that is current is of an output of the layout, at its place.  *)
LEMMA CurrentFinds ==
  ASSUME NEW o \in C!Outputs, NEW table \in Layouts, IsOf(shot, taken, o), C!Current(table)
  PROVE  \E p \in table : InPlaceOf(p, o, taken, table)
  <1>1. o.x \in Nat /\ o.w \in Nat
    BY LayoutFacts
  <1>2. shot.offset \in Int /\ o.x <= shot.offset /\ shot.offset < o.x + o.w
    <2>1. /\ shot.offset \in Nat /\ shot.desktop \in Nat \ {0}
          /\ o.x <= shot.offset /\ shot.offset + shot.desktop <= o.x + o.w
      BY DEF IsOf
    <2> QED
      BY <1>1, <2>1
  <1>3. PICK q \in table : q.x = o.x /\ q.w = o.w
    <2>1. [x |-> o.x, w |-> o.w, num |-> o.num, den |-> o.den, primary |-> o.primary] \in C!topology_id(table)
      BY DEF IsOf, C!Current
    <2>2. PICK q \in table : [x |-> o.x, w |-> o.w, num |-> o.num, den |-> o.den, primary |-> o.primary]
                           = [x |-> q.x, w |-> q.w, num |-> q.num, den |-> q.den, primary |-> q.primary]
      BY <2>1 DEF C!topology_id
    <2>3. q.x = o.x /\ q.w = o.w
      BY <2>2
    <2> QED
      BY <2>3
  <1>4. PICK here \in C!find_monitor(shot.offset, table) :
           LET same == {u \in table : u.serial = shot.serial}
           IN  IF shot.serial = C!NoSerial THEN here.port = shot.port
               ELSE \/ same = {here}
                    \/ here \in same /\ here.port = shot.port
    BY DEF C!Current, C!OutputMatches
  <1>5. here \in table /\ here.x <= shot.offset /\ shot.offset < here.x + here.w
    BY <1>4 DEF C!find_monitor
  <1>6. here = q
    BY <1>2, <1>3, <1>5, OneOutput
  <1>7. here \in C!Outputs
    BY <1>5, LayoutFacts
  <1>8. ASSUME taken.steady
        PROVE  /\ C!Same(here, taken)
               /\ (\E u \in table \ {here} : u.serial = taken.serial) => here.port = taken.port
    <2>1. /\ taken.id = o.id /\ taken.port = o.port /\ taken.serial = o.serial
          /\ shot.port = o.port /\ shot.serial = o.serial
      BY <1>8 DEF IsOf
    <2>2. CASE shot.serial = C!NoSerial
      BY <1>4, <2>1, <2>2 DEF C!Same, C!CanBeTold
    <2>3. CASE shot.serial # C!NoSerial
      <3>1. here.serial = shot.serial
        BY <1>4, <1>5, <2>3
      <3>2. C!CanBeTold(taken.serial) => here.id = taken.id
        BY <1>7, <2>1, <3>1 DEF C!CanBeTold
      <3>3. ASSUME NEW u \in table \ {here}, u.serial = shot.serial
            PROVE  here.port = shot.port
        BY <1>4, <2>3, <3>3
      <3> QED
        BY <2>1, <2>3, <3>2, <3>3 DEF C!Same
    <2> QED
      BY <2>2, <2>3
  <1>9. InPlaceOf(here, o, taken, table)
    BY <1>3, <1>6, <1>8 DEF InPlaceOf
  <1> QED
    BY <1>5, <1>9

(* A region of the picture is on the output the picture is of, and covers  *)
(* the pixels asked for.                                                   *)
LEMMA RegionOfShotKeeps == PointsInv /\ C!RegionOfShot => PointsInv'
  <1> SUFFICES ASSUME PointsInv, C!RegionOfShot PROVE PointsInv'
    OBVIOUS
  <1>0. PointsTypes /\ RegionInv /\ JobInv /\ ShotInv /\ WholeInv /\ ClickInv
    BY DEF PointsInv
  <1>1. /\ shot # None /\ region = None /\ job = None /\ click = None /\ C!Listed /\ C!Current(C!List)
        /\ UNCHANGED <<layout, job, shot, taken, click, changes>>
    BY DEF C!RegionOfShot
  <1>2. PICK from \in 0..(shot.scaled - 1), to \in 1..shot.scaled :
           C!Region(shot.offset + (from * shot.desktop) \div shot.scaled,
                    shot.offset + C!Ceil(to * shot.desktop, shot.scaled), C!List, <<from, to>>)
    BY DEF C!RegionOfShot
  <1> DEFINE lo == shot.offset + (from * shot.desktop) \div shot.scaled
             hi == shot.offset + C!Ceil(to * shot.desktop, shot.scaled)
             new(home) == [lo |-> lo, hi |-> hi, home |-> home, want |-> <<from, to>>]
  <1>3. PICK home \in C!find_monitor(lo, C!List) :
           hi - lo > 0 /\ hi <= home.x + home.w /\ region' = new(home)
    BY <1>2 DEF C!Region
  <1>4. home \in C!List /\ home.x <= lo /\ lo < home.x + home.w
    BY <1>3 DEF C!find_monitor
  <1>5. C!List \in Layouts /\ cache' \in [table : Layouts, age : 0..CACHE_TTL]
    BY <1>0, <1>1, ListIsLayout
  <1>6. PICK o \in C!Outputs : IsOf(shot, taken, o)
    BY <1>0, <1>1 DEF ShotInv, ShotOK
  <1>7. /\ shot.offset \in Nat /\ shot.desktop \in Nat \ {0} /\ shot.size \in Nat /\ shot.scaled \in 1..shot.size
        /\ o.x <= shot.offset /\ shot.offset + shot.desktop <= o.x + o.w
    BY <1>6 DEF IsOf
  <1>8. /\ shot.scaled \in Nat \ {0} /\ from \in Nat /\ to \in Nat /\ from < shot.scaled /\ to <= shot.scaled
        /\ from * shot.desktop \in Nat /\ to * shot.desktop \in Nat
    <2>1. shot.scaled \in Nat \ {0} /\ from \in Nat /\ to \in Nat /\ from < shot.scaled /\ to <= shot.scaled
      BY <1>7
    <2> QED
      BY <1>7, <2>1, Products
  <1>9. /\ (from * shot.desktop) \div shot.scaled \in Nat /\ C!Ceil(to * shot.desktop, shot.scaled) \in Nat
        /\ shot.scaled * ((from * shot.desktop) \div shot.scaled) <= from * shot.desktop
    BY <1>8, DivIsBelow, CeilIsAbove
  <1>10. (from * shot.desktop) \div shot.scaled < shot.desktop
    <2>1. \A q \in Nat : q >= shot.desktop => shot.scaled * q > from * shot.desktop
      <3>1. \A q \in Nat : q >= shot.desktop => shot.scaled * q >= shot.scaled * shot.desktop
        BY <1>7, <1>8, TimesKeeps
      <3>2. shot.scaled * shot.desktop > from * shot.desktop
        BY <1>7, <1>8
      <3>3. shot.scaled * shot.desktop \in Nat
        BY <1>7, <1>8, Products
      <3>4. \A q \in Nat : shot.scaled * q \in Nat
        BY <1>8, Products
      <3> QED
        BY <1>8, <3>1, <3>2, <3>3, <3>4
    <2>2. \A q \in Nat : shot.scaled * q \in Nat
      BY <1>8, Products
    <2> QED
      BY <1>7, <1>8, <1>9, <2>1, <2>2
  <1>11. lo \in Nat /\ hi \in Nat /\ shot.offset <= lo /\ lo < shot.offset + shot.desktop
    BY <1>7, <1>9, <1>10
  <1>12. PICK p \in C!List : p.x = o.x /\ p.w = o.w /\ (taken.steady => C!Same(p, taken))
    <2>1. \E p \in C!List : InPlaceOf(p, o, taken, C!List)
      BY <1>1, <1>5, <1>6, CurrentFinds
    <2> QED
      BY <2>1 DEF InPlaceOf
  <1>13. home = p
    <2>1. o.x \in Nat /\ o.w \in Nat
      BY LayoutFacts
    <2>2. p.x <= lo /\ lo < p.x + p.w
      BY <1>7, <1>11, <1>12, <2>1
    <2> QED
      BY <1>4, <1>5, <1>11, <2>2, OneOutput
  <1>14. IsOf(shot, taken, o) /\ home.x = o.x /\ home.w = o.w /\ (taken.steady => C!Same(home, taken))
    BY <1>6, <1>12, <1>13
  <1>15. home \in C!Outputs
    BY <1>4, <1>5, LayoutFacts
  <1> HIDE DEF lo, hi
  <1>16. BoxOK(new(home))
    BY <1>3, <1>4, <1>11, <1>15 DEF BoxOK
  <1>17. Covers(new(home), shot, taken)
    <2>1. new(home).want[1] = from /\ new(home).want[2] = to /\ new(home).home = home
      OBVIOUS
    <2> QED
      BY <1>1, <1>8, <1>14, <2>1 DEF Covers, lo, hi
  <1>18. RegionInv'
    BY <1>1, <1>3, <1>16, <1>17 DEF RegionInv
  <1> QED
    BY <1>0, <1>1, <1>5, <1>18 DEF PointsInv, PointsTypes, JobInv, ShotInv, WholeInv, ClickInv, ClickOK,
       JobOK, C!Current, C!OutputMatches, C!ToGlobal

(* A region of the canvas.                                                 *)
LEMMA RegionOfCanvasKeeps == PointsInv /\ C!RegionOfCanvas => PointsInv'
  <1> SUFFICES ASSUME PointsInv, C!RegionOfCanvas PROVE PointsInv'
    OBVIOUS
  <1>0. PointsTypes /\ RegionInv /\ JobInv /\ ShotInv /\ WholeInv /\ ClickInv
    BY DEF PointsInv
  <1>1. /\ region = None /\ job = None /\ click = None /\ C!Listed
        /\ UNCHANGED <<layout, job, shot, taken, click, changes>>
    BY DEF C!RegionOfCanvas
  <1>a. PICK o \in C!List : \E lo \in o.x..(o.x + o.w) : C!Region(lo, lo + MinEdge, C!List, <<>>)
    BY DEF C!RegionOfCanvas
  <1>2. PICK lo \in o.x..(o.x + o.w) : C!Region(lo, lo + MinEdge, C!List, <<>>)
    BY <1>a
  <1>3. PICK home \in C!find_monitor(lo, C!List) :
           /\ lo + MinEdge <= home.x + home.w
           /\ region' = [lo |-> lo, hi |-> lo + MinEdge, home |-> home, want |-> <<>>]
    BY <1>2 DEF C!Region
  <1>4. C!List \in Layouts /\ cache' \in [table : Layouts, age : 0..CACHE_TTL]
    BY <1>0, <1>1, ListIsLayout
  <1>5. home \in C!Outputs /\ home.x <= lo
    BY <1>3, <1>4, LayoutFacts DEF C!find_monitor
  <1>6. lo \in Nat /\ MinEdge \in Nat \ {0}
    BY <1>2, <1>4, LayoutFacts
  <1>7. BoxOK(region')
    BY <1>3, <1>5, <1>6 DEF BoxOK
  <1>8. ~(region'.want # <<>>)
    BY <1>3
  <1>9. RegionInv'
    BY <1>7, <1>8 DEF RegionInv
  <1> QED
    BY <1>0, <1>1, <1>4, <1>9 DEF PointsInv, PointsTypes, JobInv, ShotInv, WholeInv, ClickInv

(* A capture starts, of the region if there is one.                        *)
LEMMA StartKeeps ==
  ASSUME PointsInv, NEW path, NEW edge \in LongEdges, C!Start(path, edge)
  PROVE  PointsInv'
  <1>0. PointsTypes /\ RegionInv /\ JobInv /\ ShotInv /\ WholeInv /\ ClickInv
    BY DEF PointsInv
  <1>1. /\ job = None /\ click = None /\ C!Listed /\ region' = None
        /\ UNCHANGED <<layout, shot, taken, click, changes>>
    BY DEF C!Start
  <1>2. PICK target \in C!List :
          /\ region # None => [x |-> target.x, w |-> target.w] = [x |-> region.home.x, w |-> region.home.w]
          /\ job' = [path |-> path, edge |-> edge, table |-> C!List, target |-> target, region |-> region,
                     of |-> IF region # None /\ region.want # <<>> THEN taken ELSE None]
    BY DEF C!Start
  <1>3. C!List \in Layouts /\ cache' \in [table : Layouts, age : 0..CACHE_TTL]
    BY <1>0, <1>1, ListIsLayout
  <1>4. region # None => BoxOK(region) /\ region.home.x = target.x /\ region.home.w = target.w
    BY <1>0, <1>2 DEF RegionInv
  <1>5. job'.of # None => job'.of = taken /\ region # None /\ Covers(region, shot, taken)
    BY <1>0, <1>2 DEF RegionInv
  <1>6. /\ job'.table = C!List /\ job'.target = target /\ job'.edge = edge /\ job'.region = region
    BY <1>2
  <1>7. JobOK(job', shot, taken)
    BY <1>3, <1>4, <1>5, <1>6 DEF JobOK
  <1>8. JobInv' /\ RegionInv'
    BY <1>1, <1>7 DEF JobInv, RegionInv
  <1> QED
    BY <1>0, <1>1, <1>3, <1>8 DEF PointsInv, PointsTypes, ShotInv, WholeInv, ClickInv

(* A pixel is clicked.                                                     *)
LEMMA ClickKeeps == PointsInv /\ C!Click => PointsInv'
  <1> SUFFICES ASSUME PointsInv, C!Click PROVE PointsInv'
    OBVIOUS
  <1>0. PointsTypes /\ RegionInv /\ JobInv /\ ShotInv /\ WholeInv /\ ClickInv
    BY DEF PointsInv
  <1>1. /\ shot # None /\ click = None /\ job = None /\ region = None /\ C!Listed /\ C!Current(C!List)
        /\ UNCHANGED <<layout, region, job, shot, taken, changes>>
    BY DEF C!Click
  <1>2. PICK pixel \in 0..(shot.scaled - 1) :
           click' = [point |-> C!ToGlobal(pixel), table |-> C!List, pixel |-> pixel, looked |-> FALSE]
    BY DEF C!Click
  <1>c. PICK c : c = click'
    OBVIOUS
  <1>3. C!List \in Layouts /\ cache' \in [table : Layouts, age : 0..CACHE_TTL]
    BY <1>0, <1>1, ListIsLayout
  <1>4. ClickOK(c, shot)
    BY <1>1, <1>2, <1>3, <1>c DEF ClickOK
  <1>5. ClickOK(c, shot)'
    BY <1>1, <1>4 DEF ClickOK, C!Current, C!OutputMatches, C!ToGlobal
  <1>6. ClickInv'
    BY <1>5, <1>c DEF ClickInv
  <1> QED
    BY <1>0, <1>1, <1>3, <1>6 DEF PointsInv, PointsTypes, RegionInv, JobInv, ShotInv, WholeInv

(* Its point is looked up once more.                                       *)
LEMMA OnAMonitorKeeps == PointsInv /\ C!OnAMonitor => PointsInv'
  <1> SUFFICES ASSUME PointsInv, C!OnAMonitor PROVE PointsInv'
    OBVIOUS
  <1>0. PointsTypes /\ RegionInv /\ JobInv /\ ShotInv /\ WholeInv /\ ClickInv
    BY DEF PointsInv
  <1>1. /\ click # None /\ click' = [click EXCEPT !.looked = TRUE] /\ (C!Listed \/ UNCHANGED cache)
        /\ UNCHANGED <<layout, region, job, shot, taken, changes>>
    BY DEF C!OnAMonitor
  <1>2. cache' \in [table : Layouts, age : 0..CACHE_TTL]
    BY <1>0, <1>1, ListIsLayout DEF PointsTypes
  <1>3. click'.table = click.table /\ click'.pixel = click.pixel /\ click'.point = click.point
    BY <1>1
  <1>c. PICK c : c = click'
    OBVIOUS
  <1>4. ClickOK(c, shot)
    BY <1>0, <1>1, <1>3, <1>c DEF ClickInv, ClickOK
  <1>5. ClickOK(c, shot)'
    BY <1>1, <1>4 DEF ClickOK, C!Current, C!OutputMatches, C!ToGlobal
  <1>6. ClickInv'
    BY <1>5, <1>c DEF ClickInv
  <1> QED
    BY <1>0, <1>1, <1>2, <1>6 DEF PointsInv, PointsTypes, RegionInv, JobInv, ShotInv, WholeInv

(* The steps that disturb none of this.                                    *)
LEMMA OthersKeep ==
  ASSUME PointsInv,
         \/ \E l \in Layouts : C!Change(l)
         \/ C!Tick \/ C!LayoutChanged \/ C!NoFrame \/ C!OffTheMonitors \/ C!Act
         \/ UNCHANGED pointvars
  PROVE  PointsInv'
  <1>0. PointsTypes /\ RegionInv /\ JobInv /\ ShotInv /\ WholeInv /\ ClickInv
    BY DEF PointsInv
  <1>1. UNCHANGED <<shot, taken>>
    BY DEF C!Change, C!Tick, C!LayoutChanged, C!NoFrame, C!OffTheMonitors, C!Act, pointvars
  <1>2. /\ region' = region \/ region' = None
        /\ job' = job \/ job' = None
        /\ click' = click \/ click' = None
    BY DEF C!Change, C!Tick, C!LayoutChanged, C!NoFrame, C!OffTheMonitors, C!Act, pointvars
  <1>3. PointsTypes'
    <2>1. CASE \E l \in Layouts : C!Change(l)
      BY <1>0, <2>1, LayoutFacts DEF PointsTypes, C!Change
    <2>2. CASE C!Tick
      BY <1>0, <2>2, LayoutFacts DEF PointsTypes, C!Tick
    <2>3. CASE C!LayoutChanged
      BY <1>0, <2>3, ListIsLayout DEF PointsTypes, C!LayoutChanged
    <2>4. CASE C!NoFrame \/ C!Act \/ UNCHANGED pointvars
      BY <1>0, <2>4 DEF PointsTypes, C!NoFrame, C!Act, pointvars
    <2>5. CASE C!OffTheMonitors
      BY <1>0, <2>5, ListIsLayout DEF PointsTypes, C!OffTheMonitors
    <2> QED
      BY <2>1, <2>2, <2>3, <2>4, <2>5
  <1>4. RegionInv' /\ JobInv' /\ ShotInv' /\ WholeInv'
    BY <1>0, <1>1, <1>2 DEF RegionInv, JobInv, ShotInv, WholeInv
  <1>5. ClickInv'
    BY <1>0, <1>1, <1>2 DEF ClickInv, ClickOK, C!Current, C!OutputMatches, C!ToGlobal
  <1> QED
    BY <1>3, <1>4, <1>5 DEF PointsInv

(* A frame is written.  If the layout is the one of the table, it is of    *)
(* the target, and its box is the one asked for, to half a pixel.          *)
LEMMA RecordKeeps ==
  ASSUME PointsInv, job # None, NEW out, NEW per \in Nat, NEW w \in Nat, NEW left \in Int, NEW lo \in Int, NEW hi \in Int,
         C!Record(out, per, w, left, lo, hi), UNCHANGED <<layout, region, click, changes>>,
         cache' \in [table : Layouts, age : 0..CACHE_TTL],
         NEW from \in Int, from = IF job.region = None THEN job.target.x ELSE job.region.lo,
         NEW to \in Int, to = IF job.region = None THEN job.target.x + job.target.w ELSE job.region.hi,
         job.table = layout => /\ out = job.target
                               /\ Near(w, lo * w - left, from - out.x, per)
                               /\ Near(w, hi * w - left, to - out.x, per)
  PROVE  PointsInv'
  <1>0. PointsTypes /\ RegionInv /\ JobInv /\ ShotInv /\ WholeInv /\ ClickInv
    BY DEF PointsInv
  <1> DEFINE steady == job.table = layout /\ (job.region = None \/ job.region.home \in layout)
             target == job.target
             first == lo * w - left
             until == hi * w - left
  <1>1. /\ lo < hi
        /\ shot' = [offset |-> from, desktop |-> to - from, size |-> hi - lo,
                    scaled |-> C!Scaled(hi - lo, job.edge), topology |-> C!topology_id(job.table),
                    port |-> target.port, serial |-> target.serial]
        /\ taken' = [id |-> out.id, port |-> out.port, serial |-> out.serial,
                     per |-> per, w |-> w, lo |-> first, size |-> hi - lo,
                     scaled |-> C!Scaled(hi - lo, job.edge), steady |-> steady,
                     whole |-> C!Shows(out, per, w, first, until)]
        /\ job' = None
    BY DEF C!Record
  <1>2. JobOK(job, shot, taken)
    BY <1>0 DEF JobInv
  <1>3. /\ job.table \in Layouts /\ target \in job.table /\ target \in C!Outputs /\ job.edge \in Nat
        /\ target.x \in Nat /\ target.w \in Nat \ {0}
    <2>1. job.table \in Layouts /\ target \in job.table /\ job.edge \in LongEdges
      BY <1>2 DEF JobOK
    <2>2. target \in C!Outputs
      BY <2>1, LayoutFacts
    <2> QED
      BY <2>1, <2>2, LayoutFacts
  <1>4. from \in Nat /\ from < to /\ target.x <= from /\ to <= target.x + target.w
    <2>1. CASE job.region = None
      BY <1>3, <2>1
    <2>2. CASE job.region # None
      <3>1. from = job.region.lo /\ to = job.region.hi
        BY <2>2
      <3> QED
        BY <1>2, <1>3, <2>2, <3>1 DEF JobOK, BoxOK
    <2> QED
      BY <2>1, <2>2
  <1>5. hi - lo \in Nat \ {0} /\ C!Scaled(hi - lo, job.edge) \in 1..(hi - lo)
    BY <1>1, <1>3 DEF C!Scaled
  <1>6. /\ shot'.port = target.port /\ shot'.serial = target.serial /\ shot'.offset = from /\ shot'.desktop = to - from
        /\ shot'.size = hi - lo /\ taken'.size = hi - lo /\ taken'.scaled = shot'.scaled
        /\ shot'.scaled = C!Scaled(hi - lo, job.edge) /\ shot'.topology = C!topology_id(job.table)
        /\ taken'.id = out.id /\ taken'.port = out.port /\ taken'.serial = out.serial
        /\ taken'.per = per /\ taken'.w = w /\ taken'.lo = first
        /\ taken'.steady = steady /\ taken'.whole = C!Shows(out, per, w, first, until)
    BY <1>1
  <1>7. [x |-> target.x, w |-> target.w, num |-> target.num, den |-> target.den, primary |-> target.primary]
          \in C!topology_id(job.table)
    BY <1>3 DEF C!topology_id
  <1>8. steady => /\ out = target /\ Near(w, first, from - target.x, per)
                  /\ Near(w, first + (hi - lo) * w, from - target.x + (to - from), per)
    <2>1. first + (hi - lo) * w = until /\ from - target.x + (to - from) = to - target.x
      BY <1>3
    <2> QED
      BY <2>1
  <1>9. PICK s, t : s = shot' /\ t = taken'
    OBVIOUS
  <1>10. IsOf(s, t, target)
    <2>1. to - from \in Nat \ {0} /\ from + (to - from) <= target.x + target.w
      BY <1>3, <1>4
    <2>2. first \in Int
      OBVIOUS
    <2> HIDE DEF steady, target, first
    <2> QED
      BY <1>4, <1>5, <1>6, <1>7, <1>8, <1>9, <2>1, <2>2 DEF IsOf
  <1>11. ShotOK(s, t)
    BY <1>3, <1>10 DEF ShotOK
  <1>12. ShotInv'
    BY <1>9, <1>11 DEF ShotInv
  <1>13. steady => C!Shows(out, per, w, first, until)
    <2> SUFFICES ASSUME steady, job.of # None, job.of.steady PROVE C!Shows(out, per, w, first, until)
      BY DEF C!Shows
    <2>1. job.of = taken /\ job.region # None /\ Covers(job.region, shot, taken)
      BY <1>2 DEF JobOK
    <2> DEFINE r == job.region
    <2>2. PICK o \in C!Outputs : IsOf(shot, taken, o) /\ r.home.x = o.x /\ r.home.w = o.w
      BY <2>1 DEF Covers
    <2>3. r.home = target
      <3>1. r.home \in layout /\ target \in layout /\ layout \in Layouts
        BY <1>2, <1>3, <2>1
      <3>2. r.home.x = target.x /\ r.home.w = target.w
        BY <1>2, <2>1 DEF JobOK
      <3>3. target.x < target.x + target.w
        BY <1>3
      <3> QED
        BY <1>3, <3>1, <3>2, <3>3, OneOutput
    <2> DEFINE W == taken.w
               A == shot.offset - target.x
               D == shot.desktop
               L == taken.lo
               M == taken.size
               N == M * W
               P == taken.per
               k == taken.scaled
               a == from - target.x
               b == to - target.x
    <2>4. o.x = target.x /\ out = target /\ C!Same(out, taken)
      BY <1>8, <2>1, <2>2, <2>3 DEF Covers
    <2>5. /\ A \in Int /\ D \in Nat /\ L \in Int /\ M \in Nat /\ N \in Nat /\ P \in Nat /\ W \in Nat
          /\ k \in Nat \ {0} /\ shot.offset \in Nat /\ shot.scaled = k
          /\ Near(W, L, A, P) /\ Near(W, L + N, A + D, P)
      <3>1. /\ shot.offset \in Nat /\ D \in Nat /\ shot.size \in Nat /\ shot.scaled \in 1..shot.size
            /\ k = shot.scaled /\ M = shot.size
            /\ P \in Nat /\ W \in Nat /\ L \in Int /\ Near(W, L, shot.offset - o.x, P)
            /\ Near(W, L + M * W, shot.offset - o.x + D, P)
        BY <2>1, <2>2 DEF IsOf
      <3>2. N \in Nat
        BY <3>1, Products
      <3> QED
        BY <1>3, <2>4, <3>1, <3>2
    <2>6. /\ r.want[1] \in Nat /\ r.want[2] \in Nat /\ r.want[1] <= k /\ r.want[2] <= k
          /\ from = shot.offset + (r.want[1] * D) \div k
          /\ to = shot.offset + C!Ceil(r.want[2] * D, k)
      BY <2>1, <2>5 DEF Covers
    <2>7. /\ r.want[1] * D \in Nat /\ r.want[2] * D \in Nat
      BY <2>5, <2>6, Products
    <2>8. /\ (r.want[1] * D) \div k \in Nat /\ k * ((r.want[1] * D) \div k) <= r.want[1] * D
          /\ C!Ceil(r.want[2] * D, k) \in Nat /\ k * C!Ceil(r.want[2] * D, k) >= r.want[2] * D
      BY <2>5, <2>7, DivIsBelow, CeilIsAbove
    <2>9. a = A + (r.want[1] * D) \div k /\ b = A + C!Ceil(r.want[2] * D, k)
      BY <1>3, <2>5, <2>6, <2>8
    <2>10. a \in Int /\ b \in Int /\ Near(w, first, a, per) /\ Near(w, until, b, per)
      BY <1>3, <2>4
    <2>11. taken # None /\ taken.steady /\ first \in Int /\ until \in Int
      BY <2>1
    <2>n. \A v \in Nat : v * N = v * M * W
      BY <2>5
    <2> HIDE DEF W, A, D, L, M, N, P, k, a, b, r, first, until
    <2>12. k * a <= k * A + r.want[1] * D /\ k * b >= k * A + r.want[2] * D
      <3>1. \A v \in Nat : k * (A + v) = k * A + k * v
        BY <2>5
      <3> QED
        BY <2>5, <2>7, <2>8, <2>9, <3>1
    <2>13. Framed(A, D, L, N, P, W)
      BY <2>5 DEF Framed
    <2>14. k \in Nat
      BY <2>5
    <2>15. ShowsFrom(first, per, w, P, W, k, L, r.want[1], N)
      BY <2>6, <2>10, <2>11, <2>12, <2>13, <2>14, StartIsShown
    <2>16. ShowsTo(until, per, w, P, W, k, L, r.want[2], N)
      BY <2>6, <2>10, <2>11, <2>12, <2>13, <2>14, EndIsShown
    <2>17. /\ 2 * first * P * k - k * (P * w + per * W) <= 2 * per * (L * k + r.want[1] * M * W)
           /\ 2 * until * P * k + k * (P * w + per * W) >= 2 * per * (L * k + r.want[2] * M * W)
      BY <2>6, <2>n, <2>15, <2>16 DEF ShowsFrom, ShowsTo
    <2> QED
      BY <2>1, <2>4, <2>17 DEF C!Shows, P, k, L, M, W, r
  <1>14. WholeInv'
    BY <1>6, <1>13 DEF WholeInv
  <1> QED
    BY <1>0, <1>1, <1>12, <1>14 DEF PointsInv, PointsTypes, RegionInv, JobInv, ClickInv

(* A box of the job, on its target.                                        *)
LEMMA JobBox ==
  ASSUME PointsInv, job # None
  PROVE  /\ job.target \in C!Outputs /\ job.target.x \in Nat /\ job.target.w \in Nat \ {0}
         /\ job.table \in Layouts /\ job.target \in job.table
         /\ job.region # None => /\ job.region.lo \in Nat /\ job.region.hi \in Nat
                                 /\ job.target.x <= job.region.lo /\ job.region.lo < job.region.hi
                                 /\ job.region.hi <= job.target.x + job.target.w
  <1>1. JobOK(job, shot, taken)
    BY DEF PointsInv, JobInv
  <1>2. /\ job.table \in Layouts /\ job.target \in job.table
        /\ job.region # None => /\ BoxOK(job.region) /\ job.region.home.x = job.target.x
                                /\ job.region.home.w = job.target.w
    BY <1>1 DEF JobOK
  <1>3. job.target \in C!Outputs
    BY <1>2, LayoutFacts
  <1> QED
    BY <1>2, <1>3, LayoutFacts DEF BoxOK

(* A frame of the stream: its box is rounded to pixels.                    *)
LEMMA FrameKeeps == PointsInv /\ C!Frame => PointsInv'
  <1> SUFFICES ASSUME PointsInv, C!Frame PROVE PointsInv'
    OBVIOUS
  <1>0. PointsTypes
    BY DEF PointsInv
  <1>1. job # None /\ UNCHANGED <<layout, region, click, changes>>
    BY DEF C!Frame
  <1>2. PICK out \in layout, frame \in {C!source_pixel_size(o) : o \in layout} :
          /\ out.port = job.target.port /\ frame = C!source_pixel_size(out)
          /\ C!Record(out, frame, out.w, 0, C!FrameBox(frame).lo, C!FrameBox(frame).hi)
    BY DEF C!Frame
  <1>3. cache' \in [table : Layouts, age : 0..CACHE_TTL]
    BY <1>0, ListIsLayout DEF C!Frame, PointsTypes
  <1> DEFINE target == job.target
             from == IF job.region = None THEN target.x ELSE job.region.lo
             to == IF job.region = None THEN target.x + target.w ELSE job.region.hi
             lo == C!FrameBox(frame).lo
             hi == C!FrameBox(frame).hi
  <1>4. /\ target \in C!Outputs /\ target.x \in Nat /\ target.w \in Nat \ {0}
        /\ job.table \in Layouts /\ target \in job.table
        /\ job.region # None => /\ job.region.lo \in Nat /\ job.region.hi \in Nat
                                /\ target.x <= job.region.lo /\ job.region.lo < job.region.hi
    BY <1>1, JobBox
  <1>5. frame \in Nat
    <2>1. layout \in Layouts /\ out \in C!Outputs
      BY <1>0, LayoutFacts DEF PointsTypes
    <2>2. out.w \in Nat /\ out.num \in Nat /\ out.den \in Nat \ {0}
      BY <2>1, LayoutFacts
    <2>3. out.w * out.num \in Nat
      BY <2>2, Products
    <2> QED
      BY <1>2, <2>2, <2>3, RoundedIsNear DEF C!source_pixel_size
  <1>6. from \in Int /\ to \in Int /\ lo \in Int /\ hi \in Int
        /\ Near(target.w, lo * target.w, from - target.x, frame)
        /\ Near(target.w, hi * target.w, to - target.x, frame)
    <2>1. CASE job.region = None
      <3>1. lo = 0 /\ hi = frame /\ from - target.x = 0 /\ to - target.x = target.w
        BY <1>4, <2>1 DEF C!FrameBox
      <3>2. from \in Int /\ to \in Int
        BY <1>4, <2>1
      <3> QED
        BY <1>4, <1>5, <3>1, <3>2 DEF Near
    <2>2. CASE job.region # None
      <3> DEFINE a == job.region.lo - target.x
                 b == job.region.hi - target.x
      <3>1. lo = C!Rounded(a * frame, target.w) /\ hi = C!Rounded(b * frame, target.w)
        BY <2>2 DEF C!FrameBox
      <3>2. from = job.region.lo /\ to = job.region.hi /\ a \in Nat /\ b \in Nat
        BY <1>4, <2>2
      <3>3. a * frame \in Nat /\ b * frame \in Nat
        BY <1>5, <3>2, Products
      <3>4. /\ lo \in Nat /\ 2 * target.w * lo <= 2 * (a * frame) + target.w
            /\ 2 * target.w * lo > 2 * (a * frame) - target.w
        BY <1>4, <3>1, <3>3, RoundedIsNear
      <3>5. /\ hi \in Nat /\ 2 * target.w * hi <= 2 * (b * frame) + target.w
            /\ 2 * target.w * hi > 2 * (b * frame) - target.w
        BY <1>4, <3>1, <3>3, RoundedIsNear
      <3>6. Near(target.w, lo * target.w, a, frame) /\ Near(target.w, hi * target.w, b, frame)
        <4> HIDE DEF lo, hi, a, b
        <4> QED
          BY <1>4, <1>5, <3>2, <3>4, <3>5 DEF Near
      <3> QED
        BY <1>4, <2>2, <3>2, <3>4, <3>5, <3>6
    <2> QED
      BY <2>1, <2>2
  <1>7. job.table = layout => out = target
    BY <1>2, <1>4, LayoutFacts
  <1> HIDE DEF from, to, lo, hi
  <1>8. C!Record(out, frame, out.w, 0, lo, hi)
    BY <1>2 DEF lo, hi
  <1>9. /\ from = IF job.region = None THEN job.target.x ELSE job.region.lo
        /\ to = IF job.region = None THEN job.target.x + job.target.w ELSE job.region.hi
    BY DEF from, to
  <1>10. out.w \in Nat /\ 0 \in Int
    BY <1>0, LayoutFacts DEF PointsTypes
  <1>11. job.table = layout => /\ out = job.target
                               /\ Near(out.w, lo * out.w - 0, from - out.x, frame)
                               /\ Near(out.w, hi * out.w - 0, to - out.x, frame)
    <2>1. lo * target.w - 0 = lo * target.w /\ hi * target.w - 0 = hi * target.w
      BY <1>4, <1>6
    <2> QED
      BY <1>6, <1>7, <2>1
  <1> QED
    BY <1>1, <1>3, <1>5, <1>6, <1>8, <1>9, <1>10, <1>11, RecordKeeps

(* A whole number is rounded to itself.                                    *)
LEMMA RoundedWhole == \A x \in Nat : C!Rounded(x * 1, 1) = x
  <1> SUFFICES ASSUME NEW x \in Nat PROVE C!Rounded(x * 1, 1) = x
    OBVIOUS
  <1>1. x * 1 \in Nat /\ x * 1 = x
    OBVIOUS
  <1>2. /\ C!Rounded(x * 1, 1) \in Nat /\ 2 * 1 * C!Rounded(x * 1, 1) <= 2 * (x * 1) + 1
        /\ 2 * 1 * C!Rounded(x * 1, 1) > 2 * (x * 1) - 1
    BY <1>1, RoundedIsNear
  <1> QED
    BY <1>1, <1>2

(* Where the layout is the table's, a place x of the desktop in a picture  *)
(* of everything is where canvas_pixel_ratio says, to half a pixel.        *)
LEMMA RatioIsNear ==
  ASSUME NEW l \in Layouts, NEW real \in {[num |-> 1, den |-> 1]} \cup {[num |-> o.num, den |-> o.den] : o \in l},
         NEW ratio \in C!Ratios(l, C!Rounded(C!canvas_size(l) * real.num, real.den)),
         NEW x \in Nat, x <= C!canvas_size(l)
  PROVE  Near(real.den, C!Rounded(x * ratio.num, ratio.den) * real.den, x, real.num)
  <1> DEFINE E == C!canvas_size(l)
             width == C!Rounded(E * real.num, real.den)
  <1>1. E \in Nat
    <2>1. PICK o \in l : TRUE
      BY LayoutFacts
    <2> QED
      BY <2>1, CanvasReaches
  <1>2. real.num \in Nat \ {0} /\ real.den \in Nat \ {0}
    BY LayoutFacts
  <1>3. CASE width = E
    <2>1. ratio.num = 1 /\ ratio.den = 1
      BY <1>3 DEF C!Ratios
    <2>2. C!Rounded(x * ratio.num, ratio.den) = x
      BY <2>1, RoundedWhole
    <2> QED
      BY <1>1, <1>2, <1>3, <2>2, UnscaledIsNear
  <1>4. CASE width # E
    <2>1. PICK p \in l : /\ ratio = [num |-> p.num, den |-> p.den]
                         /\ \A q \in l : q.num * p.den = p.num * q.den
      BY <1>4 DEF C!Ratios
    <2>2. \E q \in l : real = [num |-> q.num, den |-> q.den]
      <3>1. real # [num |-> 1, den |-> 1]
        <4> SUFFICES ASSUME real.num = 1, real.den = 1 PROVE FALSE
          OBVIOUS
        <4>3. C!Rounded(E * 1, 1) = E
          BY <1>1, RoundedWhole
        <4> QED
          BY <1>4, <4>3
      <3> QED
        BY <3>1
    <2>3. /\ ratio.num \in Nat /\ ratio.den \in Nat \ {0} /\ real.num * ratio.den = ratio.num * real.den
      <3>1. p.num \in Nat /\ p.den \in Nat \ {0}
        BY LayoutFacts
      <3> QED
        BY <2>1, <2>2, <3>1
    <2>4. ratio.num * real.den = real.num * ratio.den
      BY <2>3
    <2> HIDE DEF E, width
    <2> QED
      BY <1>2, <2>3, <2>4, ScaledIsNear
  <1> QED
    BY <1>3, <1>4

(* A picture of everything, cropped.                                       *)
LEMMA CanvasKeeps == PointsInv /\ C!Canvas => PointsInv'
  <1> SUFFICES ASSUME PointsInv, C!Canvas PROVE PointsInv'
    OBVIOUS
  <1>0. PointsTypes
    BY DEF PointsInv
  <1>1. job # None /\ UNCHANGED <<layout, cache, region, click, changes>>
    BY DEF C!Canvas
  <1> DEFINE target == job.target
             from == IF job.region = None THEN target.x ELSE job.region.lo
             to == IF job.region = None THEN target.x + target.w ELSE job.region.hi
             Reals == {[num |-> 1, den |-> 1]} \cup {[num |-> o.num, den |-> o.den] : o \in layout}
             width(real) == C!Rounded(C!canvas_size(layout) * real.num, real.den)
  <1>2. PICK real \in Reals : \E ratio \in C!Ratios(job.table, width(real)), out \in C!find_monitor(target.x, layout) :
           C!Record(out, real.num, real.den, out.x * real.num,
                    C!Rounded(from * ratio.num, ratio.den), C!Rounded(to * ratio.num, ratio.den))
    BY Zenon DEF C!Canvas
  <1>a. PICK ratio \in C!Ratios(job.table, width(real)), out \in C!find_monitor(target.x, layout) :
           C!Record(out, real.num, real.den, out.x * real.num,
                    C!Rounded(from * ratio.num, ratio.den), C!Rounded(to * ratio.num, ratio.den))
    BY <1>2, Zenon
  <1> DEFINE lo == C!Rounded(from * ratio.num, ratio.den)
             hi == C!Rounded(to * ratio.num, ratio.den)
             left == out.x * real.num
  <1>3. cache' \in [table : Layouts, age : 0..CACHE_TTL]
    BY <1>0, <1>1 DEF PointsTypes
  <1>4. /\ target \in C!Outputs /\ target.x \in Nat /\ target.w \in Nat \ {0}
        /\ job.table \in Layouts /\ target \in job.table
        /\ job.region # None => /\ job.region.lo \in Nat /\ job.region.hi \in Nat
                                /\ target.x <= job.region.lo /\ job.region.lo < job.region.hi
                                /\ job.region.hi <= target.x + target.w
    BY <1>1, JobBox
  <1>5. /\ out \in layout /\ out.x <= target.x /\ target.x < out.x + out.w
        /\ layout \in Layouts /\ out.x \in Nat /\ out.w \in Nat
    <2>1. out \in layout /\ out.x <= target.x /\ target.x < out.x + out.w /\ layout \in Layouts
      BY <1>0, <1>a DEF PointsTypes, C!find_monitor
    <2> QED
      BY <2>1, LayoutFacts
  <1>6. from \in Nat /\ to \in Nat /\ from <= to /\ to <= target.x + target.w
    BY <1>4
  <1>7. real.num \in Nat /\ real.den \in Nat \ {0}
    BY <1>5, LayoutFacts
  <1>8. ratio.num \in Nat /\ ratio.den \in Nat \ {0}
    BY <1>4, LayoutFacts DEF C!Ratios
  <1>9. lo \in Int /\ hi \in Int /\ left \in Int
    <2> HIDE DEF from, to
    <2>1. from * ratio.num \in Nat /\ to * ratio.num \in Nat /\ left \in Nat
      BY <1>5, <1>6, <1>7, <1>8, Products
    <2>2. lo \in Nat /\ hi \in Nat
      BY <1>8, <2>1, RoundedIsNear
    <2> QED
      BY <2>1, <2>2
  <1> HIDE DEF from, to
  <1>10. ASSUME job.table = layout
         PROVE  /\ out = job.target
                /\ Near(real.den, lo * real.den - left, from - out.x, real.num)
                /\ Near(real.den, hi * real.den - left, to - out.x, real.num)
    <2>1. out = target
      <3>1. target.x < target.x + target.w
        BY <1>4
      <3> QED
        BY <1>4, <1>5, <1>10, <3>1, OneOutput
    <2>2. to <= C!canvas_size(layout) /\ from <= C!canvas_size(layout)
      <3>1. C!canvas_size(layout) \in Nat /\ target.x + target.w <= C!canvas_size(layout)
        BY <1>5, <2>1, CanvasReaches
      <3> QED
        BY <1>4, <1>6, <3>1
    <2>3. ratio \in C!Ratios(layout, C!Rounded(C!canvas_size(layout) * real.num, real.den))
      BY <1>10
    <2>4. Near(real.den, lo * real.den, from, real.num) /\ Near(real.den, hi * real.den, to, real.num)
      BY <1>5, <1>6, <2>2, <2>3, RatioIsNear
    <2>5. \A q, v \in Int : Near(real.den, q * real.den, v, real.num)
                               => Near(real.den, q * real.den - out.x * real.num, v - out.x, real.num)
      <3> SUFFICES ASSUME NEW q \in Int, NEW v \in Int
                   PROVE  2 * (q * real.den - out.x * real.num) - 2 * (v - out.x) * real.num
                            = 2 * (q * real.den) - 2 * v * real.num
        BY DEF Near
      <3> QED
        BY <1>5, <1>7
    <2> HIDE DEF lo, hi
    <2> QED
      BY <1>6, <1>9, <2>1, <2>4, <2>5
  <1>11. C!Record(out, real.num, real.den, left, lo, hi)
    BY <1>a
  <1>12. /\ from = IF job.region = None THEN job.target.x ELSE job.region.lo
         /\ to = IF job.region = None THEN job.target.x + job.target.w ELSE job.region.hi
    BY DEF from, to
  <1>13. job.table = layout => /\ out = job.target
                               /\ Near(real.den, lo * real.den - left, from - out.x, real.num)
                               /\ Near(real.den, hi * real.den - left, to - out.x, real.num)
    BY <1>10
  <1>14. UNCHANGED <<layout, region, click, changes>>
    BY <1>1
  <1>15. from \in Int /\ to \in Int /\ real.num \in Nat /\ real.den \in Nat
    BY <1>6, <1>7
  <1> DEFINE num == real.num
             den == real.den
  <1>16. C!Record(out, num, den, left, lo, hi) /\ num \in Nat /\ den \in Nat
    BY <1>11, <1>15
  <1>17. job.table = layout => /\ out = job.target
                               /\ Near(den, lo * den - left, from - out.x, num)
                               /\ Near(den, hi * den - left, to - out.x, num)
    BY <1>13
  <1> HIDE DEF lo, hi, left, num, den, target
  <1> QED
    BY <1>1, <1>3, <1>9, <1>12, <1>14, <1>15, <1>16, <1>17, RecordKeeps

(* Every step preserves the invariant.                                     *)
LEMMA PointsNextInv == PointsInv /\ (C!Next \/ UNCHANGED pointvars) => PointsInv'
  <1>1. \A path, edge : edge \in LongEdges /\ PointsInv /\ C!Start(path, edge) => PointsInv'
    BY StartKeeps
  <1> QED
    BY <1>1, RegionOfShotKeeps, RegionOfCanvasKeeps, ClickKeeps, OnAMonitorKeeps, OthersKeep, FrameKeeps,
       CanvasKeeps DEF C!Next

(* It holds before anything has happened.                                  *)
LEMMA PointsStart == C!Init => PointsInv
  <1> SUFFICES ASSUME C!Init PROVE PointsInv
    OBVIOUS
  <1>1. [table |-> layout, age |-> CACHE_TTL] \in [table : Layouts, age : 0..CACHE_TTL]
    BY LayoutFacts DEF C!Init
  <1> QED
    BY <1>1, LayoutFacts DEF C!Init, PointsInv, PointsTypes, RegionInv, JobInv, ShotInv, WholeInv, ClickInv

(* It implies what is promised of a click and of a region.                 *)
LEMMA ClickIsWhereSeen == PointsInv => C!ClickHitsWhatWasSeen
  <1> SUFFICES ASSUME PointsInv, click # None, click.table = layout, taken.steady PROVE C!ClickHitsWhatWasSeen
    BY DEF C!ClickHitsWhatWasSeen
  <1>1. ClickOK(click, shot) /\ ShotInv /\ PointsTypes
    BY DEF PointsInv, ClickInv
  <1>2. shot # None /\ click.table \in Layouts /\ C!Current(click.table) /\ layout \in Layouts
    BY <1>1 DEF ClickOK
  <1>3. PICK o \in C!Outputs : IsOf(shot, taken, o)
    BY <1>1, <1>2 DEF ShotInv, ShotOK
  <1>4. PICK p \in layout : /\ p.x = o.x /\ p.w = o.w /\ C!Same(p, taken)
                            /\ (\E u \in layout \ {p} : u.serial = taken.serial) => p.port = taken.port
    <2>1. C!Current(layout)
      BY <1>2
    <2>2. \E p \in layout : InPlaceOf(p, o, taken, layout)
      BY <1>2, <1>3, <2>1, CurrentFinds
    <2> QED
      BY <2>2 DEF InPlaceOf
  <1> DEFINE W == taken.w
             A == shot.offset - o.x
             D == shot.desktop
             L == taken.lo
             M == taken.size
             N == M * W
             P == taken.per
             k == shot.scaled
             m == click.pixel
             R == C!Rounded(m * D, k)
  <1>5. /\ A \in Int /\ D \in Nat \ {0} /\ L \in Int /\ M \in Int /\ N \in Int /\ P \in Nat /\ W \in Nat
        /\ k \in Nat \ {0} /\ taken.scaled = k
        /\ shot.offset \in Nat /\ o.x \in Nat /\ o.x <= shot.offset /\ shot.offset + D <= o.x + o.w
        /\ Near(W, L, A, P) /\ Near(W, L + N, A + D, P)
    <2>1. /\ shot.offset \in Nat /\ D \in Nat \ {0} /\ shot.size \in Nat /\ k \in 1..shot.size
          /\ taken.scaled = k /\ M = shot.size /\ o.x <= shot.offset /\ shot.offset + D <= o.x + o.w
          /\ W \in Nat /\ P \in Nat /\ L \in Int
          /\ Near(W, L, A, P) /\ Near(W, L + M * W, A + D, P)
      BY <1>3 DEF IsOf
    <2>2. o.x \in Nat /\ N \in Nat
      BY <2>1, LayoutFacts, Products
    <2> QED
      BY <2>1, <2>2
  <1>6. m \in Nat /\ m < k /\ click.point = shot.offset + R
    BY <1>1, <1>5 DEF ClickOK, C!ToGlobal
  <1>7. m * D \in Nat /\ m * N = m * M * W
    BY <1>5, <1>6, Products
  <1>8. R \in Nat /\ 2 * k * R <= 2 * (m * D) + k /\ 2 * k * R > 2 * (m * D) - k
    BY <1>5, <1>7, RoundedIsNear
  <1>9. click.point - p.x = A + R
    BY <1>4, <1>5, <1>6, <1>8
  <1> HIDE DEF W, A, D, L, M, N, P, k, m, R
  <1>10. 2 * ((A + R) * k * P - (L * k + m * N)) \in -(k * (P + W))..(k * (P + W))
    BY <1>5, <1>6, <1>8, PointIsNear DEF Near
  <1>11. 2 * D * (k - m) > k => p \in C!find_monitor(click.point, layout)
    <2> SUFFICES ASSUME 2 * D * (k - m) > k PROVE p.x <= click.point /\ click.point < p.x + p.w
      BY DEF C!find_monitor
    <2>1. 2 * (m * D) + k < 2 * (k * D)
      BY <1>5, <1>6
    <2>2. k * R < k * D
      BY <1>5, <1>7, <1>8, <2>1
    <2>3. R < D
      <3>1. \A x, y \in Nat : x <= y => k * x <= k * y
        BY <1>5, TimesKeeps
      <3> QED
        BY <1>5, <1>8, <2>2, <3>1
    <2>4. o.w \in Nat
      BY <1>3, LayoutFacts
    <2> QED
      BY <1>4, <1>5, <1>6, <1>8, <2>3, <2>4
  <1>12. /\ 2 * ((click.point - p.x) * taken.scaled * taken.per
                 - (taken.lo * taken.scaled + click.pixel * taken.size * taken.w))
              \in -(taken.scaled * (taken.per + taken.w))..(taken.scaled * (taken.per + taken.w))
         /\ 2 * shot.desktop * (shot.scaled - click.pixel) > shot.scaled => p \in C!find_monitor(click.point, layout)
    BY <1>5, <1>7, <1>9, <1>10, <1>11 DEF L, M, P, k, m, D, W
  <1> QED
    BY <1>4, <1>12 DEF C!ClickHitsWhatWasSeen

LEMMA PointsAccounted == PointsInv => ClicksLand
  <1> SUFFICES ASSUME PointsInv PROVE ClicksLand
    OBVIOUS
  <1>0. PointsTypes /\ ShotInv /\ WholeInv
    BY DEF PointsInv
  <1>1. C!TypeOK
    <2>1. shot # None => shot.scaled \in 1..shot.size /\ shot.desktop > 0
      <3> SUFFICES ASSUME shot # None PROVE shot.scaled \in 1..shot.size /\ shot.desktop > 0
        OBVIOUS
      <3>1. PICK o \in C!Outputs : IsOf(shot, taken, o)
        BY <1>0 DEF ShotInv, ShotOK
      <3>2. shot.scaled \in 1..shot.size /\ shot.desktop \in Nat \ {0}
        BY <3>1 DEF IsOf
      <3> QED
        BY <3>2
    <2> QED
      BY <1>0, <2>1 DEF PointsTypes, C!TypeOK
  <1>2. C!RegionShowsAsked
    BY <1>0 DEF WholeInv, C!RegionShowsAsked
  <1> QED
    BY <1>1, <1>2, ClickIsWhereSeen DEF ClicksLand, C!CoordinatesAccounted

(* A click goes to where its pixel was, on an output that the code cannot  *)
(* tell from the one it saw, and a region shows what was asked for: for    *)
(* any layouts, sizes, scales, serial numbers and regions of regions, from *)
(* the stream or from one picture of everything.  capture.py rounds three  *)
(* times and stays within half a unit and half a pixel.                    *)
THEOREM ClicksLandWhereSeen == PartsSpec => []ClicksLand
  <1>1. PartsInit => PointsInv
    BY PointsStart DEF PartsInit
  <1>2. PointsInv /\ [PartsNext]_<<part, vars, pointvars, helpervars>> => PointsInv'
    BY PointsNextInv DEF PartsNext
  <1>3. PointsInv => ClicksLand
    BY PointsAccounted
  <1> QED
    BY <1>1, <1>2, <1>3, PTL DEF PartsSpec
-----------------------------------------------------------------------------
(* A device that somebody is about to close.                               *)
Doomed(d) == \E t \in H!Threads : sweep[t][1] <= d /\ d <= sweep[t][2]

(* Where the dispatcher looks at the guard.                                *)
Checking == at \in {"flag", "token", "latch", "closing", "screen", "signal"}

(* The kinds of device that the request has opened so far.                 *)
Opened == IF todo = H!Opens[asked] THEN {}
          ELSE IF todo = <<>> THEN H!Closes[asked] ELSE {"pointer"}

(* Hyprland looks again at the device just registered, and has not yet     *)
(* come to this signal.                                                    *)
Unsettled(d, s) ==
    /\ stage = "register" /\ d = registered /\ Checking
    /\ at = "signal" => turn["request"] <= s

(* Where the request is, and what follows.                                 *)
StageOK ==
    /\ stage = "before" /\ Checking => todo = H!Opens[asked]
    /\ stage = "after" => todo = <<>> /\ (Checking \/ at \in {"geometry", "write"})
    /\ at = "register" => todo # <<>>
    /\ at \in {"geometry", "write"} => stage = "after"
    /\ at \in {"idle", "gone"} => stage = "before" /\ asked = "key" /\ todo = <<>>
    /\ desktop # "hyprland" => stage # "register" /\ at # "signal"

(* The request's own look at the signals; only Hyprland has any.           *)
LooksOK ==
    /\ at # "signal" => turn["request"] = 1 /\ saw["request"] = "nothing"
    /\ desktop # "hyprland" => lost = {} /\ saw["frame"] = "nothing"

HeldOK ==
    /\ at = "register" => slot[Head(todo)] = 0
    /\ \A d \in open : (\E k \in H!Kinds : d = slot[k]) \/ (at = "register" /\ d = registered + 1)

(* What is open although the grant was found gone was registered too late, *)
(* or is about to be closed; so is what is open without a signal.          *)
RevokedOK == revoked => \A d \in open : d <= registered => d \in late \/ Doomed(d)

LostOK == \A s \in lost : \A d \in open : d <= registered => Doomed(d) \/ Unsettled(d, s)

(* What was registered too late is the request's that is being served, and *)
(* this one looks again.                                                   *)
LateOK ==
    /\ late # {} => revoked
    /\ stage = "after" /\ at # "flag" => late = {}
    /\ stage = "register" /\ Checking /\ at # "flag" => late = {}
    /\ IF desktop = "hyprland"
       THEN \A d \in late \cap open : stage = "register" /\ at = "flag" /\ d = registered
       ELSE \A d \in late \cap open : d \in abandoned \/ (at \notin {"idle", "gone"} /\ \E k \in Opened : d = slot[k])

HelperInv ==
    /\ H!WorldTypes /\ H!GuardTypes /\ H!DeviceTypes /\ H!ServingTypes
    /\ StageOK /\ LooksOK /\ HeldOK /\ RevokedOK /\ LostOK /\ LateOK

(* The six requests.                                                       *)
LEMMA OpensFacts ==
  /\ H!Requests = {"key", "move", "nudge", "ensure", "ensureRelative", "both"}
  /\ \A a \in H!Requests : /\ H!Opens[a] # <<>> /\ (H!Opens[a] = <<"relative">> => a # "both")
                           /\ Head(H!Opens[a]) \in H!Closes[a] /\ H!Closes[a] \subseteq H!Kinds
                           /\ Tail(H!Opens[a]) = IF a = "both" THEN <<"relative">> ELSE <<>>
                           /\ H!Opens[a][1] \in H!Closes[a]
  <1>1. H!Requests = {"key", "move", "nudge", "ensure", "ensureRelative", "both"}
    BY DEF H!Requests, H!Opens
  <1> QED
    BY <1>1 DEF H!Opens, H!Closes, H!Kinds

(* Closing dooms what is registered and spares nothing that was doomed.    *)
LEMMA SweepKeeps ==
  ASSUME H!GuardTypes, H!DeviceTypes, NEW t \in H!Threads, H!CloseAll(t) \/ UNCHANGED sweep, UNCHANGED registered
  PROVE  /\ \A d \in 1..registered : Doomed(d) => Doomed(d)'
         /\ H!CloseAll(t) => \A d \in 1..registered : Doomed(d)'
         /\ sweep' \in [H!Threads -> H!Sweeps(registered)]
  <1> USE DEF H!GuardTypes, H!DeviceTypes, Doomed, H!NoSweep, H!Sweeps
  <1>1. registered \in 0..MaxDevices /\ MaxDevices \in Nat
    BY GuardAssumption DEF H!NativeGuardAssumption
  <1>2. CASE UNCHANGED sweep
    BY <1>1, <1>2 DEF H!CloseAll
  <1>3. CASE H!CloseAll(t) /\ registered = 0
    BY <1>1, <1>3 DEF H!CloseAll
  <1>4. CASE H!CloseAll(t) /\ registered # 0
    BY <1>1, <1>4 DEF H!CloseAll
  <1> QED
    BY <1>1, <1>2, <1>3, <1>4

(* The kinds opened so far, and the next.                                  *)
LEMMA OpenedFacts ==
  ASSUME H!ServingTypes
  PROVE  /\ todo = H!Opens[asked] => Opened = {} /\ todo # <<>>
         /\ todo = <<>> => Opened = H!Closes[asked]
         /\ todo = <<"relative">> /\ asked = "both" => Opened = {"pointer"}
         /\ H!Closes[asked] \subseteq H!Kinds /\ H!Opens[asked][1] \in H!Kinds
         /\ todo # <<>> => Head(todo) \in H!Kinds /\ Head(todo) \notin Opened
  <1> USE OpensFacts DEF H!ServingTypes, Opened, H!Kinds
  <1>1. CASE todo = H!Opens[asked]
    BY <1>1
  <1>2. CASE todo = <<>>
    BY <1>2
  <1>3. CASE todo = <<"relative">> /\ asked = "both"
    BY <1>3
  <1> QED
    BY <1>1, <1>2, <1>3

(* When the request comes to its next device, it has opened this one.      *)
LEMMA NextTodo ==
  ASSUME H!ServingTypes, todo # <<>>, todo' = Tail(todo), UNCHANGED asked
  PROVE  /\ todo' \in {H!Opens[asked], <<>>} \/ (asked = "both" /\ todo' = <<"relative">>)
         /\ Opened \cup {Head(todo)} \subseteq Opened'
  <1> USE OpensFacts DEF H!ServingTypes, Opened
  <1>1. CASE todo = H!Opens[asked] /\ asked # "both"
    BY <1>1
  <1>2. CASE todo = H!Opens[asked] /\ asked = "both"
    BY <1>2 DEF H!Opens
  <1>3. CASE todo = <<"relative">> /\ asked = "both"
    BY <1>3 DEF H!Opens, H!Closes
  <1> QED
    BY <1>1, <1>2, <1>3

(* An answer, whatever it leaves of the devices.                           *)
LEMMA RefuseKeeps ==
  ASSUME HelperInv, H!Refuse, Checking, at # "signal", UNCHANGED <<desktop, H!guard>>
  PROVE  /\ H!GuardTypes' /\ H!DeviceTypes' /\ H!ServingTypes'
         /\ StageOK' /\ LooksOK' /\ HeldOK' /\ RevokedOK' /\ LostOK' /\ LateOK'
  <1> USE OpensFacts DEF H!Answer, H!Drop, H!devices
  <1>0. /\ H!WorldTypes /\ H!GuardTypes /\ H!DeviceTypes /\ H!ServingTypes
        /\ StageOK /\ LooksOK /\ HeldOK /\ RevokedOK /\ LostOK /\ LateOK
    BY DEF HelperInv
  <1>1. UNCHANGED <<registered, abandoned, late, saw, turn, lost, revoked, sweep, desktop, wasUnlocked>>
    BY DEF H!guard, H!Refuse
  <1>2. open' \subseteq open /\ at' \in {"idle", "open"}
    BY DEF H!Refuse
  <1>3. H!GuardTypes'
    BY <1>0, <1>1 DEF H!GuardTypes
  <1>4. slot' \in [H!Kinds -> 0..registered]
    BY <1>0 DEF H!Refuse, H!DeviceTypes
  <1>5. H!DeviceTypes'
    BY <1>0, <1>1, <1>2, <1>4 DEF H!DeviceTypes, Checking
  <1>6. H!ServingTypes' /\ StageOK'
    BY <1>0, <1>1 DEF H!Refuse, H!ServingTypes, StageOK, Checking
  <1>7. LooksOK'
    BY <1>0, <1>1 DEF LooksOK
  <1>8. \A k \in H!Kinds : slot'[k] = slot[k] \/ slot[k] \notin open'
    BY <1>0 DEF H!Refuse, H!DeviceTypes
  <1>9. HeldOK'
    BY <1>0, <1>2, <1>8 DEF HeldOK, Checking
  <1>10. RevokedOK'
    BY <1>0, <1>1, <1>2 DEF RevokedOK, Doomed
  <1>11. LostOK'
    BY <1>0, <1>1, <1>2 DEF H!Refuse, LostOK, Doomed, Unsettled, H!ServingTypes
  <1>12. LateOK'
    <2>1. stage = "before" => Opened = {}
      BY <1>0, OpenedFacts DEF StageOK
    <2>2. stage = "after" => Opened = H!Closes[asked]
      BY <1>0, OpenedFacts DEF StageOK
    <2>3. stage = "after" => \A k \in Opened : slot[k] \notin open'
      BY <1>0, <2>2, OpenedFacts DEF H!Refuse
    <2> QED
      BY <1>0, <1>1, <1>2, <2>1, <2>2, <2>3 DEF H!Refuse, LateOK, H!ServingTypes, StageOK, Checking
  <1> QED
    BY <1>3, <1>5, <1>6, <1>7, <1>9, <1>10, <1>11, <1>12
(* The world changes.                                                      *)
LEMMA ChangeKeeps ==
  ASSUME HelperInv, H!Change
  PROVE  HelperInv'
  <1> USE GuardAssumption DEF H!NativeGuardAssumption, H!Threads, H!Watchdogs, H!Signals, H!Change
  <1>0. /\ H!WorldTypes /\ H!GuardTypes /\ H!DeviceTypes /\ H!ServingTypes
        /\ StageOK /\ LooksOK /\ HeldOK /\ RevokedOK /\ LostOK /\ LateOK
    BY DEF HelperInv
  <1>w. shifts' \in 0..MaxShifts[desktop] /\ desktop' = desktop /\ queue' \in Seq(BOOLEAN) /\ good' \subseteq H!Signals
    <2>1. shifts \in Int /\ MaxShifts[desktop] \in Nat /\ queue \in Seq(BOOLEAN)
      BY <1>0 DEF H!WorldTypes
    <2>2. Append(queue, ~unlocked) \in Seq(BOOLEAN)
      <3>1. ~unlocked = TRUE \/ ~unlocked = FALSE
        BY <1>0, Zenon DEF H!WorldTypes
      <3> QED
        BY <2>1, <3>1
    <2>3. shifts' \in 0..MaxShifts[desktop] /\ desktop' = desktop
      BY <1>0, <2>1 DEF H!WorldTypes
    <2>4. queue' = queue \/ queue' = Append(queue, ~unlocked)
      OBVIOUS
    <2>5. good' \subseteq H!Signals
      BY <1>0 DEF H!WorldTypes
    <2> QED
      BY <2>1, <2>2, <2>3, <2>4, <2>5
  <1>1. H!WorldTypes'
    BY <1>0, <1>w DEF H!WorldTypes, H!world
  <1>2. H!GuardTypes'
    BY <1>0 DEF H!GuardTypes, H!guard, H!devices
  <1>3. H!DeviceTypes'
    BY <1>0 DEF H!DeviceTypes, H!devices, H!serving
  <1>4. H!ServingTypes'
    BY <1>0 DEF H!ServingTypes, H!serving
  <1>5. StageOK'
    BY <1>0 DEF StageOK, Checking, H!world, H!serving, H!devices
  <1>6. LooksOK'
    BY <1>0 DEF LooksOK, H!guard, H!serving, H!world
  <1>7. HeldOK'
    BY <1>0 DEF HeldOK, H!devices, H!serving
  <1>8. RevokedOK'
    BY <1>0 DEF RevokedOK, Doomed, H!guard, H!devices, H!GuardTypes, H!DeviceTypes
  <1>9. LostOK'
    BY <1>0 DEF LostOK, Doomed, Unsettled, Checking, H!guard, H!devices, H!serving, H!GuardTypes, H!DeviceTypes
  <1>10. LateOK'
    BY <1>0 DEF LateOK, Checking, Opened, H!world, H!guard, H!devices, H!serving
  <1> QED
    BY <1>1, <1>2, <1>3, <1>4, <1>5, <1>6, <1>7, <1>8, <1>9, <1>10 DEF HelperInv

(* A watchdog reads.                                                       *)
LEMMA LookKeeps ==
  ASSUME HelperInv, H!LeaseLook \/ H!FrameLook
  PROVE  HelperInv'
  <1> USE GuardAssumption DEF H!NativeGuardAssumption, H!Threads, H!Watchdogs, H!Signals, H!LeaseLook, H!FrameLook, H!Sweeping
  <1>0. /\ H!WorldTypes /\ H!GuardTypes /\ H!DeviceTypes /\ H!ServingTypes
        /\ StageOK /\ LooksOK /\ HeldOK /\ RevokedOK /\ LostOK /\ LateOK
    BY DEF HelperInv
  <1>g. saw \in [H!Threads -> {"nothing", "good", "bad"}] /\ turn \in [H!Threads -> H!Signals]
    BY <1>0 DEF H!GuardTypes
  <1>1. H!WorldTypes'
    BY <1>0 DEF H!WorldTypes, H!world
  <1>2. H!GuardTypes'
    BY <1>0 DEF H!GuardTypes, H!guard, H!devices
  <1>3. H!DeviceTypes'
    BY <1>0 DEF H!DeviceTypes, H!devices, H!serving
  <1>4. H!ServingTypes'
    BY <1>0 DEF H!ServingTypes, H!serving
  <1>5. StageOK'
    BY <1>0 DEF StageOK, Checking, H!world, H!serving, H!devices
  <1>6. LooksOK'
    BY <1>0, <1>g DEF LooksOK, H!guard, H!serving, H!world
  <1>7. HeldOK'
    BY <1>0 DEF HeldOK, H!devices, H!serving
  <1>8. RevokedOK'
    BY <1>0 DEF RevokedOK, Doomed, H!guard, H!devices
  <1>9. LostOK'
    BY <1>0 DEF LostOK, Doomed, Unsettled, Checking, H!guard, H!devices, H!serving
  <1>10. LateOK'
    BY <1>0 DEF LateOK, Checking, Opened, H!world, H!guard, H!devices, H!serving
  <1> QED
    BY <1>1, <1>2, <1>3, <1>4, <1>5, <1>6, <1>7, <1>8, <1>9, <1>10 DEF HelperInv

(* One device more is closed.                                              *)
LEMMA CloseKeeps ==
  ASSUME HelperInv, NEW t \in H!Threads, H!Close(t)
  PROVE  HelperInv'
  <1> USE GuardAssumption DEF H!NativeGuardAssumption, H!Threads, H!Watchdogs, H!Signals, H!Close, H!Sweeping
  <1>0. /\ H!WorldTypes /\ H!GuardTypes /\ H!DeviceTypes /\ H!ServingTypes
        /\ StageOK /\ LooksOK /\ HeldOK /\ RevokedOK /\ LostOK /\ LateOK
    BY DEF HelperInv
  <1>s. sweep' \in [H!Threads -> H!Sweeps(registered)]
    <2>1. sweep[t] \in {s \in (1..registered) \X (1..registered) : s[1] <= s[2]} /\ registered \in Nat
      BY <1>0 DEF H!GuardTypes, H!DeviceTypes, H!Sweeps
    <2>2. PICK i \in 1..registered, n \in 1..registered : sweep[t] = <<i, n>> /\ i <= n
      BY <2>1
    <2>3. sweep'[t] \in H!Sweeps(registered)
      BY <1>0, <2>1, <2>2 DEF H!GuardTypes, H!NoSweep, H!Sweeps
    <2> QED
      BY <1>0, <2>3 DEF H!GuardTypes
  <1>1. H!WorldTypes'
    BY <1>0 DEF H!WorldTypes, H!world
  <1>2. H!GuardTypes'
    BY <1>0, <1>s DEF H!GuardTypes, H!guard, H!devices
  <1>3. H!DeviceTypes'
    BY <1>0 DEF H!DeviceTypes, H!devices, H!serving
  <1>4. H!ServingTypes'
    BY <1>0 DEF H!ServingTypes, H!serving
  <1>5. StageOK'
    BY <1>0 DEF StageOK, Checking, H!world, H!serving, H!devices
  <1>6. LooksOK'
    BY <1>0 DEF LooksOK, H!guard, H!serving, H!world
  <1>7. HeldOK'
    BY <1>0 DEF HeldOK, H!devices, H!serving
  <1>8. RevokedOK'
    BY <1>0 DEF RevokedOK, Doomed, H!guard, H!devices, H!GuardTypes, H!DeviceTypes, H!NoSweep, H!Sweeps
  <1>9. LostOK'
    BY <1>0 DEF LostOK, Doomed, Unsettled, Checking, H!guard, H!devices, H!serving, H!GuardTypes,
       H!DeviceTypes, H!NoSweep, H!Sweeps
  <1>10. LateOK'
    BY <1>0 DEF LateOK, Checking, Opened, H!world, H!guard, H!devices, H!serving
  <1> QED
    BY <1>1, <1>2, <1>3, <1>4, <1>5, <1>6, <1>7, <1>8, <1>9, <1>10 DEF HelperInv

(* A request begins.                                                       *)
LEMMA BeginKeeps ==
  ASSUME HelperInv, H!Begin
  PROVE  HelperInv'
  <1> USE GuardAssumption DEF H!NativeGuardAssumption, H!Begin
  <1>0. /\ H!WorldTypes /\ H!GuardTypes /\ H!DeviceTypes /\ H!ServingTypes
        /\ StageOK /\ LooksOK /\ HeldOK /\ RevokedOK /\ LostOK /\ LateOK
    BY DEF HelperInv
  <1>1. H!WorldTypes'
    BY <1>0 DEF H!WorldTypes, H!world
  <1>2. H!GuardTypes'
    BY <1>0 DEF H!GuardTypes, H!guard, H!devices
  <1>3. H!DeviceTypes'
    BY <1>0 DEF H!DeviceTypes, H!devices, H!serving, StageOK
  <1>4. H!ServingTypes'
    BY <1>0 DEF H!ServingTypes, H!serving
  <1>5. StageOK'
    BY <1>0 DEF StageOK, Checking, H!world, H!serving, H!devices
  <1>6. LooksOK'
    BY <1>0 DEF LooksOK, H!guard, H!serving, H!world
  <1>7. HeldOK'
    BY <1>0 DEF HeldOK, H!devices, H!serving
  <1>8. RevokedOK'
    BY <1>0 DEF RevokedOK, Doomed, H!guard, H!devices
  <1>9. LostOK'
    BY <1>0 DEF LostOK, Doomed, Unsettled, Checking, H!guard, H!devices, H!serving, StageOK
  <1>10. LateOK'
    BY <1>0 DEF LateOK, Checking, Opened, H!world, H!guard, H!devices, H!serving, StageOK, H!ServingTypes
  <1> QED
    BY <1>1, <1>2, <1>3, <1>4, <1>5, <1>6, <1>7, <1>8, <1>9, <1>10 DEF HelperInv

(* The request reads the grant.                                            *)
LEMMA TokenKeeps ==
  ASSUME HelperInv, H!CheckToken
  PROVE  HelperInv'
  <1> USE GuardAssumption DEF H!NativeGuardAssumption, H!CheckToken
  <1>0. /\ H!WorldTypes /\ H!GuardTypes /\ H!DeviceTypes /\ H!ServingTypes
        /\ StageOK /\ LooksOK /\ HeldOK /\ RevokedOK /\ LostOK /\ LateOK
    BY DEF HelperInv
  <1>1. H!WorldTypes'
    BY <1>0 DEF H!WorldTypes, H!world
  <1>2. H!GuardTypes'
    BY <1>0 DEF H!GuardTypes, H!guard, H!devices
  <1>3. H!DeviceTypes'
    BY <1>0 DEF H!DeviceTypes, H!devices, H!serving, StageOK
  <1>4. H!ServingTypes'
    BY <1>0 DEF H!ServingTypes, H!serving
  <1>5. StageOK'
    BY <1>0 DEF StageOK, Checking, H!world, H!serving, H!devices
  <1>6. LooksOK'
    BY <1>0 DEF LooksOK, H!guard, H!serving, H!world
  <1>7. HeldOK'
    BY <1>0 DEF HeldOK, H!devices, H!serving
  <1>8. RevokedOK'
    BY <1>0 DEF RevokedOK, Doomed, H!guard, H!devices
  <1>9. LostOK'
    BY <1>0 DEF LostOK, Doomed, Unsettled, Checking, H!guard, H!devices, H!serving
  <1>10. LateOK'
    BY <1>0 DEF LateOK, Checking, Opened, H!world, H!guard, H!devices, H!serving
  <1> QED
    BY <1>1, <1>2, <1>3, <1>4, <1>5, <1>6, <1>7, <1>8, <1>9, <1>10 DEF HelperInv

(* Everything is open, and the request looks again.                        *)
LEMMA SettleKeeps ==
  ASSUME HelperInv, H!Settle
  PROVE  HelperInv'
  <1> USE GuardAssumption DEF H!NativeGuardAssumption, H!Settle
  <1>0. /\ H!WorldTypes /\ H!GuardTypes /\ H!DeviceTypes /\ H!ServingTypes
        /\ StageOK /\ LooksOK /\ HeldOK /\ RevokedOK /\ LostOK /\ LateOK
    BY DEF HelperInv
  <1>1. H!WorldTypes'
    BY <1>0 DEF H!WorldTypes, H!world
  <1>2. H!GuardTypes'
    BY <1>0 DEF H!GuardTypes, H!guard, H!devices
  <1>3. H!DeviceTypes'
    BY <1>0 DEF H!DeviceTypes, H!devices, H!serving
  <1>4. H!ServingTypes'
    BY <1>0 DEF H!ServingTypes, H!serving
  <1>5. StageOK'
    BY <1>0 DEF StageOK, Checking, H!world, H!serving, H!devices
  <1>6. LooksOK'
    BY <1>0 DEF LooksOK, H!guard, H!serving, H!world
  <1>7. HeldOK'
    BY <1>0 DEF HeldOK, H!devices, H!serving
  <1>8. RevokedOK'
    BY <1>0 DEF RevokedOK, Doomed, H!guard, H!devices
  <1>9. LostOK'
    BY <1>0 DEF LostOK, Doomed, Unsettled, Checking, H!guard, H!devices, H!serving, StageOK
  <1>10. LateOK'
    BY <1>0, OpensFacts DEF LateOK, Checking, Opened, H!world, H!guard, H!devices, H!serving, StageOK,
       H!ServingTypes
  <1> QED
    BY <1>1, <1>2, <1>3, <1>4, <1>5, <1>6, <1>7, <1>8, <1>9, <1>10 DEF HelperInv

(* The request reads a signal.                                             *)
LEMMA SignalReadKeeps ==
  ASSUME HelperInv, H!CheckSignal
  PROVE  HelperInv'
  <1> USE GuardAssumption DEF H!NativeGuardAssumption, H!Threads, H!Watchdogs, H!Signals, H!CheckSignal, H!Look
  <1>0. /\ H!WorldTypes /\ H!GuardTypes /\ H!DeviceTypes /\ H!ServingTypes
        /\ StageOK /\ LooksOK /\ HeldOK /\ RevokedOK /\ LostOK /\ LateOK
    BY DEF HelperInv
  <1>1. H!WorldTypes'
    BY <1>0 DEF H!WorldTypes, H!world
  <1>2. H!GuardTypes'
    BY <1>0 DEF H!GuardTypes, H!guard, H!devices
  <1>3. H!DeviceTypes'
    BY <1>0 DEF H!DeviceTypes, H!devices, H!serving
  <1>4. H!ServingTypes'
    BY <1>0 DEF H!ServingTypes, H!serving
  <1>5. StageOK'
    BY <1>0 DEF StageOK, Checking, H!world, H!serving, H!devices
  <1>6. LooksOK'
    BY <1>0 DEF LooksOK, H!guard, H!serving, H!world, H!GuardTypes
  <1>7. HeldOK'
    BY <1>0 DEF HeldOK, H!devices, H!serving
  <1>8. RevokedOK'
    BY <1>0 DEF RevokedOK, Doomed, H!guard, H!devices
  <1>9. LostOK'
    BY <1>0 DEF LostOK, Doomed, Unsettled, Checking, H!guard, H!devices, H!serving
  <1>10. LateOK'
    BY <1>0 DEF LateOK, Checking, Opened, H!world, H!guard, H!devices, H!serving
  <1> QED
    BY <1>1, <1>2, <1>3, <1>4, <1>5, <1>6, <1>7, <1>8, <1>9, <1>10 DEF HelperInv

(* Whoever sets a latch closes everything; the others leave what is doomed *)
(* doomed.                                                                 *)
LEMMA LatchesKeep ==
  ASSUME HelperInv, NEW t \in H!Threads, H!CloseAll(t) \/ UNCHANGED sweep,
         UNCHANGED <<registered, open, slot, abandoned, late>>,
         revoked' # revoked => H!CloseAll(t) /\ revoked',
         at = "register" \/ at' # "register",
         \A s \in lost' : H!CloseAll(t) \/ (s \in lost /\ \A d \in open : Unsettled(d, s) => Unsettled(d, s)')
  PROVE  RevokedOK' /\ LostOK' /\ sweep' \in [H!Threads -> H!Sweeps(registered)]
  <1>0. /\ H!GuardTypes /\ H!DeviceTypes /\ RevokedOK /\ LostOK
        /\ \A d \in open : d \in Nat
    <2>1. \A d \in open : d \in Nat
      BY GuardAssumption DEF HelperInv, H!DeviceTypes, H!NativeGuardAssumption
    <2> QED
      BY <2>1 DEF HelperInv
  <1>1. /\ \A d \in 1..registered : Doomed(d) => Doomed(d)'
        /\ H!CloseAll(t) => \A d \in 1..registered : Doomed(d)'
        /\ sweep' \in [H!Threads -> H!Sweeps(registered)]
    BY <1>0, SweepKeeps
  <1>2. \A d \in open : d <= registered => d \in 1..registered
    BY <1>0 DEF H!DeviceTypes
  <1>3. RevokedOK'
    BY <1>0, <1>1, <1>2 DEF RevokedOK
  <1>4. LostOK'
    BY <1>0, <1>1, <1>2 DEF LostOK
  <1> QED
    BY <1>1, <1>3, <1>4

(* The lease watchdog sets its latch.                                      *)
LEMMA LeaseLatchKeeps ==
  ASSUME HelperInv, H!LeaseLatch
  PROVE  HelperInv'
  <1>0. /\ H!WorldTypes /\ H!GuardTypes /\ H!DeviceTypes /\ H!ServingTypes
        /\ StageOK /\ LooksOK /\ HeldOK /\ RevokedOK /\ LostOK /\ LateOK
    BY DEF HelperInv
  <1>1. /\ UNCHANGED <<desktop, registered, open, slot, abandoned, late, asked, todo, stage, at, lost, turn>>
        /\ saw' = [saw EXCEPT !["lease"] = "nothing"] /\ revoked' = TRUE
        /\ H!CloseAll("lease") \/ UNCHANGED sweep
        /\ revoked' # revoked => H!CloseAll("lease") /\ revoked'
    BY <1>0 DEF H!LeaseLatch, H!LatchRevoked, H!world, H!devices, H!serving, H!GuardTypes
  <1>2. "lease" \in H!Threads /\ \A d, s : Unsettled(d, s) => Unsettled(d, s)'
    BY <1>1 DEF H!Threads, H!Watchdogs, Unsettled, Checking
  <1>3. RevokedOK' /\ LostOK' /\ sweep' \in [H!Threads -> H!Sweeps(registered)]
    BY <1>1, <1>2, LatchesKeep
  <1>4. H!WorldTypes'
    BY <1>0 DEF H!LeaseLatch, H!WorldTypes, H!world
  <1>5. H!GuardTypes'
    BY <1>0, <1>1, <1>3 DEF H!LeaseLatch, H!GuardTypes
  <1>6. H!DeviceTypes' /\ H!ServingTypes' /\ StageOK'
    BY <1>0, <1>1 DEF H!DeviceTypes, H!ServingTypes, StageOK, Checking
  <1>7. LooksOK'
    BY <1>0, <1>1 DEF LooksOK, H!GuardTypes, H!Threads, H!Watchdogs
  <1>8. HeldOK' /\ LateOK'
    BY <1>0, <1>1 DEF HeldOK, LateOK, Opened, Checking
  <1> QED
    BY <1>3, <1>4, <1>5, <1>6, <1>7, <1>8 DEF HelperInv

(* The request sets it.                                                    *)
LEMMA RequestLatchKeeps ==
  ASSUME HelperInv, H!CheckLatch
  PROVE  HelperInv'
  <1>0. /\ H!WorldTypes /\ H!GuardTypes /\ H!DeviceTypes /\ H!ServingTypes
        /\ StageOK /\ LooksOK /\ HeldOK /\ RevokedOK /\ LostOK /\ LateOK
    BY DEF HelperInv
  <1>1. /\ UNCHANGED <<desktop, registered, open, slot, abandoned, late, asked, todo, stage, lost, turn, saw>>
        /\ revoked' = TRUE /\ at = "latch" /\ at' = "closing"
        /\ H!CloseAll("request") \/ UNCHANGED sweep
        /\ revoked' # revoked => H!CloseAll("request") /\ revoked'
    BY <1>0 DEF H!CheckLatch, H!LatchRevoked, H!world, H!devices, H!GuardTypes
  <1>2. "request" \in H!Threads /\ \A d, s : Unsettled(d, s) => Unsettled(d, s)'
    BY <1>1 DEF H!Threads, H!Watchdogs, Unsettled, Checking
  <1>3. RevokedOK' /\ LostOK' /\ sweep' \in [H!Threads -> H!Sweeps(registered)]
    BY <1>1, <1>2, LatchesKeep
  <1>4. H!WorldTypes'
    BY <1>0 DEF H!CheckLatch, H!WorldTypes, H!world
  <1>5. H!GuardTypes'
    BY <1>0, <1>1, <1>3 DEF H!CheckLatch, H!GuardTypes
  <1>6. H!DeviceTypes' /\ H!ServingTypes' /\ StageOK'
    BY <1>0, <1>1 DEF H!DeviceTypes, H!ServingTypes, StageOK, Checking
  <1>7. LooksOK'
    BY <1>0, <1>1 DEF LooksOK
  <1>8. HeldOK' /\ LateOK'
    BY <1>0, <1>1 DEF HeldOK, LateOK, Opened, Checking
  <1> QED
    BY <1>3, <1>4, <1>5, <1>6, <1>7, <1>8 DEF HelperInv

(* The screen watchdog closes on the edge.                                 *)
LEMMA ScreenKeeps ==
  ASSUME HelperInv, H!ScreenSignal \/ H!ScreenLook
  PROVE  HelperInv'
  <1>0. /\ H!WorldTypes /\ H!GuardTypes /\ H!DeviceTypes /\ H!ServingTypes
        /\ StageOK /\ LooksOK /\ HeldOK /\ RevokedOK /\ LostOK /\ LateOK
    BY DEF HelperInv
  <1>1. /\ UNCHANGED <<desktop, valid, unlocked, good, registered, open, slot, abandoned, late>>
        /\ UNCHANGED <<asked, todo, stage, at, lost, turn, saw, revoked>>
        /\ wasUnlocked' \in BOOLEAN
        /\ H!CloseAll("screen") \/ UNCHANGED sweep
    <2>1. queue # <<>> => Head(queue) \in BOOLEAN
      BY <1>0 DEF H!WorldTypes
    <2> QED
      BY <2>1 DEF H!ScreenSignal, H!ScreenLook, H!ScreenSees, H!devices, H!serving
  <1>2. "screen" \in H!Threads /\ \A d, s : Unsettled(d, s) => Unsettled(d, s)'
    BY <1>1 DEF H!Threads, H!Watchdogs, Unsettled, Checking
  <1>3. RevokedOK' /\ LostOK' /\ sweep' \in [H!Threads -> H!Sweeps(registered)]
    BY <1>1, <1>2, LatchesKeep
  <1>4. H!WorldTypes'
    <2>1. queue' \in Seq(BOOLEAN)
      BY <1>0 DEF H!ScreenSignal, H!ScreenLook, H!WorldTypes
    <2>2. shifts' \in 0..MaxShifts[desktop]
      <3>1. MaxShifts[desktop] \in Nat
        BY <1>0, GuardAssumption DEF H!NativeGuardAssumption, H!WorldTypes
      <3> QED
        BY <1>0, <3>1 DEF H!ScreenSignal, H!ScreenLook, H!Look, H!WorldTypes
    <2> QED
      BY <1>0, <1>1, <2>1, <2>2 DEF H!WorldTypes
  <1>5. H!GuardTypes'
    BY <1>0, <1>1, <1>3 DEF H!GuardTypes
  <1>6. H!DeviceTypes' /\ H!ServingTypes' /\ StageOK'
    BY <1>0, <1>1 DEF H!DeviceTypes, H!ServingTypes, StageOK, Checking
  <1>7. LooksOK'
    BY <1>0, <1>1 DEF LooksOK
  <1>8. HeldOK' /\ LateOK'
    BY <1>0, <1>1 DEF HeldOK, LateOK, Opened, Checking
  <1> QED
    BY <1>3, <1>4, <1>5, <1>6, <1>7, <1>8 DEF HelperInv

(* The frame watchdog clears or sets the latch of a signal.                *)
LEMMA FrameMarkKeeps ==
  ASSUME HelperInv, H!FrameMark
  PROVE  HelperInv'
  <1>0. /\ H!WorldTypes /\ H!GuardTypes /\ H!DeviceTypes /\ H!ServingTypes
        /\ StageOK /\ LooksOK /\ HeldOK /\ RevokedOK /\ LostOK /\ LateOK
    BY DEF HelperInv
  <1>1. /\ UNCHANGED <<desktop, registered, open, slot, abandoned, late, asked, todo, stage, at, revoked>>
        /\ saw' = [saw EXCEPT !["frame"] = "nothing"] /\ turn' = [turn EXCEPT !["frame"] = 3 - @]
        /\ H!CloseAll("frame") \/ UNCHANGED sweep
        /\ \A s \in lost' : H!CloseAll("frame") \/ s \in lost
        /\ saw["frame"] # "nothing" /\ lost' \subseteq lost \cup {turn["frame"]}
    BY <1>0 DEF H!FrameMark, H!LatchSignal, H!world, H!devices, H!serving, H!GuardTypes
  <1>g. /\ saw \in [H!Threads -> {"nothing", "good", "bad"}] /\ turn \in [H!Threads -> 1..2]
        /\ "frame" \in H!Threads /\ "request" \in H!Threads
    BY <1>0 DEF H!GuardTypes, H!Signals, H!Threads, H!Watchdogs
  <1>2. \A d, s : Unsettled(d, s) => Unsettled(d, s)'
    BY <1>1, <1>g DEF Unsettled, Checking
  <1>3. RevokedOK' /\ LostOK' /\ sweep' \in [H!Threads -> H!Sweeps(registered)]
    BY <1>1, <1>g, <1>2, LatchesKeep
  <1>4. H!WorldTypes'
    BY <1>0 DEF H!FrameMark, H!WorldTypes, H!world
  <1>5. H!GuardTypes'
    <2>1. turn' \in [H!Threads -> 1..2] /\ saw' \in [H!Threads -> {"nothing", "good", "bad"}] /\ lost' \subseteq 1..2
      BY <1>0, <1>1, <1>g DEF H!GuardTypes, H!Signals
    <2> QED
      BY <1>0, <1>1, <1>3, <2>1 DEF H!FrameMark, H!GuardTypes, H!Signals
  <1>6. H!DeviceTypes' /\ H!ServingTypes' /\ StageOK'
    BY <1>0, <1>1 DEF H!DeviceTypes, H!ServingTypes, StageOK, Checking
  <1>7. LooksOK'
    BY <1>0, <1>1, <1>g DEF LooksOK
  <1>8. HeldOK' /\ LateOK'
    BY <1>0, <1>1 DEF HeldOK, LateOK, Opened, Checking
  <1> QED
    BY <1>3, <1>4, <1>5, <1>6, <1>7, <1>8 DEF HelperInv

(* The first look of validate_now, and the one after a closing.            *)
LEMMA RefusalKeeps ==
  ASSUME HelperInv, H!CheckFlag \/ H!CheckClosed
  PROVE  HelperInv'
  <1>0. /\ H!WorldTypes /\ H!GuardTypes /\ H!DeviceTypes /\ H!ServingTypes
        /\ StageOK /\ LooksOK /\ HeldOK /\ RevokedOK /\ LostOK /\ LateOK
    BY DEF HelperInv
  <1>1. H!WorldTypes'
    BY <1>0 DEF H!CheckFlag, H!CheckClosed, H!WorldTypes, H!world
  <1>2. CASE H!Refuse
    <2>1. UNCHANGED <<desktop, H!guard>> /\ Checking /\ at # "signal"
      BY DEF H!CheckFlag, H!CheckClosed, H!world, Checking
    <2> QED
      BY <1>1, <1>2, <2>1, RefuseKeeps DEF HelperInv
  <1>3. CASE ~H!Refuse
    <2>1. /\ at = "flag" /\ at' = "token" /\ ~revoked
          /\ UNCHANGED <<desktop, asked, todo, stage, registered, open, slot, abandoned, late, revoked, lost>>
          /\ UNCHANGED <<wasUnlocked, saw, turn, sweep>>
      BY <1>3 DEF H!CheckFlag, H!CheckClosed, H!world, H!guard, H!devices
    <2>2. H!GuardTypes' /\ H!DeviceTypes' /\ H!ServingTypes' /\ StageOK'
      BY <1>0, <2>1 DEF H!GuardTypes, H!DeviceTypes, H!ServingTypes, StageOK, Checking
    <2>3. LooksOK' /\ HeldOK' /\ RevokedOK' /\ LostOK'
      BY <1>0, <2>1 DEF LooksOK, HeldOK, RevokedOK, LostOK, Doomed, Unsettled, Checking
    <2>4. LateOK'
      BY <1>0, <2>1 DEF LateOK, Opened, Checking
    <2> QED
      BY <1>1, <2>2, <2>3, <2>4 DEF HelperInv
  <1> QED
    BY <1>2, <1>3

(* The look that finds nothing missing.                                    *)
LEMMA PassKeeps ==
  ASSUME HelperInv, H!Pass, Checking, at # "flag",
         UNCHANGED <<desktop, registered, open, slot, abandoned, late, revoked, sweep>>,
         lost' \subseteq lost, \A s \in lost' : \A d \in open : ~Unsettled(d, s)
  PROVE  H!DeviceTypes' /\ H!ServingTypes' /\ StageOK' /\ HeldOK' /\ RevokedOK' /\ LostOK' /\ LateOK'
  <1>0. /\ H!WorldTypes /\ H!GuardTypes /\ H!DeviceTypes /\ H!ServingTypes
        /\ StageOK /\ LooksOK /\ HeldOK /\ RevokedOK /\ LostOK /\ LateOK
    BY DEF HelperInv
  <1>1. /\ UNCHANGED <<asked, todo, stage>>
        /\ stage = "after" => at' \in {"write", "geometry"}
        /\ stage # "after" => at' = "open"
    BY <1>0 DEF H!Pass, H!ServingTypes
  <1>2. H!DeviceTypes' /\ H!ServingTypes'
    BY <1>0, <1>1 DEF H!DeviceTypes, H!ServingTypes, Checking
  <1>3. StageOK'
    BY <1>0, <1>1 DEF StageOK, Checking
  <1>4. HeldOK' /\ RevokedOK'
    BY <1>0, <1>1 DEF HeldOK, RevokedOK, Doomed, Checking
  <1>5. LostOK'
    BY <1>0, <1>1 DEF LostOK, Doomed
  <1>6. LateOK'
    BY <1>0, <1>1 DEF LateOK, Opened, Checking
  <1> QED
    BY <1>2, <1>3, <1>4, <1>5, <1>6

(* The look at the screen: on GNOME and KDE the last one.                  *)
LEMMA CheckScreenKeeps ==
  ASSUME HelperInv, H!CheckScreen
  PROVE  HelperInv'
  <1>0. /\ H!WorldTypes /\ H!GuardTypes /\ H!DeviceTypes /\ H!ServingTypes
        /\ StageOK /\ LooksOK /\ HeldOK /\ RevokedOK /\ LostOK /\ LateOK
    BY DEF HelperInv
  <1>1. UNCHANGED <<desktop, valid, unlocked, good, queue, revoked, lost, wasUnlocked, saw, turn, sweep>> /\ at = "screen"
    BY DEF H!CheckScreen, H!guard
  <1>2. H!WorldTypes'
    <2>1. MaxShifts[desktop] \in Nat
      BY <1>0, GuardAssumption DEF H!NativeGuardAssumption, H!WorldTypes
    <2>2. shifts' \in 0..MaxShifts[desktop]
      BY <1>0, <2>1 DEF H!CheckScreen, H!Look, H!WorldTypes
    <2> QED
      BY <1>0, <1>1, <2>2 DEF H!WorldTypes
  <1>3. CASE H!Refuse
    BY <1>1, <1>2, <1>3, RefuseKeeps DEF HelperInv, Checking, H!guard
  <1>4. CASE desktop = "gnome" /\ H!Pass /\ UNCHANGED H!devices
    <2>1. lost = {} /\ Checking /\ UNCHANGED <<registered, open, slot, abandoned, late>>
      BY <1>0, <1>1, <1>4 DEF LooksOK, Checking, H!devices
    <2>2. H!DeviceTypes' /\ H!ServingTypes' /\ StageOK' /\ HeldOK' /\ RevokedOK' /\ LostOK' /\ LateOK'
      BY <1>1, <1>4, <2>1, PassKeeps
    <2>3. H!GuardTypes' /\ LooksOK'
      BY <1>0, <1>1, <2>1 DEF H!GuardTypes, LooksOK
    <2> QED
      BY <1>2, <2>2, <2>3 DEF HelperInv
  <1>5. CASE desktop = "hyprland" /\ at' = "signal" /\ UNCHANGED <<asked, todo, stage, H!devices>>
    <2>1. UNCHANGED <<registered, open, slot, abandoned, late>>
      BY <1>5 DEF H!devices
    <2>2. H!GuardTypes' /\ H!DeviceTypes' /\ H!ServingTypes' /\ StageOK'
      BY <1>0, <1>1, <1>5, <2>1 DEF H!GuardTypes, H!DeviceTypes, H!ServingTypes, StageOK, Checking
    <2>3. LooksOK' /\ HeldOK' /\ RevokedOK'
      BY <1>0, <1>1, <1>5, <2>1 DEF LooksOK, HeldOK, RevokedOK, Doomed
    <2>4. LostOK'
      BY <1>0, <1>1, <1>5, <2>1 DEF LooksOK, LostOK, Doomed, Unsettled, Checking, H!GuardTypes, H!Signals
    <2>5. LateOK'
      BY <1>0, <1>1, <1>5, <2>1 DEF LateOK, Opened, Checking
    <2> QED
      BY <1>2, <2>2, <2>3, <2>4, <2>5 DEF HelperInv
  <1> QED
    BY <1>3, <1>4, <1>5 DEF H!CheckScreen

(* The look at a signal: clear or set its latch.                           *)
LEMMA CheckMarkKeeps ==
  ASSUME HelperInv, H!CheckMark
  PROVE  HelperInv'
  <1>0. /\ H!WorldTypes /\ H!GuardTypes /\ H!DeviceTypes /\ H!ServingTypes
        /\ StageOK /\ LooksOK /\ HeldOK /\ RevokedOK /\ LostOK /\ LateOK
    BY DEF HelperInv
  <1>1. /\ UNCHANGED <<desktop, registered, open, slot, abandoned, late, revoked, wasUnlocked>>
        /\ at = "signal" /\ saw' = [saw EXCEPT !["request"] = "nothing"]
    BY DEF H!CheckMark, H!world, H!devices
  <1>g. /\ saw \in [H!Threads -> {"nothing", "good", "bad"}] /\ turn \in [H!Threads -> 1..2]
        /\ "frame" \in H!Threads /\ "request" \in H!Threads /\ lost \subseteq 1..2 /\ revoked \in BOOLEAN
    BY <1>0 DEF H!GuardTypes, H!Signals, H!Threads, H!Watchdogs
  <1>2. H!WorldTypes'
    BY <1>0 DEF H!CheckMark, H!WorldTypes, H!world
  <1>3. CASE saw["request"] = "good" /\ turn["request"] = 1 /\ H!CheckMark
    <2>1. lost' = lost \ {1} /\ turn' = [turn EXCEPT !["request"] = 2] /\ UNCHANGED <<sweep, asked, todo, stage, at>>
      BY <1>3 DEF H!CheckMark, H!serving
    <2>2. H!DeviceTypes' /\ H!ServingTypes' /\ StageOK' /\ HeldOK' /\ RevokedOK' /\ LateOK'
      BY <1>0, <1>1, <2>1 DEF H!DeviceTypes, H!ServingTypes, StageOK, HeldOK, RevokedOK, LateOK, Doomed,
         Opened, Checking
    <2>3. LooksOK'
      BY <1>0, <1>1, <1>g, <2>1 DEF LooksOK
    <2>4. LostOK'
      BY <1>0, <1>1, <1>3, <1>g, <2>1 DEF LostOK, Doomed, Unsettled, Checking
    <2>5. turn' \in [H!Threads -> 1..2] /\ saw' \in [H!Threads -> {"nothing", "good", "bad"}]
      BY <1>1, <1>g, <2>1
    <2>6. H!GuardTypes'
      BY <1>0, <1>1, <1>g, <2>1, <2>5 DEF H!GuardTypes, H!Signals
    <2> QED
      BY <1>2, <2>2, <2>3, <2>4, <2>6 DEF HelperInv
  <1>4. CASE saw["request"] = "good" /\ turn["request"] = 2 /\ H!CheckMark
    <2>1. lost' = lost \ {2} /\ turn' = [turn EXCEPT !["request"] = 1] /\ UNCHANGED sweep /\ H!Pass
      BY <1>4 DEF H!CheckMark
    <2>2. Checking /\ \A s \in lost' : \A d \in open : ~Unsettled(d, s)
      BY <1>1, <1>4, <1>g, <2>1 DEF Checking, Unsettled
    <2>3. H!DeviceTypes' /\ H!ServingTypes' /\ StageOK' /\ HeldOK' /\ RevokedOK' /\ LostOK' /\ LateOK'
      BY <1>1, <2>1, <2>2, PassKeeps
    <2>4. LooksOK'
      BY <1>0, <1>1, <1>g, <2>1 DEF LooksOK
    <2>5. turn' \in [H!Threads -> 1..2] /\ saw' \in [H!Threads -> {"nothing", "good", "bad"}]
      BY <1>1, <1>g, <2>1
    <2>6. H!GuardTypes'
      BY <1>0, <1>1, <1>g, <2>1, <2>5 DEF H!GuardTypes, H!Signals
    <2> QED
      BY <1>2, <2>3, <2>4, <2>6 DEF HelperInv
  <1>5. CASE saw["request"] = "bad" /\ H!CheckMark
    <2>1. /\ turn' = [turn EXCEPT !["request"] = 1] /\ at' = "closing" /\ UNCHANGED <<asked, todo, stage>>
          /\ lost' = lost \cup {turn["request"]}
          /\ H!CloseAll("request") \/ UNCHANGED sweep
          /\ turn["request"] \notin lost => H!CloseAll("request")
      BY <1>5 DEF H!CheckMark, H!LatchSignal
    <2>2. \A s \in lost' : H!CloseAll("request") \/ s \in lost
      BY <2>1
    <2>3. \A d, s : Unsettled(d, s) => Unsettled(d, s)'
      BY <1>1, <2>1 DEF Unsettled, Checking
    <2>4. RevokedOK' /\ LostOK' /\ sweep' \in [H!Threads -> H!Sweeps(registered)]
      BY <1>1, <1>g, <2>1, <2>2, <2>3, LatchesKeep
    <2>5. turn' \in [H!Threads -> 1..2] /\ saw' \in [H!Threads -> {"nothing", "good", "bad"}]
      BY <1>1, <1>g, <2>1
    <2>6. H!GuardTypes'
      BY <1>0, <1>1, <1>g, <2>1, <2>4, <2>5 DEF H!GuardTypes, H!Signals
    <2>7. H!DeviceTypes' /\ H!ServingTypes' /\ StageOK' /\ HeldOK' /\ LateOK'
      BY <1>0, <1>1, <2>1 DEF H!DeviceTypes, H!ServingTypes, StageOK, HeldOK, LateOK, Opened, Checking
    <2>8. LooksOK'
      BY <1>0, <1>1, <1>g, <2>1 DEF LooksOK, StageOK
    <2> QED
      BY <1>2, <2>4, <2>6, <2>7, <2>8 DEF HelperInv
  <1> QED
    BY <1>3, <1>4, <1>5 DEF H!CheckMark

(* A device that is open is used again.                                    *)
LEMMA ReuseKeeps ==
  ASSUME HelperInv, H!Reuse
  PROVE  HelperInv'
  <1>0. /\ H!WorldTypes /\ H!GuardTypes /\ H!DeviceTypes /\ H!ServingTypes
        /\ StageOK /\ LooksOK /\ HeldOK /\ RevokedOK /\ LostOK /\ LateOK
    BY DEF HelperInv
  <1>1. /\ UNCHANGED <<desktop, valid, unlocked, good, shifts, queue, revoked, lost, wasUnlocked, saw, turn, sweep>>
        /\ UNCHANGED <<registered, open, slot, abandoned, late, asked, stage, at>>
        /\ todo' = Tail(todo) /\ todo # <<>> /\ at = "open"
    BY DEF H!Reuse, H!world, H!guard, H!devices
  <1>2. /\ todo' \in {H!Opens[asked], <<>>} \/ (asked = "both" /\ todo' = <<"relative">>)
        /\ Opened \subseteq Opened'
    BY <1>0, <1>1, NextTodo
  <1>3. H!WorldTypes' /\ H!GuardTypes' /\ H!DeviceTypes'
    BY <1>0, <1>1 DEF H!WorldTypes, H!GuardTypes, H!DeviceTypes
  <1>4. H!ServingTypes' /\ StageOK'
    BY <1>0, <1>1, <1>2 DEF H!ServingTypes, StageOK, Checking
  <1>5. LooksOK' /\ HeldOK' /\ RevokedOK' /\ LostOK'
    BY <1>0, <1>1 DEF LooksOK, HeldOK, RevokedOK, LostOK, Doomed, Unsettled, Checking
  <1>6. LateOK'
    BY <1>0, <1>1, <1>2 DEF LateOK, Checking
  <1> QED
    BY <1>3, <1>4, <1>5, <1>6 DEF HelperInv

(* A new device, and the registration that follows.                        *)
LEMMA CreateKeeps ==
  ASSUME HelperInv, H!Create
  PROVE  HelperInv'
  <1>0. /\ H!WorldTypes /\ H!GuardTypes /\ H!DeviceTypes /\ H!ServingTypes
        /\ StageOK /\ LooksOK /\ HeldOK /\ RevokedOK /\ LostOK /\ LateOK
    BY DEF HelperInv
  <1> DEFINE kind == Head(todo)
  <1>1. /\ UNCHANGED <<desktop, valid, unlocked, good, shifts, queue, revoked, lost, wasUnlocked, saw, turn, sweep>>
        /\ UNCHANGED <<registered, abandoned, late, asked, todo, stage>>
        /\ todo # <<>> /\ at = "open" /\ at' = "register" /\ registered < MaxDevices
        /\ open' = (open \ {slot[kind]}) \cup {registered + 1}
        /\ slot' = [slot EXCEPT ![kind] = 0]
    BY DEF H!Create, H!world, H!guard
  <1>2. kind \in H!Kinds /\ kind \notin Opened
    BY <1>0, <1>1, OpenedFacts
  <1>3. registered \in Nat /\ slot \in [H!Kinds -> 0..registered] /\ open \subseteq 1..registered /\ late \subseteq 1..registered
    BY <1>0, <1>1, GuardAssumption DEF H!DeviceTypes, H!NativeGuardAssumption
  <1> HIDE DEF kind
  <1>4. H!WorldTypes' /\ H!GuardTypes' /\ H!ServingTypes' /\ StageOK'
    BY <1>0, <1>1 DEF H!WorldTypes, H!GuardTypes, H!ServingTypes, StageOK, Checking
  <1>5. H!DeviceTypes'
    <2>1. slot' \in [H!Kinds -> 0..registered]
      <3>1. slot' = [slot EXCEPT ![kind] = 0] /\ slot \in [H!Kinds -> 0..registered] /\ 0 \in 0..registered
        BY <1>1, <1>3
      <3> QED
        BY <3>1
    <2>2. \A d \in open' : d \in 1..(registered + 1)
      BY <1>1, <1>3
    <2> QED
      BY <1>0, <1>1, <2>1, <2>2 DEF H!DeviceTypes
  <1>6. LooksOK'
    BY <1>0, <1>1 DEF LooksOK
  <1>7. HeldOK'
    BY <1>0, <1>1, <1>2, <1>3 DEF HeldOK, kind
  <1>8. RevokedOK'
    BY <1>0, <1>1, <1>3 DEF RevokedOK, Doomed
  <1>9. LostOK'
    BY <1>0, <1>1, <1>3 DEF LostOK, Doomed, Unsettled, Checking
  <1>10. LateOK'
    <2>1. Opened' = Opened
      BY <1>1 DEF Opened
    <2>2. \A d \in late \cap open' : d \in open
      BY <1>1, <1>3
    <2>3. \A k \in Opened : k \in H!Kinds => slot'[k] = slot[k]
      BY <1>1, <1>2, <1>3
    <2>4. Opened \subseteq H!Kinds
      BY <1>0, OpenedFacts DEF Opened, H!Kinds
    <2> QED
      BY <1>0, <1>1, <2>1, <2>2, <2>3, <2>4 DEF LateOK, Checking
  <1> QED
    BY <1>4, <1>5, <1>6, <1>7, <1>8, <1>9, <1>10 DEF HelperInv

(* The device is registered; on Hyprland the request looks again.          *)
LEMMA RegisterKeeps ==
  ASSUME HelperInv, H!Register
  PROVE  HelperInv'
  <1>0. /\ H!WorldTypes /\ H!GuardTypes /\ H!DeviceTypes /\ H!ServingTypes
        /\ StageOK /\ LooksOK /\ HeldOK /\ RevokedOK /\ LostOK /\ LateOK
    BY DEF HelperInv
  <1> DEFINE kind == Head(todo)
             new == registered + 1
  <1>1. /\ UNCHANGED <<desktop, valid, unlocked, good, shifts, queue, revoked, lost, wasUnlocked, saw, turn, sweep>>
        /\ UNCHANGED <<open, abandoned, asked>>
        /\ todo # <<>> /\ todo' = Tail(todo) /\ at = "register"
        /\ registered' = new /\ slot' = [slot EXCEPT ![kind] = new]
        /\ late' = late \cup (IF revoked THEN {new} ELSE {})
        /\ desktop = "hyprland" => stage' = "register" /\ at' = "flag"
        /\ desktop # "hyprland" => stage' = stage /\ at' = "open"
    BY <1>0 DEF H!Register, H!world, H!guard, StageOK
  <1>2. /\ kind \in H!Kinds /\ kind \notin Opened /\ Opened \subseteq H!Kinds
        /\ todo' \in {H!Opens[asked], <<>>} \/ (asked = "both" /\ todo' = <<"relative">>)
        /\ Opened \cup {kind} \subseteq Opened'
    BY <1>0, <1>1, OpenedFacts, NextTodo DEF Opened, H!Kinds
  <1>3. /\ registered \in Nat /\ MaxDevices \in Nat /\ registered < MaxDevices /\ slot \in [H!Kinds -> 0..registered]
        /\ open \subseteq 1..new /\ late \subseteq 1..registered /\ abandoned \subseteq 0..registered
    BY <1>0, <1>1, GuardAssumption DEF H!DeviceTypes, H!NativeGuardAssumption
  <1> HIDE DEF kind
  <1>4. H!WorldTypes'
    BY <1>0, <1>1 DEF H!WorldTypes
  <1>5. H!GuardTypes'
    <2>1. H!Sweeps(registered) \subseteq H!Sweeps(new)
      BY <1>3 DEF H!Sweeps
    <2>2. sweep' \in [H!Threads -> H!Sweeps(new)]
      BY <1>0, <1>1, <2>1 DEF H!GuardTypes
    <2> QED
      BY <1>0, <1>1, <2>2 DEF H!GuardTypes
  <1>6. H!DeviceTypes'
    BY <1>1, <1>2, <1>3 DEF H!DeviceTypes
  <1>7. H!ServingTypes' /\ StageOK'
    BY <1>0, <1>1, <1>2 DEF H!ServingTypes, StageOK, Checking
  <1>8. LooksOK'
    BY <1>0, <1>1 DEF LooksOK
  <1>9. slot'[kind] = new /\ \A k \in H!Kinds : k # kind => slot'[k] = slot[k]
    BY <1>1, <1>2, <1>3
  <1>10. HeldOK'
    <2> SUFFICES ASSUME NEW d \in open, d # new PROVE \E k \in H!Kinds : d = slot'[k]
      BY <1>0, <1>1, <1>2, <1>9 DEF HeldOK, StageOK
    <2>1. PICK k \in H!Kinds : d = slot[k]
      BY <1>0, <1>1 DEF HeldOK
    <2>2. CASE k # kind
      BY <1>9, <2>1, <2>2
    <2>3. CASE k = kind
      BY <1>0, <1>1, <1>3, <2>1, <2>3 DEF HeldOK, kind
    <2> QED
      BY <2>2, <2>3
  <1>11. RevokedOK'
    BY <1>0, <1>1, <1>3 DEF RevokedOK, Doomed
  <1>12. LostOK'
    BY <1>0, <1>1, <1>3 DEF LostOK, LooksOK, Doomed, Unsettled, Checking
  <1>13. LateOK'
    BY <1>0, <1>1, <1>2, <1>3, <1>9 DEF LateOK, Checking, StageOK
  <1> QED
    BY <1>4, <1>5, <1>6, <1>7, <1>8, <1>10, <1>11, <1>12, <1>13 DEF HelperInv

(* A device cannot be opened.                                              *)
LEMMA OpenFailsKeeps ==
  ASSUME HelperInv, H!OpenFails
  PROVE  HelperInv'
  <1>0. /\ H!WorldTypes /\ H!GuardTypes /\ H!DeviceTypes /\ H!ServingTypes
        /\ StageOK /\ LooksOK /\ HeldOK /\ RevokedOK /\ LostOK /\ LateOK
    BY DEF HelperInv
  <1>1. /\ UNCHANGED <<desktop, valid, unlocked, good, shifts, queue, revoked, lost, wasUnlocked, saw, turn, sweep>>
        /\ UNCHANGED <<registered, late>> /\ at = "open" /\ todo # <<>>
        /\ at' = "idle" /\ asked' = "key" /\ todo' = <<>> /\ stage' = "before"
        /\ abandoned \subseteq abandoned'
    BY DEF H!OpenFails, H!Answer, H!world, H!guard
  <1>2. registered \in Nat /\ slot \in [H!Kinds -> 0..registered] /\ open \subseteq 1..registered /\ "pointer" \in H!Kinds
    BY <1>0, <1>1, GuardAssumption DEF H!DeviceTypes, H!NativeGuardAssumption, H!Kinds
  <1>3. /\ open' \subseteq open /\ slot' \in [H!Kinds -> 0..registered] /\ abandoned' \subseteq 0..registered
        /\ \A k \in H!Kinds : slot'[k] = slot[k] \/ slot[k] \notin open'
    <2>1. abandoned' \subseteq abandoned \cup {slot["pointer"]}
      BY DEF H!OpenFails
    <2>2. abandoned' \subseteq 0..registered
      BY <1>0, <1>2, <2>1 DEF H!DeviceTypes
    <2>3. CASE UNCHANGED <<open, slot>>
      BY <1>2, <2>2, <2>3
    <2>4. CASE open' = open \ {slot["pointer"]} /\ slot' = [slot EXCEPT !["pointer"] = 0]
      BY <1>2, <2>2, <2>4
    <2> QED
      BY <2>3, <2>4 DEF H!OpenFails
  <1>4. H!WorldTypes' /\ H!GuardTypes' /\ H!ServingTypes' /\ StageOK'
    BY <1>0, <1>1, OpensFacts DEF H!WorldTypes, H!GuardTypes, H!ServingTypes, StageOK, Checking
  <1>5. H!DeviceTypes'
    BY <1>0, <1>1, <1>2, <1>3 DEF H!DeviceTypes
  <1>6. LooksOK'
    BY <1>0, <1>1 DEF LooksOK
  <1>7. HeldOK' /\ RevokedOK' /\ LostOK'
    BY <1>0, <1>1, <1>3 DEF HeldOK, RevokedOK, LostOK, Doomed, Unsettled, Checking
  <1>8. LateOK'
    <2>1. \A k \in Opened : k = "pointer" /\ slot["pointer"] \in abandoned'
      BY <1>0, <1>1, OpenedFacts DEF H!OpenFails, H!ServingTypes
    <2>2. late # {} => revoked
      BY <1>0 DEF LateOK
    <2>3. CASE desktop = "hyprland"
      BY <1>0, <1>1, <1>3, <2>2, <2>3 DEF LateOK
    <2>4. CASE desktop # "hyprland"
      <3>1. \A d \in late \cap open : d \in abandoned'
        BY <1>0, <1>1, <2>1, <2>4 DEF LateOK
      <3> QED
        BY <1>1, <1>3, <2>2, <2>4, <3>1 DEF LateOK
    <2> QED
      BY <2>3, <2>4
  <1> QED
    BY <1>4, <1>5, <1>6, <1>7, <1>8 DEF HelperInv

(* What follows once everything is open and the request has looked again.  *)
LEMMA EndKeeps ==
  ASSUME HelperInv, H!Geometry \/ H!Write \/ H!Shutdown
  PROVE  HelperInv'
  <1>0. /\ H!WorldTypes /\ H!GuardTypes /\ H!DeviceTypes /\ H!ServingTypes
        /\ StageOK /\ LooksOK /\ HeldOK /\ RevokedOK /\ LostOK /\ LateOK
    BY DEF HelperInv
  <1>1. /\ UNCHANGED <<desktop, valid, unlocked, good, shifts, queue, revoked, lost, wasUnlocked, saw, turn, sweep>>
        /\ UNCHANGED <<registered, abandoned, late>> /\ at \in {"geometry", "write", "idle"} /\ at' \in {"write", "idle", "gone"}
    BY DEF H!Geometry, H!Write, H!Shutdown, H!Answer, H!Drop, H!world, H!guard, H!devices
  <1>2. registered \in Nat /\ slot \in [H!Kinds -> 0..registered] /\ open \subseteq 1..registered
    BY <1>0, <1>1, GuardAssumption DEF H!DeviceTypes, H!NativeGuardAssumption
  <1>3. /\ open' \subseteq open /\ slot' \in [H!Kinds -> 0..registered]
        /\ \A k \in H!Kinds : slot'[k] = slot[k] \/ slot[k] \notin open'
    BY <1>2 DEF H!Geometry, H!Write, H!Shutdown, H!Drop, H!devices
  <1>4. H!ServingTypes' /\ StageOK'
    BY <1>0, <1>1, OpensFacts DEF H!Geometry, H!Write, H!Shutdown, H!Answer, H!ServingTypes, StageOK, Checking
  <1>5. H!WorldTypes' /\ H!GuardTypes' /\ H!DeviceTypes'
    BY <1>0, <1>1, <1>2, <1>3 DEF H!WorldTypes, H!GuardTypes, H!DeviceTypes
  <1>6. LooksOK'
    BY <1>0, <1>1 DEF LooksOK
  <1>7. HeldOK' /\ RevokedOK' /\ LostOK'
    BY <1>0, <1>1, <1>3 DEF HeldOK, RevokedOK, LostOK, Doomed, Unsettled, Checking
  <1>8. LateOK'
    <2>1. CASE at = "idle"
      <3>1. stage' = "before" /\ at' = "gone" /\ \A d \in late \cap open : d \in abandoned /\ desktop # "hyprland"
        BY <1>0, <2>1 DEF H!Geometry, H!Write, H!Shutdown, LateOK, StageOK
      <3> QED
        BY <1>0, <1>1, <1>3, <3>1 DEF LateOK
    <2>2. CASE at # "idle"
      <3>1. late = {} /\ at' \in {"write", "idle"}
        BY <1>0, <1>1, <2>2 DEF H!Geometry, H!Write, H!Shutdown, H!Answer, LateOK, StageOK
      <3> QED
        BY <1>0, <1>1, <3>1 DEF LateOK
    <2> QED
      BY <2>1, <2>2
  <1> QED
    BY <1>4, <1>5, <1>6, <1>7, <1>8 DEF HelperInv

(* Every step preserves the invariant.                                     *)
LEMMA HelperNextInv == HelperInv /\ (H!Next \/ UNCHANGED helpervars) => HelperInv'
  <1>1. ASSUME HelperInv, UNCHANGED helpervars
        PROVE  HelperInv'
    <2>1. UNCHANGED <<desktop, valid, unlocked, good, shifts, queue>>
      BY <1>1 DEF helpervars
    <2>2. UNCHANGED <<revoked, lost, wasUnlocked, saw, turn, sweep>>
      BY <1>1 DEF helpervars
    <2>3. UNCHANGED <<registered, open, slot, abandoned, late, asked, todo, stage, at>>
      BY <1>1 DEF helpervars
    <2>4. H!WorldTypes' /\ H!GuardTypes' /\ H!DeviceTypes' /\ H!ServingTypes'
      BY <1>1, <2>1, <2>2, <2>3 DEF HelperInv, H!WorldTypes, H!GuardTypes, H!DeviceTypes, H!ServingTypes
    <2>5. StageOK' /\ LooksOK' /\ HeldOK'
      BY <1>1, <2>1, <2>2, <2>3 DEF HelperInv, StageOK, LooksOK, HeldOK, Checking
    <2>6. RevokedOK' /\ LostOK'
      BY <1>1, <2>1, <2>2, <2>3 DEF HelperInv, RevokedOK, LostOK, Doomed, Unsettled, Checking
    <2>7. LateOK'
      BY <1>1, <2>1, <2>2, <2>3 DEF HelperInv, LateOK, Checking, Opened
    <2> QED
      BY <2>4, <2>5, <2>6, <2>7 DEF HelperInv
  <1>2. HelperInv /\ H!Watch => HelperInv'
    BY LookKeeps, LeaseLatchKeeps, ScreenKeeps, FrameMarkKeeps DEF H!Watch
  <1>3. HelperInv /\ H!Check => HelperInv'
    BY RefusalKeeps, TokenKeeps, RequestLatchKeeps, CheckScreenKeeps, SignalReadKeeps, CheckMarkKeeps DEF H!Check
  <1>4. HelperInv /\ H!Next => HelperInv'
    BY <1>2, <1>3, ChangeKeeps, CloseKeeps, BeginKeeps, ReuseKeeps, CreateKeeps, OpenFailsKeeps, RegisterKeeps,
       SettleKeeps, EndKeeps DEF H!Next
  <1> QED
    BY <1>1, <1>4

(* It holds before anything has happened.                                  *)
LEMMA HelperStart == H!Init => HelperInv
  <1> SUFFICES ASSUME H!Init PROVE HelperInv
    OBVIOUS
  <1> USE DEF H!Init
  <1>1. H!WorldTypes
    <2>1. desktop \in Desktops /\ MaxShifts[desktop] \in Nat /\ <<>> \in Seq(BOOLEAN)
      BY GuardAssumption DEF H!NativeGuardAssumption
    <2> QED
      BY <2>1 DEF H!WorldTypes
  <1>2. H!GuardTypes
    <2>1. H!NoSweep \in H!Sweeps(0)
      BY DEF H!Sweeps
    <2>2. sweep \in [H!Threads -> H!Sweeps(registered)]
      BY <2>1
    <2>3. saw \in [H!Threads -> {"nothing", "good", "bad"}] /\ turn \in [H!Threads -> H!Signals]
      BY DEF H!Signals
    <2> QED
      BY <2>2, <2>3 DEF H!GuardTypes
  <1>3. H!DeviceTypes /\ H!ServingTypes
    BY GuardAssumption, OpensFacts DEF H!DeviceTypes, H!ServingTypes, H!NativeGuardAssumption
  <1>4. StageOK /\ LooksOK
    BY DEF StageOK, LooksOK, Checking, H!Threads, H!Watchdogs
  <1>5. HeldOK /\ RevokedOK /\ LostOK /\ LateOK
    BY DEF HeldOK, RevokedOK, LostOK, LateOK
  <1> QED
    BY <1>1, <1>2, <1>3, <1>4, <1>5 DEF HelperInv

(* It implies what is promised of a helper that found its grant gone.      *)
LEMMA HelperAccounted == HelperInv => HelperStaysShut
  <1> SUFFICES ASSUME HelperInv PROVE HelperStaysShut
    OBVIOUS
  <1>0. /\ H!WorldTypes /\ H!GuardTypes /\ H!DeviceTypes /\ H!ServingTypes
        /\ StageOK /\ LooksOK /\ HeldOK /\ RevokedOK /\ LostOK /\ LateOK
    BY DEF HelperInv
  <1>1. H!TypeOK
    BY <1>0 DEF H!TypeOK
  <1>2. H!DevicesAreHeld
    BY <1>0 DEF HeldOK, H!DevicesAreHeld
  <1>3. H!Quiet => \A d \in 1..registered : ~Doomed(d)
    BY <1>0 DEF H!Quiet, H!Sweeping, H!NoSweep, Doomed
  <1>4. at # "register" => open \subseteq 1..registered /\ \A d \in open : d <= registered
    BY <1>0, GuardAssumption DEF H!DeviceTypes, H!NativeGuardAssumption
  <1>5. H!RevokedStaysShut
    <2> SUFFICES ASSUME revoked, H!Quiet
                 PROVE  /\ at = "write" => H!Target \notin open
                        /\ at \in {"idle", "gone"} => open \subseteq (IF desktop = "gnome" THEN abandoned \cap late ELSE {})
      BY DEF H!RevokedStaysShut
    <2>1. at # "register" => open \subseteq late
      BY <1>0, <1>3, <1>4 DEF RevokedOK
    <2>2. desktop \in {"gnome", "hyprland"}
      BY <1>0, GuardAssumption DEF H!WorldTypes, H!NativeGuardAssumption
    <2>3. at = "write" => late = {}
      BY <1>0 DEF LateOK, StageOK
    <2>4. at \in {"idle", "gone"} => late \cap open \subseteq (IF desktop = "gnome" THEN abandoned ELSE {})
      BY <1>0, <2>2 DEF LateOK
    <2> QED
      BY <2>1, <2>3, <2>4
  <1>6. H!LostStaysShut
    BY <1>0, <1>3, <1>4 DEF H!LostStaysShut, LostOK, Unsettled, Checking
  <1> QED
    BY <1>1, <1>2, <1>5, <1>6 DEF HelperStaysShut

(* A helper that found its grant gone or a signal missing, and closed what *)
(* was registered, neither writes nor stays open: for any number of        *)
(* devices, requests and changes, however the three watchdogs and the      *)
(* request that is being served interleave.                                *)
THEOREM RevokedHelperStaysShut == PartsSpec => []HelperStaysShut
  <1>1. PartsInit => HelperInv
    BY HelperStart DEF PartsInit
  <1>2. HelperInv /\ [PartsNext]_<<part, vars, pointvars, helpervars>> => HelperInv'
    BY HelperNextInv DEF PartsNext
  <1>3. HelperInv => HelperStaysShut
    BY HelperAccounted
  <1> QED
    BY <1>1, <1>2, <1>3, PTL DEF PartsSpec
=============================================================================
