------------------------------- MODULE Grant -------------------------------
(***************************************************************************)
(* What the desktop grant promises, with every lock, file and process left *)
(* out: at most one grant exists, it is identified by a number that is     *)
(* never used twice, an open grant may slide its deadline but never past   *)
(* the ceiling it was opened with, and a closed grant is closed for good:  *)
(* only a new grant, under a new identity, opens the desktop again.        *)
(* Lease.tla shows that pcbridge/desktop/lease.py implements this.         *)
(***************************************************************************)
EXTENDS Integers

VARIABLES id,      \* identity of the current grant; 0: a grant without one
          until,   \* its deadline, 0 once it is closed
          hard,    \* the ceiling of the deadline, 0 once it is closed
          issued   \* how many identities were given out so far

gvars == <<id, until, hard, issued>>

Init == /\ id = 0
        /\ until \in Nat
        /\ hard = 0
        /\ issued = 0

(* A new grant replaces whatever was there.                                *)
Open == /\ issued' = issued + 1
        /\ id' = issued + 1
        /\ until' \in Nat
        /\ hard' = until'

(* An action of the grant's owner moves the deadline of a grant that was   *)
(* never closed, within its ceiling.                                       *)
Slide == /\ until > 0
         /\ until' \in 1..hard
         /\ UNCHANGED <<id, hard, issued>>

Close == /\ until' = 0
         /\ hard' = 0
         /\ UNCHANGED <<id, issued>>

Next == Open \/ Slide \/ Close

Spec == Init /\ [][Next]_gvars
=============================================================================
