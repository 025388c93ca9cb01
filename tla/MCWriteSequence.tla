-------------------------- MODULE MCWriteSequence --------------------------
(***************************************************************************)
(* A small instance of WriteSequence: a batch and a single action, two     *)
(* calls of one daemon.  Who else closes the grant is in Expire.           *)
(***************************************************************************)
EXTENDS WriteSequence

CONSTANTS c1, c2, daemon

TwoCalls == {c1, c2}
OneHost == {daemon}
SameHost == [c \in TwoCalls |-> daemon]
OneBatch == {c1}
=============================================================================
