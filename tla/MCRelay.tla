------------------------------ MODULE MCRelay ------------------------------
(***************************************************************************)
(* Small instances of the relay.  The first server is the daemon; the      *)
(* servers a reconnect reaches are those of Kinds.  A server's session and *)
(* the relay's in_flight have names of their own here, apart from those of *)
(* the daemon's books (MCDaemon), with which the proofs take this module.  *)
(***************************************************************************)
CONSTANTS Reqs, InitId, Kinds, MaxBackends

VARIABLES
    stdin, said, gone, log, backend, initLine, initializedLine, swallow, replays, closing,
    cpc, cline, cback, spc, sback, todo, started, kind, up, closed, inq, outq, running, runs, early,
    pending,   \* inflight of Relay
    session    \* sess of Relay

R == INSTANCE Relay WITH inflight <- pending, sess <- session

ASSUME InstanceAssumption == R!RelayAssumption

RelaySpec == R!Spec
RelayFairSpec == R!FairSpec

(* The properties of the relay, explained there: no request is repeated,   *)
(* either side sees a session with one server ...                          *)
RelayAccounted == R!RelayAccounted

(* ... and every request is answered.                                      *)
EveryRequestAnswered == R!EveryRequestAnswered
=============================================================================
