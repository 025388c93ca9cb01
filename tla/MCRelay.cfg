SPECIFICATION RelayFairSpec
CONSTANTS
  Reqs = {r1}
  InitId = init
  Kinds = {"child"}
  MaxBackends = 3
CHECK_DEADLOCK FALSE
INVARIANTS RelayAccounted
PROPERTY EveryRequestAnswered
