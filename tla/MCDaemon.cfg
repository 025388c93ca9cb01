SPECIFICATION FairSpec
CONSTANTS
    Parts = {"daemon", "jobs"}
    Sessions = {"s1", "s2"}
    MaxRequests = 2
    MaxInFlight = 4
    Viewers = {poll, user}
    Poller = poll
INVARIANTS
    DaemonAccounted
PROPERTIES
    DaemonSettles
CHECK_DEADLOCK FALSE
