SPECIFICATION FairSpec
CONSTANTS
    c1 = c1
    c2 = c2
    daemon = daemon
    NoCall = NoCall
    Calls <- TwoCalls
    Hosts <- OneHost
    HostOf <- SameHost
    Batches <- OneBatch
    MaxActions = 2
    MaxGrants = 1
    MaxEpoch = 1
INVARIANTS
    OneSequenceAtATime
    AtMostOneLateAction
    AtMostOneBlindAction
    OnlyFinishedSequencesHold
PROPERTIES
    EveryCallEnds
