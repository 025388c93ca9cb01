SPECIFICATION DevicesSpec
CONSTANTS
    Parts = {"native"}
    Keys = {ctrl, a}
    Buttons = {left}
    HoldMax = 1
    MaxStuck = 1
    MaxTimers = 2
    Codes = {"a", "b"}
    NoOne = NoOne
    Backends = {"daemon", "do"}
    MaxWidth = 3
    Unknown = Unknown
    Writer = w
    Others = {o1}
    NoThread = none
    MaxGrants = 2
    MaxHelpers = 2
    MaxDeaths = 1
CHECK_DEADLOCK FALSE
PROPERTY CloseReturns
