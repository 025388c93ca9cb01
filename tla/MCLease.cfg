SPECIFICATION PartsSpec
CONSTANTS
    Parts = {"grant", "points", "helper"}
    Procs = {p1, p2}
    NoProc = NoProc
    Second = 2
    Idle = 3
    Terms = {5}
    MaxTime = 6
    MaxGrants = 2
    MaxEpoch = 1
    Layouts <- MCLayouts
    LongEdges = {0, 3}
    CACHE_TTL = 1
    MinEdge = 2
    MaxChanges = 1
    None = None
    Desktops = {"gnome", "hyprland"}
    MaxDevices = 2
    MaxShifts <- MCShifts
SYMMETRY ProcSymmetry
INVARIANTS
    DecidesOnCurrentFile
    ClosesAfterLastAction
    ClicksLand
    HelperStaysShut
PROPERTIES
    ImplementsGrant
    ExpiredMovesOnlyByEarlierTouch
