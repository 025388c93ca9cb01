SPECIFICATION FairSpec
CONSTANTS
    Parts = {"awake", "share", "frame", "session", "stream"}
    Methods <- MCMethods
    Unconfirmed = {"powerdevil"}
    NoMethod = NoMethod
    MaxDeaths = 2
    NoCaller = NoCaller
    c1 = c1
    c2 = c2
    MaxGrants = 2
    Systems = {"gnome", "kde", "hyprland"}
    MaxTurns = 3
    MaxShares = 2
    Screens = {"A", "B"}
    NoNode = NoNode
    MaxSessions = 2
    MaxGiveUps = 1
INVARIANTS
    HeldIsKnown
    FramesAreTrue
PROPERTIES
    InhibitorFollowsJobs
    GrantHoldersEnd
CHECK_DEADLOCK FALSE
