SPECIFICATION FairSpec
CONSTANTS
    Parts = {"share"}
    Methods <- MCMethods
    Unconfirmed = {"powerdevil"}
    NoMethod = NoMethod
    MaxDeaths = 2
    NoCaller = NoCaller
    c1 = c1
    c2 = c2
    MaxGrants = 2
    Systems = {"gnome", "kde", "hyprland"}
    MaxTurns = 3
    MaxShares = 2
    Screens = {"A", "B"}
    NoNode = NoNode
    MaxSessions = 2
    MaxGiveUps = 1
PROPERTIES
    ShareNeverOutlives
CHECK_DEADLOCK FALSE
