SPECIFICATION Spec
CONSTANTS
    Parts = {"front"}
    Threads = {t1, t2}
    NoThread = NoThread
    PendingLimit = 1
    MaxGens = 2
    MaxIds = 4
    Windows = {"w1", "w2"}
    Nowhere = "nowhere"
    MaxLength = 3
    RepeatLimit = 2
    MaxSwitches = 1
    MaxUser = 2
    MaxCalls = 2
    Copies = {"c1", "c2"}
    Text = "text"
    Nothing = "nothing"
SYMMETRY Symmetry
CHECK_DEADLOCK FALSE
INVARIANT RefusedDidNothing
