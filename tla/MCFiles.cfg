SPECIFICATION FilesSpec
CONSTANTS
    Parts = {"edits", "links", "shots", "settings"}
    t1 = t1
    t2 = t2
    Threads <- MCThreads
    Upload <- MCUpload
    Original <- MCOriginal
    OneUploader = TRUE
    NoFile = NoFile
    NoText = NoText
    MaxCalls = 3
    Transfers = {d1, d2}
    Paths = {linked, plain}
    HardLinks = {linked}
    MAX_LIVE = 1
    Ttl = 1
    Remember = 0
    MaxLinks = 2
    MaxTime = 2
    MaxContent = 3
    Calls = {k1, k2}
    Screens <- MCScreens
    Tokens = {"a"}
    Seconds = {"0"}
    NoLinks = {"shots"}
    PUBLISH_ATTEMPTS = 2
    Editors = {e1}
    Daemon = Daemon
    Setup = Setup
    CONFIG_VERSION = 2
    Unset = Unset
    MaxFiles = 3
    MaxUser = 1
    MaxChanges = 1
    MaxSaves = 2
INVARIANTS
    DropsOnlyUnseen
    FilesIntact
    LinksAccounted
    ShotsAccounted
    SettingsAccounted
PROPERTIES
    NeverClobbers
SYMMETRY MCSymmetry
CHECK_DEADLOCK FALSE
