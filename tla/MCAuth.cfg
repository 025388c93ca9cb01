SPECIFICATION PartsSpec
CONSTANTS
    Parts = {"logins", "browser", "handoff"}
    c1 = c1
    c2 = c2
    Clients <- MCClients
    MaxApprovals = 2
    MaxTokens = 3
    MaxFailed = 2
    MaxGuesses = 4
    MaxCrashes = 1
    Calls = {k1, k2}
    MaxKeepers = 2
    MaxTabs = 2
    MaxDocs = 2
    Agents = {a1}
    Cli = Cli
    Page = Page
    MaxGives = 2
INVARIANTS
    LoginsAccounted
    TokensAccounted
    BrowserAccounted
SYMMETRY MCSymmetry
CHECK_DEADLOCK FALSE
