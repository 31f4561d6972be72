SPECIFICATION Spec
CONSTANTS
    Queries = {"", "x"}
    NoQuery = ""
    PageSize = 2
    MaxTotal = 3
    MaxMoves = 2
    MaxErrors = 1
    Addresses = {"", "a", "b", "c"}
    MaxRows = 3
    MaxRowEdits = 3
    MaxPoolFaults = 1
    Accounts = {"ann", "bob"}
    WithMfa = {"bob"}
    NoOne = "nobody"
    MaxRecent = 1
    MaxCalls = 2
    MaxLogins = 1
    MaxRejects = 1
    MaxFails = 1
    MaxReloads = 1
    LineCap = 1
    MaxPicks = 2
    MaxPresses = 2
    MaxLines = 2
    MaxDrops = 1
    Keys = {1, 2}
    FirstKey = 1
    MaxUses = 4
    MaxCardFaults = 2
    Docs = {"a", "b", "c"}
    Starter = "a"
    Oversize = {"c"}
    MaxStrokes = 1
    MaxPrompts = 2
    MaxEdSaves = 2
    MaxEdFaults = 1
INVARIANTS
    ConsoleTypeOK ShownIsAsked PoolReconciles SessionIsWhatItSays
    WatchReachesServer LinesAccountedFor NothingAfterTheEnd CardsMatchServer
    CleanIsStored CancelledNeverLands
PROPERTIES ConsoleSettles
CHECK_DEADLOCK FALSE
