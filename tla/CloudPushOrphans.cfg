SPECIFICATION Spec
CONSTANTS
    NServers = 2
    LogOn = TRUE
    Names = {f1,f2}
    StateName = StateName
    Contents = {v1}
    Local = {v1}
    Stale = Stale
    NBlocks = 1
    BlockLen = 2
    Page = 2
    Policies = {"LocalWins", "RemoteWins", "NewerWins", "FailOnConflict"}
    NoFile = NoFile
    NoState = NoState
    Corrupt = Corrupt
    NoBatch = NoBatch
INVARIANT DeletesOnlyOrphans
CHECK_DEADLOCK FALSE
