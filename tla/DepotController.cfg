SPECIFICATION Spec
CONSTANTS
    MaxTasks = 2
    Clicks = {k1}
    MaxQueries = 1
    None = None
    PaneOnly = FALSE
INVARIANTS
    OutcomeIsArmed
    BusyIsBacked
    IInv
