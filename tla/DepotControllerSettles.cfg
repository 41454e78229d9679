SPECIFICATION Spec
CONSTANTS
    MaxTasks = 1
    Clicks = {k1}
    MaxQueries = 0
    None = None
    PaneOnly = TRUE
PROPERTIES
    TerminalReturnsToIdle
