SPECIFICATION Spec
CONSTANTS
    NServers = 2
    LogOn = FALSE
    MaxPolls = 2
INVARIANT CancelIsReported
CHECK_DEADLOCK FALSE
