SPECIFICATION Spec
CONSTANTS
    Versions = {v1}
    FileLen = 2
    NoFile = NoFile
    NoToken = NoToken
    Corrupt = Corrupt
    Foreign = Foreign
    NServers = 2
    Clients = {"depot"}
    Backends = {"winhttp"}
    NoRequest = NoRequest
INVARIANT CancelForgetsPartial
CHECK_DEADLOCK FALSE
