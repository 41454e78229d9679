SPECIFICATION Spec
CONSTANTS
    Versions = {v1}
    FileLen = 2
    NoFile = NoFile
    NoToken = NoToken
    Corrupt = Corrupt
    Foreign = Foreign
    NoRequest = NoRequest
    NServers = 1
    Callers = {c1}
    Frontends = {"ffi"}
INVARIANTS
    PausedKeepsPartial
