SPECIFICATION Spec
CONSTANTS
    Versions = {v1, v2}
    FileLen = 2
    NoFile = NoFile
    NoToken = NoToken
    Corrupt = Corrupt
    Foreign = Foreign
    NServers = 2
    Clients = {"depot", "cm", "web"}
    Backends = {"winhttp", "android"}
    NoRequest = NoRequest
INVARIANTS TypeOK SucceededIsWhole UndisturbedSucceeds PausedIsResumable CanceledLeavesNothing IInv
PROPERTY DownloadEnds
CHECK_DEADLOCK FALSE
