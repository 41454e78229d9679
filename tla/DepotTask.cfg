SPECIFICATION Spec
CONSTANTS
    Versions = {v1, v2}
    FileLen = 2
    NoFile = NoFile
    NoToken = NoToken
    Corrupt = Corrupt
    Foreign = Foreign
    NoRequest = NoRequest
    NServers = 2
    Callers = {c1}
    Frontends = {"ffi", "jni"}
INVARIANTS
    TypeOK
    SucceededIsWhole
    OutcomeWasAsked
    StopsAtNextCheck
    IInv
PROPERTIES
    TaskFinishes
    ImplementsAtomicReplacement
