SPECIFICATION Spec
CONSTANTS
    Versions = {v1, v2}
    FileLen = 3
    NoFile = NoFile
    NoToken = NoToken
    Corrupt = Corrupt
    Foreign = Foreign
    NoRequest = NoRequest
    AtomicOptions = {TRUE}
    RenameReplaces = FALSE
INVARIANTS
    ResumeSound
    PreservedIsResumable
    NoLitter
    IInv
PROPERTIES
    ImplementsAtomicReplacement
