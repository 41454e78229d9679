SPECIFICATION Spec
CONSTANTS
    Versions = {v1, v2}
    NFiles = 3
    Directories = {2}
    NoFile = NoFile
    Foreign = Foreign
    NoState = NoState
    Corrupt = Corrupt
    NoJob = NoJob
INVARIANTS StateVouches SucceededIsWhole PausedKeepsPlace ProgressWithinFiles IInv
PROPERTY PlaceIsKept
CHECK_DEADLOCK FALSE
