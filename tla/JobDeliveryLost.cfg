SPECIFICATION Spec
CONSTANTS
    Jobs = {job}
    Invalid = {}
    NoCopy = NoCopy
    Handlers = {h1, h2}
    AnnouncesStart = FALSE
    MaxAttempts = 3
    NumDelays = 2
    MaxFaults = 0
INVARIANTS
    FailuresAreReported
CHECK_DEADLOCK FALSE
