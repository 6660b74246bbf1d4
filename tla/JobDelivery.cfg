SPECIFICATION Spec
CONSTANTS
    Jobs = {job1, job2, bad}
    Invalid = {bad}
    NoCopy = NoCopy
    Handlers = {h1, h2}
    AnnouncesStart = TRUE
    MaxAttempts = 2
    NumDelays = 2
    MaxFaults = 1
INVARIANTS
    TypeOK
    NoJobLost
    DeadOnlyAfterFailed
    OneOutcome
    OneWorker
PROPERTIES
    JobsComeToRest
CHECK_DEADLOCK FALSE
