SPECIFICATION Spec
CONSTANTS
    Calls = {c1, c2, c3}
    NoCall = NoCall
INVARIANTS
    TypeOK
    StoredOnce
    NoOrphanLock
PROPERTIES
    LockTakenOnlyByOwner
    ImplementsAuthoritativeCall
    EveryCallEnds
CHECK_DEADLOCK FALSE
