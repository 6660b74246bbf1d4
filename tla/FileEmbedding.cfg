SPECIFICATION Spec
CONSTANTS
    Paths = {p1, p2}
    Contents = {b1, b2}
    Gone = Gone
    NoVector = NoVector
    Calls = {c1, c2}
    HashConcurrency = 2
    MaxChanges = 3
SYMMETRY FileSymmetry
INVARIANTS
    TypeOK
    EntryIsOfItsBytes
    AnswerIsOfTheFile
CHECK_DEADLOCK FALSE
