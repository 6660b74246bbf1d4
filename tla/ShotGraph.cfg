SPECIFICATION Spec
CONSTANTS
    Runs = {r1, r2, r3}
    NoRun = NoRun
    MaxShots = 3
SYMMETRY RunSymmetry
INVARIANTS
    TypeOK
    GraphIsOfLatest
PROPERTIES
    AloneIsNeverRefused
CHECK_DEADLOCK FALSE
