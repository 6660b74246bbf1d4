SPECIFICATION Spec
CONSTANTS
    Runs = {r1, r2}
    NoRun = NoRun
    MaxPoints = 2
    MaxLate = 1
SYMMETRY RunSymmetry
INVARIANTS
    TypeOK
    ReportMatchesIndex
    OneGeneration
CHECK_DEADLOCK FALSE
