SPECIFICATION Spec
CONSTANTS
    None = None
    Attempts = {a1, a2}
    Deliveries = {d1, d2}
SYMMETRY ExportSymmetry
INVARIANTS
    ReportsAreBacked
    OutputIsWhole
    NothingLeftBehind
CHECK_DEADLOCK FALSE
