SPECIFICATION Spec
CONSTANTS
    Batches = {b1, b2}
    NoBatch = NoBatch
    Texts = {x, y, blank}
    Blank = {blank}
    Inputs = {{x, y}, {y, blank}}
INVARIANTS
    TypeOK
    NothingForgotten
    NoHoldAndWait
    EncodedOnce
PROPERTIES
    EndsUndisturbed
CHECK_DEADLOCK FALSE
