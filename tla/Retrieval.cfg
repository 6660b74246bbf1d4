SPECIFICATION Spec
CONSTANTS
    NoRevisions = NoRevisions
    Reciprocal <- MCReciprocal
    Corrupt = Corrupt
    Calls = {c1, c2}
    Media = {1, 2}
    Shots <- MCShots
    Orders <- MCOrders
    Requests <- MCRequests
    Generations <- MCGenerations
    MaxEntries = 1
SYMMETRY CallSymmetry
INVARIANTS
    BestFirst
PROPERTIES
    FreshForScope
CHECK_DEADLOCK FALSE
