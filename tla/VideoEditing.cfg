SPECIFICATION EditSpec
CONSTANTS
    None = None
    One = 16
    Grain = 4
    FrameTicks = 8
    LastId = 4
    Documents <- MCDocuments
    Sources <- MCSources
    Times = {6, 16, 24}
    Rates = {2, 8, 32}
    MaxPlans = 2
INVARIANTS
    PlansKeepRenderable
    ShowsItsRange
    SoundHasOneOwner
    RenderedStatesAreValid
    LayersAreOrdered
CHECK_DEADLOCK FALSE
