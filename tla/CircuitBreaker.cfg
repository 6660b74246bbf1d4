SPECIFICATION BSpec
CONSTANTS
    Callers = {c1, c2, c3, c4}
    FailureThreshold = 3
    OpenTicks = 4
    TimeoutTicks = 2
INVARIANTS
    BTypeOK
    ProbeAlone
    QuietWhileOpen
PROPERTIES
    RecoversUnlessProbeLost
