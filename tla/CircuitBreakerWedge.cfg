SPECIFICATION BSpec
CONSTANTS
    Callers = {c1, c2, c3}
    FailureThreshold = 2
    OpenTicks = 3
    TimeoutTicks = 1
PROPERTIES
    CircuitRecovers
