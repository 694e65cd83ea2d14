\* Ten messages in two contexts, odd and even caps.
SPECIFICATION Spec
CONSTANTS
    Contexts = {x1, x2}
    Caps = {1, 2, 3, 4, 6}
    MaxExecutions = 10
INVARIANTS
    HistoryBounded
    TurnsRecover
SYMMETRY Interchangeable
CHECK_DEADLOCK FALSE
