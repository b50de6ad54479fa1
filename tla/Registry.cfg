CONSTANTS
    c1 = c1
    c2 = c2
    Callers = {c1, c2}
    N = 2
    Classes = {"healthy", "offline"}
    TTL = 1
    Ceiling = 1
    MaxClock = 4
    MaxInvalidations = 1
SYMMETRY Symmetry
SPECIFICATION Spec
INVARIANTS
    TypeOK
    BusAgrees
    StaleOnlyAfterWaiting
PROPERTIES
    VerdictsMoveForward
