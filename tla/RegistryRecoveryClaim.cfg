CONSTANTS
    c1 = c1
    c2 = c2
    Callers = {c1, c2}
    N = 1
    Classes = {"healthy", "degraded", "offline"}
    TTL = 1
    Ceiling = 2
    MaxClock = 5
    MaxInvalidations = 0
SYMMETRY Symmetry
SPECIFICATION Spec
INVARIANTS
    RecoveryIsNews
