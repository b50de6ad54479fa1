CONSTANTS
    None = None
    Names = {"a", "b", "sim-cloud", "local-llamacpp"}
    Classes = {"local", "cloud"}
    Files <- ConfigFiles
    TTLs = {0, 5}
SPECIFICATION Spec
CHECK_DEADLOCK FALSE
INVARIANTS
    TypeOK
    NoOpenSurface
    CloudIsAskedFor
    FreshIsNeverStale
PROPERTIES
    PreflightSuffices
