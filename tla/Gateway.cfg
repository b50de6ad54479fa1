CONSTANTS
    AnyModel = AnyModel
    NoPlacement = NoPlacement
    Fleet <- Equals
    Inventories <- OneModel
    Loads = {0, 1, 2}
    Ages = {1}
    Headers = {"none"}
    Bodies = {"none"}
    Wishes <- EqualsWishes
    MaxCalls = 3
    MaxLeaks = 1
SPECIFICATION Spec
CHECK_DEADLOCK FALSE
INVARIANTS
    EventsTellTheTruth
PROPERTIES
    ShortestQueueUnlessRaced
