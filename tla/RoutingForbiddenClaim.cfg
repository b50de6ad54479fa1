CONSTANTS
    AnyModel = AnyModel
    NoPlacement = NoPlacement
    Fleet <- Pair
    Inventories <- PairInventories
    Loads = {0}
    Ages = {1}
    Headers = {"none", "public"}
    Bodies = {"none"}
    Wishes <- PairWishes
SPECIFICATION PageSpec
INVARIANTS
    ForbiddenMeansForbidden
