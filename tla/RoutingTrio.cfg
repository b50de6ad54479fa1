CONSTANTS
    AnyModel = AnyModel
    NoPlacement = NoPlacement
    Fleet <- Trio
    Inventories <- TrioInventories
    Loads = {0, 2}
    Ages = {0, 1}
    Headers = {"none"}
    Bodies = {"public"}
    Wishes <- TrioWishes
SPECIFICATION PageSpec
INVARIANTS
    LocalWorkStaysLocal
    PreferenceHonoured
    ListedIsServed
