CONSTANTS
    AnyModel = AnyModel
    NoPlacement = NoPlacement
    Fleet <- Pair
    Inventories <- PairInventories
    Loads = {0}
    Ages = {0, 1}
    Headers = {"none", "blank", "other", "public", "local_only", "secret_sensitive"}
    Bodies = {"none", "non_string", "public_redacted", "repo_sensitive"}
    Wishes <- PairWishes
SPECIFICATION PageSpec
INVARIANTS
    TypeOK
    StrictestTierRules
    CloudNeedsConsent
    ForbiddenCloudIsInvisible
    HealthAgreesWithPlacement
    RefusalExplained
