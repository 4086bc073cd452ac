CONSTANTS
    Aggregators <- MCAggregators
    Vendor <- MCVendor
    Family <- MCFamily
    ByLength <- MCByLength
    Aliases = {"a1", "a2"}
    DefaultWindow = 4
    DefaultOutput = 1
    MaxPages = 3
    Unknown = "unknown"
    Gateways <- MCGateways
    Keys = {"k1", "k2"}
    ConfigKey = "k1"
    EnvironmentKey = "none"
    NoKey = "none"
    Needs <- MCNeeds
    MaxEdits = 3
    Ids = {"i1", "i2", "i3"}
    AliasIds = {"i1"}
    PageLimit = 1
    MaxRules = 3
    MaxRuleEdits = 4
    MaxHistory = 4
    MaxMessages = 2
SPECIFICATION MCSpec
INVARIANTS
    AttemptsFollowLiveRules
    AdvertisedRequestIsServed
    CapWithinCeilings
    RoutesOfSessionKeys
    WholeCatalogue
    QuietReadIsComplete
    CleanupKeepsTheContract
PROPERTY AttestationIsAtomic
CHECK_DEADLOCK FALSE
