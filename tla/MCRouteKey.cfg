CONSTANTS
    Aggregators <- MCAggregators
    Vendor <- MCVendor
    Family <- MCFamily
    ByLength <- MCByLength
    Aliases = {"a1", "a2"}
    DefaultWindow = 4
    DefaultOutput = 1
    MaxPages = 3
    Unknown = "unknown"
    Gateways <- MCGateways
    Keys = {"k1", "k2"}
    ConfigKey = "k1"
    EnvironmentKey = "k2"
    NoKey = "none"
    Needs <- MCNeeds
    MaxEdits = 1
    Ids = {"i1", "i2", "i3"}
    AliasIds = {"i1"}
    PageLimit = 1
    MaxRules = 3
    MaxRuleEdits = 4
    MaxHistory = 4
    MaxMessages = 2
SPECIFICATION MCSpec
INVARIANT RoutesOfOwnKey
CHECK_DEADLOCK FALSE
