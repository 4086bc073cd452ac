CONSTANTS
    s1 = s1
    s2 = s2
    h1 = h1
    h2 = h2
    Sessions = {s1, s2}
    Steps = {}
    Evidence = {"ci"}
    NoEvidence = "none"
    Prompts = {"p1", "p2"}
    NoPrompt = "nil"
    MaxSteps = 1
    MaxRevision = 9
    MaxRecordSize = 9
    Signatures = {"a"}
    Stages <- TwoStages
    Mode = "auto"
    AllowModelFallback = TRUE
    Handlers = {h1, h2}
    UserPrompts <- OnePrompt
    RunOutputs = {"thinking", "answer"}
    RunResults = {"ok", "uncertain"}
    MaxId = 11
    MaxMoves = 1
    MaxChanges = 2
    Branches = {"b1", "b2"}
    MaxTraces = 2
    MaxTurns = 3
    MaxDisturbances = 2
    Inferences = {"i1", "i2", "i3"}
    Kinds = {"main", "sub"}
    Names = {"n1"}
    Routes = {"r1", "r2"}
    Other = "other"
    MaxActiveSessions = 2
    MaxRoutesPerAgent = 1
    MaxAgentAggregates = 1
    MaxRequests = 4
    MaxEvents = 3
    HostSessions = {"s1", "s2"}
    Members <- MembersValue
    Reserve = 1
    Headroom = 1
    Margin = 10
    RetryGrowth = 2
    SoftFraction = 65
    SoftTokens = 3
    MinimumGrowth = 2
    IdleRetries = 1
    MaxPrompts = 2
    MaxHostMoves = 2
    MaxTokens = 4
    Window = 5
    Modes <- ModesValue
    Growth = {0, 2}
SPECIFICATION MCSpec
INVARIANTS
    AttemptsNeedProgress
    ForkIsGrounded
    BoundedAccountIsExact
    OneFollowUpPerPrompt
    FollowUpMatchesHistory
    OneContinuation
    OneCompactionPerTurn
PROPERTIES
    OwnRecordsAreReadable
    ContinuationOwned
    UnknownOutcomeBlocks
SYMMETRY Symmetry
CHECK_DEADLOCK FALSE
