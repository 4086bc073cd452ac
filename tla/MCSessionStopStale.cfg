CONSTANTS
    s1 = s1
    h1 = h1
    h2 = h2
    Sessions = {s1}
    Steps = {}
    Evidence = {"ci"}
    NoEvidence = "none"
    Prompts = {"p1", "p2"}
    NoPrompt = "nil"
    MaxSteps = 1
    MaxRevision = 9
    MaxRecordSize = 9
    Signatures = {"a"}
    Stages <- TwoStages
    Mode = "auto"
    AllowModelFallback = TRUE
    Handlers = {h1, h2}
    UserPrompts <- OnePrompt
    RunOutputs = {"empty"}
    RunResults = {"ok"}
    MaxId = 12
    MaxMoves = 0
SPECIFICATION Spec
PROPERTY
    ContinuationOwned
CHECK_DEADLOCK FALSE
