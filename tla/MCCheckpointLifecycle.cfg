CONSTANTS
    s1 = s1
    s2 = s2
    Sessions = {s1, s2}
    Steps = {"C1a"}
    Evidence = {"ci"}
    NoEvidence = "none"
    p1 = p1
    p2 = p2
    Prompts = {p1, p2}
    NoPrompt = NoPrompt
    MaxSteps = 1
    MaxRevision = 5
    MaxRecordSize = 5
    MaxEntries = 6
    MaxMoves = 1
    ShortBranch = 3
    c1 = c1
    c2 = c2
    Procs = {c1, c2}
    Nobody = Nobody
    MaxKills = 1
    OmpSessions = {s1, s2}
    MaxPolicy = 2
SPECIFICATION MCSpec
INVARIANTS
    TypeOK
    RecordsExtendTheBranch
    MirrorAccountsForJournal
    CompletionFollowsVerification
    SerializedChecks
    UpdateNotForgotten
PROPERTIES
    OperatorPlanKept
    ManifestNeverRegresses
SYMMETRY Symmetry
CHECK_DEADLOCK FALSE
