CONSTANTS
    s1 = s1
    Sessions = {s1}
    Steps = {"C1a"}
    Evidence = {"ci"}
    NoEvidence = "none"
    Prompts = {"p1"}
    NoPrompt = "nil"
    MaxSteps = 1
    MaxRevision = 5
    MaxRecordSize = 5
    MaxEntries = 5
    MaxMoves = 0
SPECIFICATION Spec
INVARIANTS
    CompletionCoversActivity
CHECK_DEADLOCK FALSE
