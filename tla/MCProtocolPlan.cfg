CONSTANTS
    Kinds = {"gateway-ingress", "physical-compatibility"}
    Attempts = 2
    Statuses = {200, 400, 503, 504}
    MaxRequests = 2
    MaxEvents = 5
    c1 = c1
    c2 = c2
    s1 = s1
    Procs = {c1, c2}
    Nobody = Nobody
    MaxKills = 1
    OmpSessions = {s1}
    MaxPolicy = 2
SPECIFICATION MCSpec
INVARIANTS
    RepeatsAreSafe
    AnswerIsWhole
PROPERTIES
    OneAnswer
    RequestEnds
    CheckEnds
CHECK_DEADLOCK FALSE
