CONSTANTS
    Kinds = {"physical-compatibility"}
    Attempts = 2
    Statuses = {200, 503}
    MaxRequests = 2
    MaxEvents = 5
SPECIFICATION Spec
INVARIANTS
    LastRequestRefused
CHECK_DEADLOCK FALSE
