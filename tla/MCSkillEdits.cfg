CONSTANTS
    Repos = {r1, r2}
    Clients = {"c1"}
    Bundles = {"b1"}
    Procs = {p1, p2}
    Reveals = {"create", "update"}
    Choices <- ChoicesValue
    MaxCommands = 0
    Installers = {p1, p2}
    MaxEdition = 2
    MaxUses = 3
    Runners = {p1, p2}
    MaxRuns = 0
    MaxEdits = 0
SPECIFICATION MCSpec
INVARIANT
    EditsSurvive
CHECK_DEADLOCK FALSE
