CONSTANTS
    Repos = {r1, r2}
    Clients = {"c1"}
    Bundles = {"b1"}
    Procs = {p1, p2}
    Reveals = {"create", "update"}
    Choices <- ChoicesValue
    MaxCommands = 3
    Installers = {p1, p2}
    MaxEdition = 2
    MaxUses = 4
    Runners = {p1, p2}
    MaxRuns = 3
    MaxEdits = 2
SPECIFICATION MCSpec
INVARIANTS
    EveryRepositoryItsOwnKey
    SecretWorks
    ReportsTheGateway
    SkillKept
    UserTextIsKept
SYMMETRY Symmetry
CHECK_DEADLOCK FALSE
