SPECIFICATION MCSpec
CONSTANTS
    None = None
    P1 = p1
    P2 = p2
    C1 = c1
    C2 = c2
    F1 = f1
    F2 = f2
    A = a
    B = b
    Proc = {p1, p2}
    Canvas = {c1, c2}
    File = {f1, f2}
    Token = {a, b}
    MaxBytes = 2
    MaxSnaps = 4
    Scenarios <- LocalScenarios
    Contents <- LocalContents
    Faults = {"disk", "crash"}
    Agent = {g1, g2}
    BadId = BadId
    NoFile = NoFile
    Workloads <- HubWorkloads
    Initial <- HubInitial
    MaxCalls = 3
    MaxFaults = 1
    HubFaults = {"disk", "lost", "garbled", "redirect"}
    Cli = {q1, q2}
    Daemon = {d1, d2, d3}
    Version = {v1, v2}
    Dev = {}
    Kind = {"ensure", "stop"}
    FixedPort = TRUE
    SpawnFaults = {"cliCrash", "daemonCrash", "timeout", "slow", "idle"}
SYMMETRY Symm
INVARIANTS TypesOK LoneSpawner AnswersAreTrue
PROPERTIES Undoable WholeOrNothing RepeatIsIdle
CHECK_DEADLOCK FALSE
