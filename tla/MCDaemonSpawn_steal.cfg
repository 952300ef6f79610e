SPECIFICATION Spec
CONSTANTS
    Proc = {p1, p2, p3}
    Daemon = {d1, d2}
    Version = {v1}
    Dev = {}
    Kind = {"ensure"}
    FixedPort = TRUE
    Faults = {"cliCrash"}
    None = None
SYMMETRY Symm
INVARIANT OneSpawner
CHECK_DEADLOCK FALSE
