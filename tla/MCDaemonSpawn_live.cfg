SPECIFICATION MCSpec
CONSTANTS
    Proc = {p1, p2, p3}
    Daemon = {1, 2, 3, 4}
    Version = {v1}
    Dev = {}
    Kind = {"ensure"}
    FixedPort = TRUE
    Faults = {"cliCrash"}
    None = None
INVARIANT ServingRecorded
PROPERTY EnsureSucceeds
CHECK_DEADLOCK FALSE
