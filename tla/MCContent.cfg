SPECIFICATION Spec
CONSTANTS
    Canvas = {1, 2}
    File = {f1, f2}
    Req = {r1, r2, r3, r4}
    Absent = Absent
    None = None
    Scenarios <- SteadyAndCrashing
SYMMETRY Symm
INVARIANT LocksSound
PROPERTIES AtomicStore NothingLost
CHECK_DEADLOCK FALSE
