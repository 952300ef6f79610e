SPECIFICATION Spec
CONSTANTS
    Canvas = {1}
    File = {f1}
    Req = {r1, r2}
    Absent = Absent
    None = None
    Scenarios <- PushesAndCreates
SYMMETRY Symm
INVARIANT NotStranded
CHECK_DEADLOCK FALSE
