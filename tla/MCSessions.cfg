SPECIFICATION Spec
CONSTANTS
    Sid = {s1, s2}
    Browser = {b1}
    Req = {r1, r2}
    User = {u1}
    Idle = 4
    Cap = 5
    Touch = 2
    MaxClock = 5
    Faults = {"disk", "lost", "damage", "restart"}
    None = None
    Corrupt = Corrupt
SYMMETRY Symm
INVARIANTS TypeOK EndedStaysOut CapHolds RecentUseKeeps
CHECK_DEADLOCK FALSE
