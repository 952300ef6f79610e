SPECIFICATION MCSpec
CONSTANTS
    Canvas = {c1, c2}
    Timer = {t1, t2, t3}
    None = None
    Client = {k1, k2}
    Reaping = TRUE
    C1 = c1
    C2 = c2
    K1 = k1
    K2 = k2
    MaxGlobal = 1
    MaxPerCanvas = 1
INVARIANTS TypesOK TimersAgree WithinCaps
PROPERTIES CloseQuiesces CloseTerminates QuietReload StayedNotReaped ReloadDelivered Stops
CHECK_DEADLOCK FALSE
