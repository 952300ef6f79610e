SPECIFICATION Spec
CONSTANTS
    File = {f}
    SubFile = {}
    MaxEdits = 2
    MaxFaults = 0
    Faults = {}
INVARIANT EveryChange
CHECK_DEADLOCK FALSE
