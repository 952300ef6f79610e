SPECIFICATION MCSpec
CONSTANTS
    Entry = {u1, g1}
    Page <- MCPage
    Caller = {r1, r2}
    Observer = {o1, o2}
    TTL = 2
    errorTTL = 1
    Query = {empty, g_}
    ByEmail <- MCByEmail
    ByName <- MCByName
    Rank <- MCRank
    maxPrincipalSuggestions = 1
    Scenarios <- Together
    None = None
    Corrupt = Corrupt
    U1 = u1
    G1 = g1
    C1 = r1
    C2 = r2
    O1 = o1
    O2 = o2
    Empty = empty
    G = g_
    File = {f, g}
    SubFile = {g}
    MaxEdits = 3
    MaxFaults = 1
    Faults = {"refused", "timeout", "pack", "overflow", "signal"}
INVARIANTS FollowersSound BacksOff ObservedKept
PROPERTIES WholeView CatchesUp PushCatchesUp
CHECK_DEADLOCK FALSE
