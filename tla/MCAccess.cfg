SPECIFICATION MCSpec
CONSTANTS
    I1 = i1
    I2 = i2
    Canvas = {i1, i2}
    Req = {r1, r2, r3}
    Principal = {admin, alice}
    Admin = admin
    Target = {t1}
    Kind = {"push", "create", "claim", "share", "revoke", "copy", "delete"}
    Absent = Absent
    Torn = Torn
    None = None
    P1 = p1
    P2 = p2
    J1 = j1
    J2 = j2
    T1 = k1
    T2 = k2
    Q1 = q1
    Q2 = q2
    Corrupt = Corrupt
    GatePrincipal = {p1, p2}
    GateCanvas = {j1, j2}
    GateReq = {q1, q2}
    Token = {k1, k2}
    Workloads <- Requests
    GateFaults = {"disk", "damage"}
SYMMETRY Symm
INVARIANTS TypesOK GrantsAsConfirmed TokensKept
PROPERTY PowerlessStays
CHECK_DEADLOCK FALSE
