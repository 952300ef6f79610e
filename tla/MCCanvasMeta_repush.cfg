SPECIFICATION Spec
CONSTANTS
    Canvas = {i1}
    Req = {r1, r2}
    Principal = {admin, alice}
    Admin = admin
    Target = {t1}
    Kind = {"push", "claim"}
    Absent = Absent
    Torn = Torn
    None = None
SYMMETRY Symm
PROPERTY RepushKeepsOwner
CHECK_DEADLOCK FALSE
