CONSTANTS
    Request = {r1}
    Issuer = {i1, i2}
    Key = {k1, k2}
    Secret = {x, y}
    Principal = {p1, p2}
    Enrolled = {p1}
    Policy = {"Public", "CatalogRead", "Admin"}
    None = None
SPECIFICATION Spec
CHECK_DEADLOCK FALSE
SYMMETRY Symmetry
INVARIANTS
    ServedIsAuthorized
    RefusalHasCause
    HandedIsStored
