CONSTANTS
    s1 = s1  s2 = s2  v = v  f = f  g = g  m = m  n = n
    a1 = a1  a2 = a2  a3 = a3   m1 = m1  m2 = m2  n1 = n1
    None = None
    Curator = {c1, c2}
    Assertion = {a1, a2, n1}
    EntityOf <- MCEntityOf
    FieldOf <- MCFieldOf
    Market = {s1, s2}
    Measured = {m}
    Initial = {a1, a2, n1}
    Agrees = {a1, a2, n1}
    MaxRequests = 2
SPECIFICATION Spec
SYMMETRY Symmetry
INVARIANTS
    UnitPublication
