SPECIFICATION Spec
CONSTANTS
    s1 = s1
    s2 = s2
    a = a
    b = b
    Null = Null
    Uploads = {u1, u2}
    Publications = {p1}
    Retries = {r1}
    Disables = {d1}
    Versions = {v1}
    Contents = {c1, c2}
    Services = {s1, s2}
    IndexOf <- SameIndex
    Overlap = TRUE
SYMMETRY Symmetric
INVARIANTS
    OriginalKept
PROPERTIES
    DecidedStays
CHECK_DEADLOCK FALSE
