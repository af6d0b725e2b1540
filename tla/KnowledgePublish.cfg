SPECIFICATION Spec
CONSTANTS
    s1 = s1
    s2 = s2
    a = a
    b = b
    Null = Null
    Uploads = {u1, u2}
    Publications = {p1, p2}
    Retries = {r1}
    Disables = {d1}
    Versions = {v1, v2}
    Contents = {c1}
    Services = {s1, s2}
    IndexOf <- TwoIndexes
    Overlap = FALSE
SYMMETRY Symmetric
INVARIANTS
    OnePublished
    SealedAsConfirmed
    BuildsAgree
    RecoveredOwnsAll
CHECK_DEADLOCK FALSE
