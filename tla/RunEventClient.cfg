SPECIFICATION Spec
CONSTANTS
    s1 = s1
    s2 = s2
    u1 = u1
    u2 = u2
    k1 = k1
    q1 = q1
    q2 = q2
    p1 = p1
    Streams = {s1, s2}
    Users = {u1, u2}
    Queues = {q1, q2}
    Publishers = {p1}
    Clients = {k1}
    StreamOf <- MCStreamOf
    UserOf <- MCUserOf
    HistoryLimit = 1
    StreamLimit = 1
    MaxEvents = 3
    MaxLives = 2
    MaxReconnects = 1
INVARIANTS
    ConnectionContiguous
    OwnerIsolation
    ResumedWithinLife
SYMMETRY QueueSymmetry
CHECK_DEADLOCK FALSE
