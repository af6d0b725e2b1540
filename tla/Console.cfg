SPECIFICATION Spec
CONSTANTS
    Orders = {o1, o2}
    FirstOrder = o1
    MaxApprovals = 2
    MaxRequests = 5
    MaxSeq = 4
INVARIANTS
    OrderIsolation
    SpinnerHonest
    DecisionIsHonest
CHECK_DEADLOCK FALSE
