SPECIFICATION FairSpec
CONSTANTS
    c1 = c1
    c2 = c2
    t1 = t1
    t2 = t2
    i1 = i1
    i2 = i2
    i3 = i3
    k1 = k1
    k2 = k2
    k3 = k3
    k4 = k4
    u1 = u1
    u2 = u2
    x1 = x1
    Conns = {c1, c2}
    Tasks = {t1, t2}
    Issues = {i1, i2, i3}
    Keys = {k1, k2, k3, k4}
    Users = {u1, u2}
    Reviewers = {u1}
    Texts = {x1}
    TaskStatus <- MCTaskStatus
    IssueStatus <- MCIssueStatus
    IssueTask <- MCIssueTask
    SeedRework = {i2}
    Calls <- MCCalls
INVARIANTS
    OneEffectPerKey
    OneActiveRework
    SuccessIsCommitted
PROPERTIES
    ImplementsStore
    EveryCallAnswered
