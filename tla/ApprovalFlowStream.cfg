SPECIFICATION FairFlowSpec
CONSTANTS
    v1 = v1
    w1 = w1
    w2 = w2
    h1 = h1
    h2 = h2
    z1 = z1
    f1 = f1
    t1 = t1
    i1 = i1
    u1 = u1
    x1 = x1
    Reviews = {v1}
    Reworks = {w1}
    Clients = {z1}
    Conns = {v1, w1, z1}
    Handlers = {h1, h2}
    Drafts <- OneDraft
    Task = t1
    Issue = i1
    Coordinate = {i1}
    Owner = u1
    Faults = {"stream"}
    Tasks = {t1}
    Issues = {i1}
    Keys = {v1, w1, f1}
    Users = {u1}
    Reviewers = {u1}
    Texts = {x1}
    TaskStatus <- MCTaskStatus
    IssueStatus <- MCIssueStatus
    IssueTask <- MCIssueTask
    SeedRework = {}
    Calls <- OneCall
PROPERTIES
    StreamLossKeepsRun
