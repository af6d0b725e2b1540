SPECIFICATION Spec
CONSTANTS
    None = None
    Catalogs <- MCCatalogs
    TopK = 3
    MinScore = 1
    Scores = {0, 1}
    Requests <- MCRequests
    Questions = {"q"}
    Hits <- MCHits
    MaxDecisionRounds = 8
    MaxToolCalls = 6
    MaxNoNews = 1
    MaxRetries = 1
    MaxVersion = 2
INVARIANTS
    ConclusionHolds
    CitationsWereCurrent
    DraftIsGrounded
PROPERTY SkillEnds
CHECK_DEADLOCK FALSE
