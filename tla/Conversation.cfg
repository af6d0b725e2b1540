SPECIFICATION Spec
CONSTANTS
    None = None
    o1 = o1
    o2 = o2
    t1 = t1
    t2 = t2
    i1 = i1
    Turns <- ThreeTurns
    Orders = {o1, o2}
    Tasks = {t1, t2}
    Issues = {i1}
    Pages <- QualityAndOrderPage
    Words <- SomeWords
    Intents = {"ORDER_DIAGNOSIS", "REVIEW_GENERATION"}
    Levels = {"HIGH", "MEDIUM"}
    Overlap = 2
CHECK_DEADLOCK FALSE
INVARIANTS
    NeverAmbiguous
    DiagnosisOnItsPage
    NoQuestionTwice
PROPERTY OnlyOwnEntities
