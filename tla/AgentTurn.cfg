SPECIFICATION FairSpec
CONSTANTS
    Turns <- TwoTurns
    s1 = s1
    Sessions = {s1}
    Skills = {"DIAGNOSIS", "REVIEW"}
    MaxSkillSteps = 2
    Faults = {"stream", "session"}
INVARIANTS AnswerAgrees StepsAgree
PROPERTIES ImplementsRuns TurnEnds
CHECK_DEADLOCK FALSE
