CONSTANTS
    Callers = {c1, c2}
    Nobody = Nobody
    PipeSlots = 1
    MaxTexts = 3
SPECIFICATION FairSpec
CHECK_DEADLOCK FALSE
INVARIANTS TypeOK InOrder OkSent
PROPERTIES WriteAnswers HelpersEnd
