SPECIFICATION FairSpec
CONSTANTS
    c1 = c1
    c2 = c2
    Clients = {c1, c2}
    Texts <- TwoTexts
    AgentTexts <- FullText
    Anchored <- FullText
    Keys = {k1}
    MaxRounds = 1
    MaxQuestions = 1
    MaxEvents = 3
CHECK_DEADLOCK FALSE
INVARIANTS RoundsAreSpentOnOrders KeysCreateOnce
PROPERTY OrderSettles
