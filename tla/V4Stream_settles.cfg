CONSTANTS
    None = None
    w1 = w1
    w2 = w2
    t1 = t1
    t2 = t2
    c1 = c1
    Sessions = {w1, u1, u2}
    Workers = {w1}
    Scopes = {c1}
    Turns = {t1}
    Questions = {q1}
    MaxMessages = 2
    Chunks = 2
    MaxFaults = 1
    CanCrash = FALSE
    Texts <- AnswerTexts
    TurnOf <- OneTurn
    ScopeOf <- OneScope
SPECIFICATION FairStreamSpec
PROPERTIES BegunTurnsSettle
