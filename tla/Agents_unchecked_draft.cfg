CONSTANTS
    None = None
    w1 = w1
    t1 = t1
    c1 = c1
    Sessions = {w1, u1}
    Workers = {w1}
    Scopes = {c1}
    Turns = {t1}
    Questions = {Q1}
    MaxMessages = 2
    Chunks = 2
    MaxFaults = 2
    CanCrash = TRUE
    Texts <- AnswerTexts
    TurnOf <- OneTurn
    ScopeOf <- OneScope
SPECIFICATION AgentSpec
INVARIANT OnlyCheckedDraftsAreShown
