SPECIFICATION Spec
CONSTANTS
    ConversationTurns = {"t1", "t2"}
    QuestionsOf <- TwoQuestioners
    Chunks <- FourChunks
    Named <- NamedInOrder
    SourceLimit = 2
    AnchorLimit = 3
    RerankTopN = 3
    ResultLimit = 2
    Rows = {1, 2, 3}
    Strengths = {1, 2}
    CallLimits = {1, 2}
    Supplements <- SomeSupplements
    CrossTopN = 3
    Articles = {1, 2, 10}
    Wordings = {"v", "w"}
    Passages <- TwoPassages
    MostProposed = 1
    LongestList = 2
    MaxEvidence = 1
    Inquiries <- SomeInquiries
    Sources <- SomeSources
    GateArticles = {1, 2, 10}
    MinChars = 2
    MostSources = 2
    MaxRetrievals = 2
    MaxRepairs = 1
    MaxIterations = 12
INVARIANTS CaseFollowsAnAnswer  AgreedOrderIsKept QueriesKeepTheQuestion AcceptedEvidenceIsSound ReleasedIsTrusted DeliveredIsChecked StopsShowNothing
PROPERTIES CompletedCasesStayHidden WorkflowEnds
CHECK_DEADLOCK FALSE
