SPECIFICATION Spec
CONSTANTS
    LimitWorkers = {"w1", "w2"}
    ClockOffset <- ClocksApart
    MinuteTicks = 2
    HourTicks = 4
    MinuteLimit = 1
    HourLimit = 2
    FailsOpen = FALSE
    MaxLimitTime = 4
    MaxLate = 1
    MaxAsked = 3
    CacheTurns = {"t1", "t2"}
    ProcessOf <- OneProcess
    Digests = {"d1", "d2"}
    Documents = {"a", "b"}
    AllowedBy <- Reviewed
    MaxReplacements = 2
    DataSessions = {"s1", "s2"}
    Conversations = {"c1", "c2"}
    Database = "postgresql"
    Ratings <- TwoRatings
    CaseStates <- TwoCaseStates
    MaxAnswers = 2
    MaxRatings = 2
    MaxCalls = 3
    MaxRows = 5
    LongestPage = 3
    Limits <- SomeLimits
    PoolCalls = {"k1", "k2"}
    Keys = {"a", "b"}
    Cascade <- TwoModels
    MaxKeyRetries = 1
    Interval = 1
    ShortRest = 2
    DayRest = 3
    LongestWait = 1
    MaxPoolTime = 4
    Problems <- SomeProblems
    DocumentLists <- SomeDocuments
    ResultLists <- SomeResults
    MaxClaims = 2
    MaxReferences = 2
    MaxLabels = 2
    TopParagraphs = 1
    PageChars = 8
    IndexThreads = {"i1", "i2", "i3"}
    IndexHost <- TwoOnOneHost
    Attempts = 2
    MaxIndexPages = 2
    MaxTroubles = 2
    Rewrites = {"q1", "q2"}
    Hints <- NoHints
    Provisions = {"p1", "p2"}
    Tools = {"search_legal_provisions", "search_web_official", "lookup_answer_cache", "ask_user_for_clarification"}
    MaxTold = 1
    MaxFound = 2
    MaxSteps = 3
    MaxSearchCalls = 2
    MaxWebCalls = 1
    MaxAtOnce = 2
    MaxRequests = 3
INVARIANTS LimitsAreKept HitsFollowTheReview ReviewsStayWithTheirFeedback CasesAreWhole PagesMissNothing AmountsAreConsistent ClaimsCiteTheirSource UsedIndexesAreWhole WorkIsBounded EveryCallIsAnswered 
PROPERTIES KeysAreSpared LoopRunsOut
CHECK_DEADLOCK FALSE
