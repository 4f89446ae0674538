SPECIFICATION Spec
CONSTANTS
    c1 = c1
    c2 = c2
    c3 = c3
    Cases = {c1, c2, c3}
    Unreadable = {}
    Unstorable = {c1}
    MaxRefresh = 2
    StartOf <- CaseStarts
    Docs = {1, 2, 3, 4, 5}
    FeedOf <- DiaryFeeds
    DateOf <- DiaryDates
    CaseOf <- DiaryCases
    Rejected = {4}
    Withdrawable = {4}
    PageSize = 1
    MaxPages = 4
    MaxInCase = 2
    MaxFaults = 1
    Present = {2, 3}
INVARIANTS
    IngestTypeOK
    EventsAreEarliest
PROPERTIES
    CleanExitsAreComplete
    RefreshIsOldestFirst
    EveryOpenCaseIsReached
