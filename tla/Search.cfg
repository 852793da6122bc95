SPECIFICATION FairSpec
CONSTANTS
    people = people
    sub = sub
    base = base
    Asks <- One
    Scopes <- Two
    FirstScope <- sub
    Paged <- One
    LastPage = 1
    HistoryMax = 1
    MaxRuns = 2
    MaxRequests = 2
    MaxSessions = 2
CHECK_DEADLOCK FALSE
INVARIANTS TypeOK PagesHonest
PROPERTIES HistoryTellsWhatRan SearchEnds
