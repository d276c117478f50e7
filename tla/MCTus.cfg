SPECIFICATION FairSpec
CONSTANTS
    Games <- CallsAndTransfers
    Name = "bob"
    Threads = {"t1", "t2"}
    TitleLimit = 1
    RequestLimit = 1
    MaxTitles = 1
    MaxRequests = 1
    MaxSessions = 2
    MaxParts = 2
INVARIANT UnansweredIsExplained
 
 
PROPERTY WaitEnds
CHECK_DEADLOCK FALSE
