SPECIFICATION FairSpec
CONSTANTS
    t1 = t1
    t2 = t2
    None = None
    Threads = {t1, t2}
    Users = {1}
    Apis = {"setRequestTimeout", "addMultipartPart", "sendRequest", "readData", "getHttpStatusCode", "abortRequest"}
    Sdks = {200, 400}
    UserIdLimit = 2
    MaxContexts = 2
    MaxRequests = 1
    MaxHandles = 1
    MaxCalls = 6
    MaxShared = 4
INVARIANT CountsAreTrue
INVARIANT DeletionsWait
INVARIANT HttpGoesWithRequest
CHECK_DEADLOCK FALSE
PROPERTY CallsEnd
