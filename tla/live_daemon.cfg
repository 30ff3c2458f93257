SPECIFICATION FairSpec
CONSTANTS
    d1 = d1
    c1 = c1
    t1 = t1
    t2 = t2
    h1 = h1
    h2 = h2
    Procs = {d1}
    Daemons = {d1}
    Tenants = {t1, t2}
    FilteredTenants = {t2}
    ManagedTenants = {}
    AmsEvents = {}
    PlaybookKind <- MCMisnamedPlaybooks
    ManualTokens = {}
    Components <- MCComponents
    InitialRestTokens = {t1, t2}
    Ack = FALSE
    PullMsgs = 2
    InitCheckCount = 1
    BackendHosts = {h1}
    Messages <- MCLiveMessages
    MaxPublished = 2
    Faults = {"lost", "exception", "git", "iam", "expiry", "pull", "ams"}
    MaxFaults = 1
    Operator = {"stop"}
    OperatorStatuses = {"INITIALISED"}
PROPERTIES JobsSettle StopHonoured
CHECK_DEADLOCK FALSE
