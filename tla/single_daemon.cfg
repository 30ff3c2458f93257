SPECIFICATION Spec
CONSTANTS
    d1 = d1
    c1 = c1
    t1 = t1
    t2 = t2
    h1 = h1
    h2 = h2
    Procs = {d1}
    Daemons = {d1}
    Tenants = {t1, t2}
    FilteredTenants = {}
    ManagedTenants = {}
    AmsEvents = {}
    PlaybookKind <- MCPlaybooks
    ManualTokens = {}
    Components <- MCComponents
    InitialRestTokens = {t1, t2}
    Ack = FALSE
    PullMsgs = 2
    InitCheckCount = 1
    BackendHosts = {h1}
    Messages <- MCMessages
    MaxPublished = 2
    Faults = {"lost", "exception", "git", "iam", "crash", "expiry"}
    MaxFaults = 2
    Operator = {"start", "stop", "update"}
    OperatorStatuses = {"INITIALISED"}
INVARIANTS TypeOK CompletedMeansConfigured CompletedMeansPublishing OrphanedOnlyByFault PushedBeforePuppet WorksOnOpenJobs
PROPERTIES FollowsLifecycle OrphansStay
