SPECIFICATION Spec
\* MaxRuns is spent.
CHECK_DEADLOCK FALSE
CONSTANTS
    t1 = t1
    t2 = t2
    t3 = t3
    Tenants = {t1, t2, t3}
    Schema <- MCSchema
    Keys = {"type", "feed"}
    Feed <- MCFeed
    RoleKeys = {"feed"}
    Manual = {t3}
    Spools <- MCSpools
    Batches <- MCBatches
    Options <- MCOptions
    MaxRuns = 2
INVARIANT TypeOK
INVARIANT ReportedIsServed
INVARIANT ForeignTopologyHasCause
INVARIANT OwnFeedWins
