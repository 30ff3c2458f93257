SPECIFICATION Spec
CONSTANTS
    t1 = t1
    t2 = t2
    p1 = p1
    p2 = p2
    Procs = {p1, p2}
    Tenants = {t1, t2}
    Spools = {"webapi", "restapi"}
    Components <- MCComponents
    MonboxComponents = {"monbox", "restapi"}
    Sessions <- MCSessions
    MaxSessions = 3
    Faults = {"unreadable", "retried", "late", "empty", "client", "exception", "crash"}
    MaxFaults = 1
INVARIANTS TypeOK SavedIsAccepted DeployedIsAccepted StaleIsKept
SYMMETRY Symmetry
CHECK_DEADLOCK FALSE
