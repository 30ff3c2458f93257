SPECIFICATION Spec
CONSTANTS
    t1 = t1
    t2 = t2
    p1 = p1
    p2 = p2
    Procs = {p1, p2}
    Tenants = {t1, t2}
    Requests <- MCRequests
    Configured = {t2}
    MaxOperations = 3
    Faults = {"clone", "push", "crash"}
    MaxFaults = 2
INVARIANTS TypeOK SuccessIsReal BranchesAgree HalfRemovedStays
PROPERTIES ImplementsRegistry
CHECK_DEADLOCK FALSE
