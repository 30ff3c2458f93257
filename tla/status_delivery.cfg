SPECIFICATION Spec
CONSTANTS
    Retries = 3
    MaxResets = 2
    Faults = {"response", "connection", "timeout", "unreadable"}
    MaxFaults = 4
INVARIANTS TypeOK RetriesMaskErrors AcknowledgedStays
PROPERTIES ImplementsPatchCall FinalIsFinal
CHECK_DEADLOCK FALSE
