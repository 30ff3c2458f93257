SPECIFICATION Spec
CONSTANTS
    d1 = d1
    c1 = c1
    Daemons = {d1}
    Commands = {c1}
    Managed = FALSE
    Acks = {TRUE}
    PullMsgs = 1
    Deltas <- MCDeltas
    MaxPublished = 2
    MaxCommands = 1
    Faults = {}
    MaxFaults = 0
INVARIANT OnlyAmsNeverAcks
CHECK_DEADLOCK FALSE
