SPECIFICATION FairSpec
CONSTANTS
    d1 = d1
    c1 = c1
    Daemons = {d1}
    Commands = {c1}
    Managed = TRUE
    Acks = {TRUE, FALSE}
    PullMsgs = 2
    Deltas <- MCDeltas
    MaxPublished = 3
    MaxCommands = 2
    Faults = {"ams", "pull", "ack", "exception", "purge"}
    MaxFaults = 1
INVARIANT TypeOK
INVARIANT NothingSkipped
INVARIANT StuckWithoutAck
PROPERTY SkipsAtMostAsked
PROPERTY EventuallyHandled
CHECK_DEADLOCK FALSE
