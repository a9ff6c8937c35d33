SPECIFICATION Spec
CONSTANTS
    Node = {n1, n2, n3}
    Hub = hub
    MaxTerm = 0
    MaxInFlight = 1
    MaxPutErrors = 0
    MaxDead = 0
INVARIANT CommitWithinLog
CHECK_DEADLOCK FALSE
