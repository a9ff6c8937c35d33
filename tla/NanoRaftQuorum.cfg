SPECIFICATION LiveSpec
CONSTANTS
    Node = {n1, n2}
    Hub = hub
    MaxTerm = 0
    MaxInFlight = 2
    MaxPutErrors = 0
    MaxDead = 0
PROPERTY CommitQuorum
CHECK_DEADLOCK FALSE
