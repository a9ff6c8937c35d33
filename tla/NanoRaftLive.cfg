SPECIFICATION LiveSpec
CONSTANTS
    Node = {n1, n2}
    Hub = hub
    MaxTerm = 1
    MaxInFlight = 1
    MaxPutErrors = 0
    MaxDead = 1
PROPERTIES
    TermSpreads
    CatchUp
\* A Hub that stopped takes the cluster with it.
CHECK_DEADLOCK FALSE
