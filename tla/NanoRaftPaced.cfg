SPECIFICATION PacedSpec
CONSTANTS
    Node = {n1, n2, n3}
    Hub = hub
    MaxTerm = 1
    MaxInFlight = 1
    MaxPutErrors = 0
    MaxDead = 1
SYMMETRY NodeSymmetry
PROPERTY ImplementsConfigLog
\* A Hub that stopped takes the cluster with it.
CHECK_DEADLOCK FALSE
