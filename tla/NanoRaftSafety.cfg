SPECIFICATION Spec
CONSTANTS
    Node = {n1, n2}
    Hub = hub
    MaxTerm = 1
    MaxInFlight = 2
    MaxPutErrors = 1
    MaxDead = 1
SYMMETRY NodeSymmetry
INVARIANTS
    TypeOK
    AckedIsStored
    LeaderOnlyInTermZero
    CommitLearnedFromHub
    LogPrefix
PROPERTIES
    CommitNeverRetreats
    FrozenAfterStepDown
\* A Hub that stopped takes the cluster with it.
CHECK_DEADLOCK FALSE
