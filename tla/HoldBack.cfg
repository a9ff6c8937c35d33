\* 7 ids, so that several gaps can be open at once.
SPECIFICATION Spec
CONSTANTS
    MaxId = 7
    SeqSize = 9
INVARIANT TypeOK
INVARIANT PassedOrWaiting
INVARIANT NullsBehind
