SPECIFICATION LiveSpec
CONSTANTS
    Node = {a, b}
    MaxConns = 3
CHECK_DEADLOCK FALSE
PROPERTY OldConnIsReplaced
