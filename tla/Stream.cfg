\* Bodies of 0 or 1 byte, a socket of 4 and buffers of 3: sends and receives
\* are cut inside headers and bodies, and both buffers can be overrun.
SPECIFICATION LiveSpec
CONSTANTS
    MaxBody = 1
    SockCap = 4
    BufCap = 3
    MaxBytes = 5
CHECK_DEADLOCK FALSE
INVARIANT TypeOK
INVARIANT NodeInterest
INVARIANT OverrunIsBounded
PROPERTY ImplementsMessageLink
PROPERTY HandshakeHandled
PROPERTY FramesFlow
PROPERTY SpinEnds
