\* 2 nodes, 3 launches: a node can be away while its descriptor is taken.
\* The Hub may end, and the launches run out, so the system may stop.
SPECIFICATION LiveSpec
CONSTANTS
    Node = {a, b}
    MaxConns = 3
CHECK_DEADLOCK FALSE
INVARIANT TypeOK
INVARIANT TableIsOpenFds
INVARIANT OneConnPerProxy
INVARIANT InterestIsLive
INVARIANT FirstJoinsAreSafe
PROPERTY HandshakeServed
PROPERTY EofReaped
