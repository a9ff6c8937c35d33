------------------------------ MODULE ConnTable ------------------------------
(***************************************************************************)
(* The Hub's connections: the table m_stConns_ keyed by descriptor, the    *)
(* descriptor m_iConnFd_ each proxy remembers, and the epoll set that      *)
(* decides which connections are heard (RaftServer.cpp, RaftProxy.cpp,     *)
(* Conn.cpp, HandshakeQ of ModApi.hpp, Channel, EPoller, EventLoop).       *)
(*                                                                         *)
(* Every launch of a join process is a connection of its own.  A process   *)
(* may close, be reset, or vanish without a word, and its node may then be *)
(* launched again under the same nodeid.  Descriptors are numbered from 1, *)
(* and accept returns the lowest one that is free.                         *)
(*                                                                         *)
(* The loop is single threaded: Poll collects the ready channels, and      *)
(* their handlers run one after the other.  A handler may destroy a        *)
(* connection whose channel is still waiting its turn.                     *)
(*                                                                         *)
(* Handling writes is left out: a reply is taken to fit the socket buffer. *)
(***************************************************************************)
EXTENDS Integers, FiniteSets, Sequences

CONSTANTS
    Node,           \* the nodeids of the servers launched with "join"
    MaxConns        \* bound: launches of join processes

ASSUME NodeSetAssumption == IsFiniteSet(Node)
ASSUME ConnsAssumption == MaxConns \in Nat \ {0}

Conn == 1..MaxConns
Fd   == 1..MaxConns
None == 0           \* no connection, no descriptor (the code's -1)
Peer == {"unborn", "up", "fin", "rst", "lost"}

VARIABLES
    nodeOf,         \* the nodeid of every launch so far
    peer,           \* the process at the other end of a connection
    msg,            \* what it has sent and the Hub has not yet read
    backlog,        \* connections the Hub has not accepted yet
    fdOf,           \* m_iFd_ of a connection
    sock,           \* kernel: the connection a descriptor stands for
    conns,          \* m_stConns_
    chan,           \* the channel of a connection, and its epoll registration
    tied,           \* connections whose m_pstProxy_ is set
    proxyFd,        \* m_iConnFd_ of a node's proxy; None without a proxy
    proxyConn,      \* m_pstConn_ of a node's proxy
    active,         \* m_stActiveChannels_: channels whose turn is to come
    leader,         \* whether the Hub is the leader
    hubUp           \* whether the Hub is running

peerVars  == <<nodeOf, peer, backlog>>
tableVars == <<fdOf, sock, conns, tied, proxyFd, proxyConn>>
hubVars   == <<leader, hubUp>>
vars      == <<peerVars, msg, tableVars, chan, active, hubVars>>

Listen == 0         \* the listening channel, beside the channels of Conn

InTable(c) == \E f \in Fd : conns[f] = c

-----------------------------------------------------------------------------
(* Channels.                                                               *)

\* Fault: the status is not set when the channel is added.
UpdateChannelNoStatus(ch) ==
    IF ch.status # "added" THEN [ch EXCEPT !.registered = TRUE] ELSE ch

\* Fault: a channel is deleted without looking at its events.
UpdateChannelDeletes(ch) ==
    IF ch.status # "added" THEN [ch EXCEPT !.status = "added", !.registered = TRUE]
    ELSE [ch EXCEPT !.status = "deleted", !.registered = FALSE]

\* UpdateChannel: ADD, DEL or MOD.  A channel without events is taken out,
\* and the next update puts it back with whatever events it then has.
UpdateChannel(ch) ==
    IF ch.status # "added" THEN [ch EXCEPT !.status = "added", !.registered = TRUE]
    ELSE IF ~ch.read THEN [ch EXCEPT !.status = "deleted", !.registered = FALSE]
    ELSE ch

DisableAll(ch) == UpdateChannel([ch EXCEPT !.read = FALSE])

EnableRead(ch) == UpdateChannel([ch EXCEPT !.read = TRUE])

\* EPOLLOUT is never among the events, so clearing it is only an update.
DisableWrite(ch) == UpdateChannel(ch)

NewChannel == [read |-> FALSE, status |-> "new", registered |-> FALSE]

\* Fault: the constructor leaves reading off.
ConnChannelDeaf(c) == DisableWrite(NewChannel)

\* The constructor of Conn.
ConnChannel(c) == EnableRead(DisableWrite(NewChannel))

\* Closing the only descriptor of a socket takes it out of the epoll set.
Unregister(c) == [chan EXCEPT ![c].registered = FALSE]

\* What epoll_wait reports.  A reset is reported whatever the mask.
Ready(c) ==
    /\ chan[c].registered
    /\ \/ chan[c].read /\ (msg[c] # "none" \/ peer[c] = "fin")
       \/ peer[c] = "rst"

-----------------------------------------------------------------------------
Init ==
    /\ nodeOf = <<>>
    /\ peer = [c \in Conn |-> "unborn"]
    /\ msg = [c \in Conn |-> "none"]
    /\ backlog = <<>>
    /\ fdOf = [c \in Conn |-> None]
    /\ sock = [f \in Fd |-> None]
    /\ conns = [f \in Fd |-> None]
    /\ chan = [c \in Conn |-> NewChannel]
    /\ tied = {}
    /\ proxyFd = [n \in Node |-> None]
    /\ proxyConn = [n \in Node |-> None]
    /\ active = {}
    /\ leader = TRUE
    /\ hubUp = TRUE

-----------------------------------------------------------------------------
(* The join processes.                                                     *)

\* A process starts when no other one runs under its nodeid; it connects and
\* sends handshake_q.
Launch(n) ==
    LET c == Len(nodeOf) + 1
    IN  /\ c \in Conn /\ hubUp
        /\ \A d \in DOMAIN nodeOf : nodeOf[d] = n => peer[d] # "up"
        /\ nodeOf' = Append(nodeOf, n)
        /\ peer' = [peer EXCEPT ![c] = "up"]
        /\ msg' = [msg EXCEPT ![c] = "handshake_q"]
        /\ backlog' = Append(backlog, c)
        /\ UNCHANGED <<tableVars, chan, active, hubVars>>

\* A process ends: in order, by a reset, or in a way the Hub never hears of.
\* What it sent before can still be read.
Leave(c) ==
    /\ peer[c] = "up"
    /\ \E how \in {"fin", "rst", "lost"} : peer' = [peer EXCEPT ![c] = how]
    /\ UNCHANGED <<nodeOf, backlog, msg, tableVars, chan, active, hubVars>>

\* A tied process answers the Hub's appendentries_q.
Reply(c) ==
    /\ peer[c] = "up" /\ hubUp
    /\ c \in tied /\ InTable(c)
    /\ msg[c] = "none"
    /\ msg' = [msg EXCEPT ![c] = "appendentries_r"]
    /\ UNCHANGED <<peerVars, tableVars, chan, active, hubVars>>

-----------------------------------------------------------------------------
(* The event loop.                                                         *)

Poll ==
    /\ hubUp /\ active = {}
    /\ active' = {c \in Conn : Ready(c)} \cup (IF backlog = <<>> THEN {} ELSE {Listen})
    /\ active' # {}
    /\ UNCHANGED <<peerVars, msg, tableVars, chan, hubVars>>

\* One connection is accepted per event.
TcpAcceptCallback ==
    /\ hubUp /\ Listen \in active
    /\ active' = active \ {Listen}
    /\ LET c  == Head(backlog)
           fd == CHOOSE f \in Fd : sock[f] = None /\ \A g \in 1..(f - 1) : sock[g] # None
       IN  /\ fdOf' = [fdOf EXCEPT ![c] = fd]
           /\ sock' = [sock EXCEPT ![fd] = c]
           /\ conns' = [conns EXCEPT ![fd] = c]
           /\ chan' = [chan EXCEPT ![c] = ConnChannel(c)]
    /\ backlog' = Tail(backlog)
    /\ UNCHANGED <<nodeOf, peer, msg, tied, proxyFd, proxyConn, hubVars>>

\* Fault: the table keeps the connection.
CloseKeepingEntry(fd) ==
    /\ sock' = [sock EXCEPT ![fd] = None]
    /\ conns' = conns

\* close(fd) and OfflineConn(fd): the Conn dies with its entry.
CloseAndOffline(fd) ==
    /\ sock' = [sock EXCEPT ![fd] = None]
    /\ conns' = [conns EXCEPT ![fd] = None]

\* Closing the connection whose own channel is being handled, after a reset
\* or after recv returned 0.  HandleEvent locks the owner of the channel only
\* while it tests it, so the Conn and its channel are destroyed here, and
\* HandleEvent goes on to read the freed channel: the Hub may die of it.
\* (A reset that epoll had not seen yet is the case where a message of c is
\* handled first.)
CloseCallback(c) ==
    /\ hubUp /\ c \in active /\ InTable(c)
    /\ \/ peer[c] = "rst"
       \/ peer[c] = "fin" /\ chan[c].read /\ msg[c] = "none"
    /\ hubUp' \in BOOLEAN
    /\ active' = active \ {c}
    /\ chan' = [chan EXCEPT ![c] = [DisableAll(@) EXCEPT !.registered = FALSE]]
    /\ CloseAndOffline(fdOf[c])
    /\ UNCHANGED <<peerVars, msg, fdOf, tied, proxyFd, proxyConn, leader>>

\* The turn of a channel that was destroyed with its connection earlier in
\* the same round: HandleEvent reads freed memory, and passes or dies.
HandleFreedChannel(c) ==
    /\ hubUp /\ c \in active \ {Listen} /\ ~InTable(c)
    /\ active' = active \ {c}
    /\ hubUp' \in BOOLEAN
    /\ UNCHANGED <<peerVars, msg, tableVars, chan, leader>>

-----------------------------------------------------------------------------
(* HandshakeQ.                                                             *)

\* The descriptor that the proxy of a node remembers, if there is a proxy.
ProxyConnFd(n) == proxyFd[n]

\* c's channel is handled and what it received is a handshake_q.
ReadHandshake(c) ==
    /\ hubUp /\ c \in active /\ InTable(c)
    /\ msg[c] = "handshake_q"
    /\ active' = active \ {c}
    /\ msg' = [msg EXCEPT ![c] = "none"]

\* Conn::Tie: the connection and the proxy of its node point at each other.
Tie(c) ==
    /\ tied' = tied \cup {c}
    /\ proxyFd' = [proxyFd EXCEPT ![nodeOf[c]] = fdOf[c]]
    /\ proxyConn' = [proxyConn EXCEPT ![nodeOf[c]] = c]

HandshakeNotLeader(c) ==
    /\ ReadHandshake(c)
    /\ ~leader
    /\ chan' = [chan EXCEPT ![c] = DisableWrite(@)]
    /\ UNCHANGED <<peerVars, tableVars, hubVars>>

\* A first join, or a rejoin that was given its old descriptor again.
HandshakeTie(c) ==
    /\ ReadHandshake(c)
    /\ leader
    /\ ProxyConnFd(nodeOf[c]) \in {None, fdOf[c]}
    /\ Tie(c)
    /\ chan' = [chan EXCEPT ![c] = DisableWrite(@)]
    /\ UNCHANGED <<peerVars, fdOf, sock, conns, hubVars>>

\* Fault: the handshake closes nothing.
Server_CloseConnNothing(c, fd) == chan' = chan /\ sock' = sock /\ conns' = conns

\* Fault: the connection is destroyed and its descriptor stays open.
Server_CloseConnLeavesFd(c, fd) ==
    chan' = chan /\ sock' = sock /\ conns' = [conns EXCEPT ![fd] = None]

\* The channel that is switched off is the caller's, not the one of fd; the
\* end of HandleArrivedMsg updates it once more, with no events.
Server_CloseConn(c, fd) ==
    /\ chan' = [Unregister(sock[fd]) EXCEPT ![c] = DisableWrite(DisableAll(@))]
    /\ CloseAndOffline(fd)

\* A rejoin on another descriptor closes the descriptor the proxy remembers,
\* whichever connection that is by now.
HandshakeReplace(c) ==
    LET iOldConnFd == ProxyConnFd(nodeOf[c])
    IN  /\ ReadHandshake(c)
        /\ leader
        /\ iOldConnFd \notin {None, fdOf[c]}
        /\ conns[iOldConnFd] # None
        /\ Server_CloseConn(c, iOldConnFd)
        /\ Tie(c)
        /\ UNCHANGED <<peerVars, fdOf, hubVars>>

\* Fault: the -1 of an unknown node is not told apart.
HandshakeEraseEndUnchecked(c) ==
    LET iOldConnFd == ProxyConnFd(nodeOf[c])
    IN  /\ ReadHandshake(c)
        /\ leader
        /\ iOldConnFd # fdOf[c]
        /\ iOldConnFd = None \/ conns[iOldConnFd] = None
        /\ hubUp' = FALSE
        /\ UNCHANGED <<peerVars, tableVars, chan, leader>>

\* The same when no connection has that descriptor: OfflineConn erases the
\* end iterator of the map, which ends the process.
HandshakeEraseEnd(c) ==
    LET iOldConnFd == ProxyConnFd(nodeOf[c])
    IN  /\ ReadHandshake(c)
        /\ leader
        /\ iOldConnFd \notin {None, fdOf[c]}
        /\ conns[iOldConnFd] = None
        /\ hubUp' = FALSE
        /\ UNCHANGED <<peerVars, tableVars, chan, leader>>

\* Any other message.  A reply of a higher term ends the Hub's leadership.
HandleReply(c) ==
    /\ hubUp /\ c \in active /\ InTable(c)
    /\ msg[c] = "appendentries_r"
    /\ active' = active \ {c}
    /\ msg' = [msg EXCEPT ![c] = "none"]
    /\ \E higher \in BOOLEAN : leader' = (leader /\ ~higher)
    /\ chan' = [chan EXCEPT ![c] = DisableWrite(@)]
    /\ UNCHANGED <<peerVars, tableVars, hubUp>>

-----------------------------------------------------------------------------
HandleEvent(c) ==
    \/ CloseCallback(c) \/ HandleFreedChannel(c)
    \/ HandshakeNotLeader(c) \/ HandshakeTie(c)
    \/ HandshakeReplace(c) \/ HandshakeEraseEnd(c)
    \/ HandleReply(c)

Next ==
    \/ \E n \in Node : Launch(n)
    \/ \E c \in Conn : Leave(c) \/ Reply(c) \/ HandleEvent(c)
    \/ Poll \/ TcpAcceptCallback

Spec == Init /\ [][Next]_vars

\* The loop of a running Hub never rests while there is something to do.
\* Nothing is assumed of the join processes.
Fairness ==
    /\ WF_vars(Poll) /\ WF_vars(TcpAcceptCallback)
    /\ \A c \in Conn : WF_vars(HandleEvent(c))

LiveSpec == Spec /\ Fairness

-----------------------------------------------------------------------------
(* Properties.                                                             *)

\* A registered channel knows that it is (m_iStatus_ decides between ADD, MOD
\* and DEL).
Channel == {ch \in [read : BOOLEAN, status : {"new", "added", "deleted"},
                    registered : BOOLEAN] : ch.registered => ch.status = "added"}

\* Every variable of the connection table has its type, and the status of a
\* channel agrees with the epoll set (EPoller.cpp:66-91).
TypeOK ==
    /\ nodeOf \in Seq(Node) /\ Len(nodeOf) <= MaxConns
    /\ peer \in [Conn -> Peer]
    /\ msg \in [Conn -> {"none", "handshake_q", "appendentries_r"}]
    /\ backlog \in Seq(Conn)
    /\ fdOf \in [Conn -> Fd \cup {None}]
    /\ sock \in [Fd -> Conn \cup {None}]
    /\ conns \in [Fd -> Conn \cup {None}]
    /\ chan \in [Conn -> Channel]
    /\ tied \subseteq Conn
    /\ proxyFd \in [Node -> Fd \cup {None}]
    /\ proxyConn \in [Node -> Conn \cup {None}]
    /\ active \subseteq Conn \cup {Listen}
    /\ leader \in BOOLEAN /\ hubUp \in BOOLEAN

\* While the Hub runs, its table has an entry exactly for the descriptors
\* that are open, and each entry is the connection the kernel has under that
\* descriptor.  Were an entry left behind, the next accept of its descriptor
\* would overwrite it, and the destructor of the old Conn would close the
\* new connection (RaftServer.cpp:566, Conn.cpp:53-57).
TableIsOpenFds ==
    hubUp => /\ conns = sock
             /\ \A f \in Fd : conns[f] # None => fdOf[conns[f]] = f

\* A connection in the table that is tied to a proxy is the one that proxy
\* sends on: a node never has two connections whose replies are counted
\* (AppendEntriesR finds the proxy through the connection it came on, and
\* adds one to its indexes), however often it was launched.
OneConnPerProxy ==
    hubUp => \A c \in tied : InTable(c) => /\ proxyConn[nodeOf[c]] = c
                                          /\ proxyFd[nodeOf[c]] = fdOf[c]

\* The epoll set never holds the channel of a destroyed connection: the
\* pointer in data.ptr that a later epoll_wait returns is valid
\* (EPoller.cpp:97), also when the connection was closed by another one.
InterestIsLive == hubUp => \A c \in Conn : chan[c].registered => InTable(c)

\* As long as no node is launched twice, every channel whose turn is to come
\* is that of a living connection: the handler of one connection never frees
\* the channel of another (EventLoop.cpp:41-46), and what may end the Hub is
\* only the end of a connection, whose own channel is then read after it is
\* freed (Channel.cpp:43-51).  Without such an end the Hub goes on: the end
\* iterator is never erased (RaftServer.cpp:264-265).
FirstJoinsAreSafe ==
    (\A c, d \in DOMAIN nodeOf : nodeOf[c] = nodeOf[d] => c = d) =>
        /\ \A c \in active \ {Listen} : InTable(c)
        /\ (\A c \in Conn : peer[c] \notin {"fin", "rst"}) => hubUp

\* A process that connects gets its handshake handled, unless the Hub ends
\* or closes the connection first in favour of another one.
HandshakeServed ==
    \A c \in Conn :
        msg[c] = "handshake_q" ~> \/ msg[c] # "handshake_q"
                                  \/ fdOf[c] # None /\ ~InTable(c)
                                  \/ ~hubUp

\* The connection of a process that closed is taken out of the table, unless
\* the Hub ends or has stopped reading that connection.
EofReaped ==
    \A c \in Conn :
        (peer[c] = "fin" /\ InTable(c)) ~> (~InTable(c) \/ ~chan[c].read \/ ~hubUp)

\* HandshakeQ says of a node that already has a proxy: kill its old
\* connection and put this one in its place (ModApi.hpp:81).  So whatever a
\* handshake closes belongs to the same node, and the connection that made
\* the handshake is still heard afterwards.
OldConnIsReplaced ==
    [][\A c \in Conn :
          HandshakeReplace(c) => /\ nodeOf[conns[proxyFd[nodeOf[c]]]] = nodeOf[c]
                                 /\ chan'[c].read]_vars

=============================================================================
