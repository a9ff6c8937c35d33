--------------------------- MODULE ConnTableProofs ---------------------------
(***************************************************************************)
(* Proofs about the Hub's connections, for any set of nodes and any number *)
(* of launches, whatever closes, resets, silences and rejoins there are.   *)
(*                                                                         *)
(* The invariants hold together.  The table agrees with the kernel because *)
(* accept returns a descriptor that is free, and one is free because the   *)
(* connection that is accepted has none; a proxy has one connection        *)
(* because a rejoin closes the descriptor the proxy remembers, and that is *)
(* the descriptor of every tied connection of the node that is still in    *)
(* the table.                                                              *)
(***************************************************************************)
EXTENDS ConnTable, TLAPS, FiniteSetTheorems, SequenceTheorems, WellFoundedInduction

\* A connection waits to be accepted, once, or was given a descriptor; only
\* then can it be tied, and only after its handshake was read.
Lifecycle ==
    /\ \A c \in Conn : fdOf[c] # None => c \in DOMAIN nodeOf
    /\ \A c \in Conn : peer[c] # "unborn" => c \in DOMAIN nodeOf
    /\ \A i \in DOMAIN backlog : backlog[i] \in DOMAIN nodeOf /\ fdOf[backlog[i]] = None
    /\ \A i, j \in DOMAIN backlog : backlog[i] = backlog[j] => i = j
    /\ Listen \in active => backlog # <<>>
    /\ \A c \in tied : fdOf[c] # None /\ msg[c] # "handshake_q"

\* What remembers a descriptor was tied.
ProxyIsTied == \A n \in Node : proxyFd[n] # None => \E d \in tied : nodeOf[d] = n

\* The table agrees with the kernel, and the epoll set with the table.
TableInv ==
    /\ conns = sock
    /\ \A f \in Fd : conns[f] # None => fdOf[conns[f]] = f

InterestInv == \A c \in Conn : chan[c].registered => InTable(c)

\* Every tied connection that is in the table is the one of its proxy.
ProxyInv ==
    \A c \in tied : InTable(c) => /\ proxyConn[nodeOf[c]] = c
                                  /\ proxyFd[nodeOf[c]] = fdOf[c]

\* No node was launched twice.
FirstJoins == \A c, d \in DOMAIN nodeOf : nodeOf[c] = nodeOf[d] => c = d

\* No process closed its connection or had it reset.
NoEnd == \A c \in Conn : peer[c] \notin {"fin", "rst"}

\* While no node was launched twice, the channels whose turn is to come are
\* valid, and only the end of a connection can end the Hub.
SafeInv == FirstJoins => /\ \A c \in active \ {Listen} : InTable(c)
                         /\ NoEnd => hubUp

TableOK == TypeOK /\ Lifecycle /\ TableInv
ProxyOK == ProxyIsTied /\ ProxyInv
Inv == TableOK /\ InterestInv /\ ProxyOK /\ SafeInv

-----------------------------------------------------------------------------
(* Facts about the operators *)

\* A set of numbers has a least one.
LEMMA LeastNat ==
    ASSUME NEW S, S \subseteq Nat, S # {}
    PROVE  \E m \in S : \A k \in S : m <= k
<1> DEFINE R == OpToRel(<, Nat)
<1>1. IsWellFoundedOn(R, Nat)
      BY NatLessThanWellFounded
<1>2. \A x, y \in Nat : x < y => <<x, y>> \in R
      BY DEF OpToRel
<1> HIDE DEF R
<1>3. PICK m \in S : \A k \in S : ~(<<k, m>> \in R)
      BY <1>1, WFMin
<1>4. ASSUME NEW k \in S PROVE m <= k
  <2>1. m \in Nat /\ k \in Nat
        OBVIOUS
  <2>2. ~(k < m)
        BY <1>2, <1>3, <2>1
  <2> QED BY <2>1, <2>2
<1> QED BY <1>4

\* However a channel is updated, its status agrees with the epoll set.
LEMMA ChannelUpdates ==
    /\ NewChannel \in Channel
    /\ \A c \in Conn : ConnChannel(c) \in Channel
    /\ \A ch \in Channel :
          /\ DisableWrite(ch) \in Channel
          /\ DisableAll(ch) \in Channel
          /\ [ch EXCEPT !.registered = FALSE] \in Channel
<1>1. ASSUME NEW ch \in Channel
      PROVE  /\ UpdateChannel(ch) \in Channel
             /\ [ch EXCEPT !.read = FALSE] \in Channel
             /\ [ch EXCEPT !.read = TRUE] \in Channel
             /\ [ch EXCEPT !.registered = FALSE] \in Channel
      BY DEF Channel, UpdateChannel
<1>2. NewChannel \in Channel
      BY DEF NewChannel, Channel
<1> QED BY <1>1, <1>2 DEF ConnChannel, DisableWrite, DisableAll, EnableRead

\* A connection is in the table exactly under its own descriptor.
LEMMA TableEntry ==
    ASSUME TypeOK, TableInv, NEW c \in Conn
    PROVE  InTable(c) <=> fdOf[c] \in Fd /\ conns[fdOf[c]] = c
<1>1. c # None
      BY ConnsAssumption DEF Conn, None
<1> QED BY <1>1 DEF InTable, TableInv

\* The next connection to accept has no descriptor yet, so not all are taken:
\* accept finds one that is free.
LEMMA FreeFd ==
    ASSUME TypeOK, Lifecycle, TableInv, backlog # <<>>
    PROVE  LET c  == Head(backlog)
               fd == CHOOSE f \in Fd : sock[f] = None /\ \A g \in 1..(f - 1) : sock[g] # None
           IN  /\ c \in Conn /\ c \in DOMAIN nodeOf /\ fdOf[c] = None
               /\ fd \in Fd /\ sock[fd] = None
<1> DEFINE c == Head(backlog)
           free == {f \in Fd : sock[f] = None}
<1> USE ConnsAssumption
<1>1. c \in Conn /\ 1 \in DOMAIN backlog /\ c = backlog[1]
      BY DEF TypeOK
<1>2. c \in DOMAIN nodeOf /\ fdOf[c] = None
      BY <1>1 DEF Lifecycle
<1> HIDE DEF c
<1>3. free # {}
  <2>1. SUFFICES ASSUME free = {} PROVE FALSE
        OBVIOUS
  <2>2. \A f \in Fd : sock[f] \in Conn /\ fdOf[sock[f]] = f
        BY <2>1 DEF TypeOK, TableInv
  <2>3. sock \in [Fd -> Conn \ {c}]
    <3>1. \A f \in Fd : sock[f] # c
          BY <1>2, <2>2 DEF Fd, None
    <3> QED BY <2>2, <3>1 DEF TypeOK
  <2>4. IsFiniteSet(Fd) /\ Cardinality(Fd) = MaxConns
        BY FS_Interval DEF Fd
  <2>5. IsFiniteSet(Conn) /\ Cardinality(Conn) = MaxConns
        BY FS_Interval DEF Conn
  <2>6. IsFiniteSet(Conn \ {c}) /\ Cardinality(Conn \ {c}) = MaxConns - 1
        BY <1>1, <2>5, FS_RemoveElement
  <2>7. Cardinality(Conn \ {c}) < Cardinality(Fd)
        BY <2>4, <2>6
  <2>8. PICK f, g \in Fd : f # g /\ sock[f] = sock[g]
        BY <2>3, <2>4, <2>6, <2>7, FS_PigeonHole
  <2> QED BY <2>2, <2>8
<1>4. PICK m \in free : \A k \in free : m <= k
  <2>1. free \subseteq Nat
        BY DEF Fd
  <2> QED BY <1>3, <2>1, LeastNat
<1>5. m \in Fd /\ sock[m] = None /\ \A g \in 1..(m - 1) : sock[g] # None
      BY <1>4 DEF Fd
<1>6. \E f \in Fd : sock[f] = None /\ \A g \in 1..(f - 1) : sock[g] # None
      BY <1>5
<1> QED BY <1>1, <1>2, <1>6 DEF c

-----------------------------------------------------------------------------
(* The table and the descriptors *)

LEMMA InitInv == Init => Inv
<1> SUFFICES ASSUME Init PROVE Inv
    OBVIOUS
<1> USE ConnsAssumption
<1>1. TypeOK
      BY ChannelUpdates DEF Init, TypeOK, Peer
<1>2. \A c \in Conn : ~InTable(c)
      BY DEF Init, InTable, Conn, None
<1>3. Lifecycle /\ TableInv /\ ProxyIsTied /\ ProxyInv /\ SafeInv
      BY DEF Init, Lifecycle, TableInv, ProxyIsTied, ProxyInv, SafeInv
<1>4. InterestInv
      BY DEF Init, InterestInv, NewChannel
<1> QED BY <1>1, <1>3, <1>4 DEF Inv, TableOK, ProxyOK

LEMMA LaunchTable == ASSUME TableOK, NEW n \in Node, Launch(n) PROVE TableOK'
<1> DEFINE c == Len(nodeOf) + 1
<1> USE ConnsAssumption
<1>1. /\ c \in Conn
      /\ nodeOf' = Append(nodeOf, n) /\ peer' = [peer EXCEPT ![c] = "up"]
      /\ msg' = [msg EXCEPT ![c] = "handshake_q"] /\ backlog' = Append(backlog, c)
      /\ UNCHANGED <<tableVars, chan, active, hubVars>>
      BY DEF Launch
<1>2. /\ nodeOf \in Seq(Node) /\ Len(nodeOf) \in Nat /\ DOMAIN nodeOf = 1..Len(nodeOf)
      /\ backlog \in Seq(Conn) /\ Len(backlog) \in Nat /\ DOMAIN backlog = 1..Len(backlog)
      BY DEF TableOK, TypeOK
<1>3. /\ nodeOf' \in Seq(Node) /\ Len(nodeOf') = c /\ DOMAIN nodeOf' = 1..c
      BY <1>1, <1>2
<1>4. /\ backlog' \in Seq(Conn) /\ Len(backlog') = Len(backlog) + 1
      /\ DOMAIN backlog' = 1..(Len(backlog) + 1)
      /\ backlog'[Len(backlog) + 1] = c
      /\ \A i \in 1..Len(backlog) : backlog'[i] = backlog[i]
  <2> HIDE DEF c
  <2> QED BY <1>1, <1>2
<1>5. c \notin DOMAIN nodeOf /\ fdOf[c] = None /\ c \notin tied
  <2>1. c \notin DOMAIN nodeOf
        BY <1>2
  <2> QED BY <1>1, <2>1 DEF TableOK, Lifecycle
<1>6. TypeOK'
  <2>1. peer' \in [Conn -> Peer] /\ msg' \in [Conn -> {"none", "handshake_q", "appendentries_r"}]
        BY <1>1 DEF TableOK, TypeOK, Peer
  <2>2. c <= MaxConns
        BY <1>1 DEF Conn
  <2> QED BY <1>1, <1>3, <1>4, <2>1, <2>2 DEF TableOK, TypeOK, tableVars, hubVars
<1>7. Lifecycle'
  <2>1. \A d \in Conn : fdOf'[d] # None => d \in DOMAIN nodeOf'
        BY <1>1, <1>2, <1>3 DEF TableOK, Lifecycle, tableVars
  <2>2. \A i \in DOMAIN backlog' : backlog'[i] \in DOMAIN nodeOf' /\ fdOf'[backlog'[i]] = None
        BY <1>1, <1>2, <1>3, <1>4, <1>5 DEF TableOK, Lifecycle, tableVars
  <2>3. \A i, j \in DOMAIN backlog' : backlog'[i] = backlog'[j] => i = j
    <3>1. \A i \in 1..Len(backlog) : backlog'[i] # c
          BY <1>2, <1>4, <1>5 DEF TableOK, Lifecycle
    <3> QED BY <1>2, <1>4, <3>1 DEF TableOK, Lifecycle
  <2>4. backlog' # <<>>
        BY <1>2, <1>4
  <2>5. \A d \in tied' : fdOf'[d] # None /\ msg'[d] # "handshake_q"
        BY <1>1, <1>5 DEF TableOK, Lifecycle, TypeOK, tableVars
  <2>6. \A d \in Conn : peer'[d] # "unborn" => d \in DOMAIN nodeOf'
        BY <1>1, <1>2, <1>3 DEF TableOK, Lifecycle, TypeOK
  <2> QED BY <2>1, <2>2, <2>3, <2>4, <2>5, <2>6 DEF Lifecycle
<1>8. TableInv'
      BY <1>1 DEF TableOK, TableInv, tableVars
<1> QED BY <1>6, <1>7, <1>8 DEF TableOK

LEMMA PeerTable ==
    ASSUME TableOK, NEW c \in Conn, Leave(c) \/ Reply(c) PROVE TableOK'
<1> USE ConnsAssumption
<1>1. TypeOK'
      BY DEF TableOK, TypeOK, Leave, Reply, Peer, peerVars, tableVars, hubVars
<1>2. Lifecycle' /\ TableInv'
      BY DEF TableOK, TypeOK, Lifecycle, TableInv, Leave, Reply, peerVars, tableVars, hubVars
<1> QED BY <1>1, <1>2 DEF TableOK

LEMMA PollTable == ASSUME TableOK, Poll PROVE TableOK'
<1>1. TypeOK'
      BY DEF TableOK, TypeOK, Poll, peerVars, tableVars, hubVars
<1>2. Listen \in active' => backlog # <<>>
      BY ConnsAssumption DEF Poll, Listen, Conn
<1>3. Lifecycle' /\ TableInv'
      BY <1>2 DEF TableOK, Lifecycle, TableInv, Poll, peerVars, tableVars, hubVars
<1> QED BY <1>1, <1>3 DEF TableOK

LEMMA AcceptTable == ASSUME TableOK, TcpAcceptCallback PROVE TableOK'
<1> DEFINE c  == Head(backlog)
           fd == CHOOSE f \in Fd : sock[f] = None /\ \A g \in 1..(f - 1) : sock[g] # None
<1> USE ConnsAssumption
<1>1. /\ active' = active \ {Listen}
      /\ fdOf' = [fdOf EXCEPT ![c] = fd]
      /\ sock' = [sock EXCEPT ![fd] = c] /\ conns' = [conns EXCEPT ![fd] = c]
      /\ chan' = [chan EXCEPT ![c] = ConnChannel(c)]
      /\ backlog' = Tail(backlog)
      /\ UNCHANGED <<nodeOf, peer, msg, tied, proxyFd, proxyConn, hubVars>>
      BY DEF TcpAcceptCallback
<1>2. backlog # <<>> /\ backlog \in Seq(Conn)
      BY DEF TableOK, TypeOK, Lifecycle, TcpAcceptCallback
<1>3. /\ c \in Conn /\ c \in DOMAIN nodeOf /\ fdOf[c] = None
      /\ fd \in Fd /\ sock[fd] = None
      BY <1>2, FreeFd DEF TableOK
<1>4. /\ Tail(backlog) \in Seq(Conn) /\ Len(backlog) \in Nat \ {0}
      /\ DOMAIN backlog = 1..Len(backlog) /\ DOMAIN Tail(backlog) = 1..(Len(backlog) - 1)
      /\ c = backlog[1]
      /\ \A i \in 1..(Len(backlog) - 1) : Tail(backlog)[i] = backlog[i + 1]
      BY <1>2
<1> HIDE DEF c, fd
<1>5. TypeOK'
  <2>1. chan' \in [Conn -> Channel]
        BY <1>1, <1>3, ChannelUpdates DEF TableOK, TypeOK
  <2> QED BY <1>1, <1>3, <1>4, <2>1 DEF TableOK, TypeOK, hubVars
<1>6. Lifecycle'
  <2>1. \A d \in Conn : fdOf'[d] # None => d \in DOMAIN nodeOf'
        BY <1>1, <1>3 DEF TableOK, TypeOK, Lifecycle
  <2>2. \A i \in DOMAIN backlog' : /\ i + 1 \in DOMAIN backlog
                                   /\ backlog'[i] = backlog[i + 1] /\ backlog'[i] # c
    <3> SUFFICES ASSUME NEW i \in DOMAIN backlog'
                 PROVE  /\ i + 1 \in DOMAIN backlog
                        /\ backlog'[i] = backlog[i + 1] /\ backlog'[i] # c
        OBVIOUS
    <3>1. backlog' = Tail(backlog) /\ i \in 1..(Len(backlog) - 1)
          BY <1>1, <1>4
    <3>2. i + 1 \in 1..Len(backlog) /\ 1 \in 1..Len(backlog) /\ i + 1 # 1
          BY <1>4, <3>1
    <3>3. backlog'[i] = backlog[i + 1]
          BY <1>4, <3>1
    <3>4. backlog[i + 1] # backlog[1]
          BY <1>4, <3>2 DEF TableOK, Lifecycle
    <3> QED BY <1>4, <3>2, <3>3, <3>4
  <2>3. \A i \in DOMAIN backlog' : backlog'[i] \in DOMAIN nodeOf' /\ fdOf'[backlog'[i]] = None
        BY <1>1, <1>3, <2>2 DEF TableOK, TypeOK, Lifecycle
  <2>4. \A i, j \in DOMAIN backlog' : backlog'[i] = backlog'[j] => i = j
    <3> SUFFICES ASSUME NEW i \in DOMAIN backlog', NEW j \in DOMAIN backlog',
                        backlog'[i] = backlog'[j]
                 PROVE  i = j
        OBVIOUS
    <3>1. i + 1 = j + 1
          BY <2>2 DEF TableOK, Lifecycle
    <3> QED BY <1>1, <1>4, <3>1
  <2>5. \A d \in tied' : fdOf'[d] # None /\ msg'[d] # "handshake_q"
        BY <1>1, <1>3 DEF TableOK, TypeOK, Lifecycle
  <2>6. \A d \in Conn : peer'[d] # "unborn" => d \in DOMAIN nodeOf'
        BY <1>1 DEF TableOK, Lifecycle
  <2> QED BY <1>1, <2>1, <2>3, <2>4, <2>5, <2>6 DEF Lifecycle
<1>7. TableInv'
      BY <1>1, <1>3 DEF TableOK, TypeOK, TableInv, Fd, None
<1> QED BY <1>5, <1>6, <1>7 DEF TableOK

\* The handler of a connection that is in the table.
LEMMA CloseTable == ASSUME TableOK, NEW c \in Conn, CloseCallback(c) PROVE TableOK'
<1> USE ConnsAssumption
<1>1. /\ active' = active \ {c}
      /\ chan' = [chan EXCEPT ![c] = [DisableAll(chan[c]) EXCEPT !.registered = FALSE]]
      /\ sock' = [sock EXCEPT ![fdOf[c]] = None] /\ conns' = [conns EXCEPT ![fdOf[c]] = None]
      /\ UNCHANGED <<peerVars, msg, fdOf, tied, proxyFd, proxyConn, leader>>
      /\ hubUp' \in BOOLEAN
      BY DEF CloseCallback, CloseAndOffline, TableOK, TypeOK
<1>2. fdOf[c] \in Fd /\ conns[fdOf[c]] = c
      BY TableEntry DEF CloseCallback, TableOK
<1>3. TypeOK'
  <2>1. chan' \in [Conn -> Channel]
        BY <1>1, ChannelUpdates DEF TableOK, TypeOK
  <2> QED BY <1>1, <1>2, <2>1 DEF TableOK, TypeOK, peerVars
<1>4. Lifecycle' /\ TableInv'
      BY <1>1, <1>2 DEF TableOK, TypeOK, Lifecycle, TableInv, peerVars
<1> QED BY <1>3, <1>4 DEF TableOK

\* A message is read, and at most the channel of its connection changes.
LEMMA ReadTable ==
    ASSUME TableOK, NEW c \in Conn,
           /\ active' = active \ {c}
           /\ msg' = [msg EXCEPT ![c] = "none"]
           /\ chan' = chan \/ chan' = [chan EXCEPT ![c] = DisableWrite(chan[c])]
           /\ leader' \in BOOLEAN /\ hubUp' \in BOOLEAN
           /\ UNCHANGED <<peerVars, fdOf, sock, conns>>,
           \/ UNCHANGED <<tied, proxyFd, proxyConn>>
           \/ InTable(c) /\ Tie(c)
    PROVE  TableOK'
<1> USE ConnsAssumption
<1>1. InTable(c) => fdOf[c] \in Fd /\ nodeOf[c] \in Node
      BY TableEntry DEF TableOK, TypeOK, Lifecycle, Fd, None
<1>2. tied' \subseteq Conn /\ proxyFd' \in [Node -> Fd \cup {None}]
      /\ proxyConn' \in [Node -> Conn \cup {None}]
      BY <1>1 DEF TableOK, TypeOK, Tie
<1>3. chan' \in [Conn -> Channel]
  <2>1. chan \in [Conn -> Channel] /\ DisableWrite(chan[c]) \in Channel
        BY ChannelUpdates DEF TableOK, TypeOK
  <2> QED BY <2>1
<1>4. TypeOK'
      BY <1>2, <1>3 DEF TableOK, TypeOK, peerVars
<1>5. \A d \in tied' : fdOf'[d] # None /\ msg'[d] # "handshake_q"
      BY <1>1 DEF TableOK, TypeOK, Lifecycle, Tie, Fd, None
<1>6. Lifecycle' /\ TableInv'
      BY <1>5 DEF TableOK, TypeOK, Lifecycle, TableInv, peerVars
<1> QED BY <1>4, <1>6 DEF TableOK

\* What HandshakeReplace does: fd is the descriptor it closes, d the
\* connection that is destroyed.
Replaced(c, fd, d) ==
    /\ fd \in Fd /\ fd # fdOf[c] /\ d \in Conn /\ d # c
    /\ conns[fd] = d /\ fdOf[d] = fd
    /\ fdOf[c] \in Fd /\ conns[fdOf[c]] = c /\ nodeOf[c] \in Node
    /\ active' = active \ {c}
    /\ msg' = [msg EXCEPT ![c] = "none"]
    /\ chan' = [chan EXCEPT ![d] = [chan[d] EXCEPT !.registered = FALSE],
                            ![c] = DisableWrite(DisableAll(chan[c]))]
    /\ sock' = [sock EXCEPT ![fd] = None] /\ conns' = [conns EXCEPT ![fd] = None]
    /\ Tie(c)
    /\ UNCHANGED <<peerVars, fdOf, hubVars>>

LEMMA ReplaceEffect ==
    ASSUME TableOK, NEW c \in Conn, HandshakeReplace(c)
    PROVE  \E d \in Conn : Replaced(c, proxyFd[nodeOf[c]], d)
<1> DEFINE fd == proxyFd[nodeOf[c]]
           d  == conns[fd]
<1> USE ConnsAssumption
<1>1. /\ fd \notin {None, fdOf[c]} /\ conns[fd] # None
      /\ InTable(c) /\ active' = active \ {c} /\ msg' = [msg EXCEPT ![c] = "none"]
      /\ Server_CloseConn(c, fd) /\ Tie(c)
      /\ UNCHANGED <<peerVars, fdOf, hubVars>>
      BY DEF HandshakeReplace, ReadHandshake, ProxyConnFd
<1>2. fdOf[c] \in Fd /\ conns[fdOf[c]] = c
      BY <1>1, TableEntry DEF TableOK
<1>3. c \in DOMAIN nodeOf /\ nodeOf[c] \in Node
      BY <1>2 DEF TableOK, TypeOK, Lifecycle, Fd, None
<1>4. fd \in Fd
      BY <1>1, <1>3 DEF TableOK, TypeOK
<1>5. d \in Conn /\ fdOf[d] = fd /\ sock[fd] = d
      BY <1>1, <1>4 DEF TableOK, TypeOK, TableInv
<1>6. d # c
      BY <1>1, <1>5
<1> HIDE DEF fd, d
<1>7. chan' = [chan EXCEPT ![d] = [chan[d] EXCEPT !.registered = FALSE],
                           ![c] = DisableWrite(DisableAll(chan[c]))]
  <2>1. chan' = [[chan EXCEPT ![d].registered = FALSE] EXCEPT ![c] = DisableWrite(DisableAll(@))]
        BY <1>1, <1>5 DEF Server_CloseConn, Unregister
  <2> QED BY <2>1, <1>5, <1>6 DEF TableOK, TypeOK
<1>8. sock' = [sock EXCEPT ![fd] = None] /\ conns' = [conns EXCEPT ![fd] = None]
      BY <1>1 DEF Server_CloseConn, CloseAndOffline
<1>9. conns[fd] = d
      BY DEF d
<1>10. Replaced(c, fd, d)
      BY <1>1, <1>2, <1>3, <1>4, <1>5, <1>6, <1>7, <1>8, <1>9 DEF Replaced
<1> QED BY <1>5, <1>10 DEF fd

LEMMA ReplaceTable ==
    ASSUME TableOK, NEW c \in Conn, NEW fd, NEW d, Replaced(c, fd, d) PROVE TableOK'
<1> USE ConnsAssumption DEF Replaced
<1>1. chan' \in [Conn -> Channel]
  <2>1. DisableWrite(DisableAll(chan[c])) \in Channel /\ [chan[d] EXCEPT !.registered = FALSE] \in Channel
        BY ChannelUpdates DEF TableOK, TypeOK
  <2> QED BY <2>1 DEF TableOK, TypeOK
<1>2. TypeOK'
      BY <1>1 DEF TableOK, TypeOK, Tie, peerVars, hubVars
<1>3. \A x \in tied' : fdOf'[x] # None /\ msg'[x] # "handshake_q"
      BY DEF TableOK, TypeOK, Lifecycle, Tie, Fd, None
<1>4. Lifecycle'
      BY <1>3 DEF TableOK, TypeOK, Lifecycle, peerVars
<1>5. TableInv'
      BY DEF TableOK, TypeOK, TableInv
<1> QED BY <1>2, <1>4, <1>5 DEF TableOK

\* A handler that reads a message without closing anything.
ReadsOnly(c) == HandshakeNotLeader(c) \/ HandshakeTie(c) \/ HandshakeEraseEnd(c) \/ HandleReply(c)

LEMMA ReadEffect ==
    ASSUME TableOK, NEW c \in Conn, ReadsOnly(c)
    PROVE  /\ hubUp /\ c \in active /\ InTable(c)
           /\ active' = active \ {c}
           /\ msg' = [msg EXCEPT ![c] = "none"]
           /\ chan' = chan \/ chan' = [chan EXCEPT ![c] = DisableWrite(chan[c])]
           /\ leader' \in BOOLEAN /\ hubUp' \in BOOLEAN
           /\ UNCHANGED <<peerVars, fdOf, sock, conns>>
           /\ \/ UNCHANGED <<tied, proxyFd, proxyConn>>
              \/ InTable(c) /\ Tie(c) /\ HandshakeTie(c)
<1>1. leader \in BOOLEAN /\ hubUp \in BOOLEAN
      BY DEF TableOK, TypeOK
<1> QED BY <1>1 DEF ReadsOnly, HandshakeNotLeader, HandshakeTie, HandshakeEraseEnd, HandleReply,
                    ReadHandshake, tableVars, hubVars

LEMMA TableStep == TableOK /\ [Next]_vars => TableOK'
<1> SUFFICES ASSUME TableOK, [Next]_vars PROVE TableOK'
    OBVIOUS
<1>1. ASSUME NEW n \in Node, Launch(n) PROVE TableOK'
      BY <1>1, LaunchTable
<1>2. ASSUME NEW c \in Conn, Leave(c) \/ Reply(c) PROVE TableOK'
      BY <1>2, PeerTable
<1>3. CASE Poll
      BY <1>3, PollTable
<1>4. CASE TcpAcceptCallback
      BY <1>4, AcceptTable
<1>5. ASSUME NEW c \in Conn, CloseCallback(c) PROVE TableOK'
      BY <1>5, CloseTable
<1>6. ASSUME NEW c \in Conn, HandleFreedChannel(c) PROVE TableOK'
      BY <1>6 DEF TableOK, TypeOK, Lifecycle, TableInv, HandleFreedChannel, peerVars, tableVars
<1>7. ASSUME NEW c \in Conn, ReadsOnly(c) PROVE TableOK'
      BY <1>7, ReadEffect, ReadTable
<1>8. ASSUME NEW c \in Conn, HandshakeReplace(c) PROVE TableOK'
      BY <1>8, ReplaceEffect, ReplaceTable
<1>9. CASE UNCHANGED vars
      BY <1>9 DEF TableOK, TypeOK, Lifecycle, TableInv, vars, peerVars, tableVars, hubVars
<1> QED BY <1>1, <1>2, <1>3, <1>4, <1>5, <1>6, <1>7, <1>8, <1>9 DEF Next, HandleEvent, ReadsOnly

-----------------------------------------------------------------------------
(* The epoll set, the proxies, and the first joins *)

\* What the handlers leave of the table.
LEMMA AcceptEffect ==
    ASSUME TableOK, TcpAcceptCallback
    PROVE  \E c \in Conn, fd \in Fd :
              /\ conns[fd] = None /\ fdOf[c] = None /\ c \notin tied
              /\ fdOf' = [fdOf EXCEPT ![c] = fd]
              /\ conns' = [conns EXCEPT ![fd] = c]
              /\ chan' = [chan EXCEPT ![c] = ConnChannel(c)]
              /\ active' = active \ {Listen}
              /\ UNCHANGED <<nodeOf, peer, msg, tied, proxyFd, proxyConn, hubVars>>
<1> DEFINE c  == Head(backlog)
           fd == CHOOSE f \in Fd : sock[f] = None /\ \A g \in 1..(f - 1) : sock[g] # None
<1>1. backlog # <<>>
      BY DEF TableOK, Lifecycle, TcpAcceptCallback
<1>2. c \in Conn /\ fdOf[c] = None /\ fd \in Fd /\ sock[fd] = None
      BY <1>1, FreeFd DEF TableOK
<1>3. conns[fd] = None /\ c \notin tied
      BY <1>2 DEF TableOK, TableInv, Lifecycle
<1>4. /\ active' = active \ {Listen}
      /\ fdOf' = [fdOf EXCEPT ![c] = fd] /\ conns' = [conns EXCEPT ![fd] = c]
      /\ chan' = [chan EXCEPT ![c] = ConnChannel(c)]
      /\ UNCHANGED <<nodeOf, peer, msg, tied, proxyFd, proxyConn, hubVars>>
      BY DEF TcpAcceptCallback
<1> HIDE DEF c, fd
<1> QED BY <1>2, <1>3, <1>4

LEMMA CloseEffect ==
    ASSUME TableOK, NEW c \in Conn, CloseCallback(c)
    PROVE  /\ fdOf[c] \in Fd /\ conns[fdOf[c]] = c
           /\ conns' = [conns EXCEPT ![fdOf[c]] = None]
           /\ chan' \in [Conn -> Channel] /\ ~chan'[c].registered
           /\ \A d \in Conn \ {c} : chan'[d] = chan[d]
           /\ active' = active \ {c}
           /\ hubUp /\ peer[c] \in {"fin", "rst"}
           /\ UNCHANGED <<peerVars, msg, fdOf, tied, proxyFd, proxyConn>>
<1>1. fdOf[c] \in Fd /\ conns[fdOf[c]] = c
      BY TableEntry DEF CloseCallback, TableOK
<1>2. /\ chan' = [chan EXCEPT ![c] = [DisableAll(chan[c]) EXCEPT !.registered = FALSE]]
      /\ conns' = [conns EXCEPT ![fdOf[c]] = None]
      /\ active' = active \ {c}
      /\ hubUp /\ peer[c] \in {"fin", "rst"}
      /\ UNCHANGED <<peerVars, msg, fdOf, tied, proxyFd, proxyConn>>
      BY DEF CloseCallback, CloseAndOffline
<1>3. DisableAll(chan[c]) \in Channel
      BY ChannelUpdates DEF TableOK, TypeOK
<1>4. /\ [DisableAll(chan[c]) EXCEPT !.registered = FALSE] \in Channel
      /\ ~[DisableAll(chan[c]) EXCEPT !.registered = FALSE].registered
      BY <1>3 DEF Channel
<1>5. /\ chan' \in [Conn -> Channel] /\ ~chan'[c].registered
      /\ \A d \in Conn \ {c} : chan'[d] = chan[d]
      BY <1>2, <1>4 DEF TableOK, TypeOK
<1> QED BY <1>1, <1>2, <1>5

\* After a rejoin the closed connection is out of the epoll set.
LEMMA ReplacedChannels ==
    ASSUME TableOK, NEW c \in Conn, NEW fd, NEW d, Replaced(c, fd, d)
    PROVE  /\ ~chan'[d].registered
           /\ \A x \in Conn \ {c, d} : chan'[x] = chan[x]
<1>1. chan[d] \in Channel /\ d \in Conn /\ c # d
      BY DEF TableOK, TypeOK, Replaced
<1>2. ~[chan[d] EXCEPT !.registered = FALSE].registered
      BY <1>1 DEF Channel
<1> QED BY <1>1, <1>2 DEF Replaced, TableOK, TypeOK

LEMMA InterestStep == TableOK /\ InterestInv /\ [Next]_vars => InterestInv'
<1> SUFFICES ASSUME TableOK, InterestInv, [Next]_vars PROVE InterestInv'
    OBVIOUS
<1> USE ConnsAssumption
<1>t. chan \in [Conn -> Channel] /\ conns \in [Fd -> Conn \cup {None}]
      BY DEF TableOK, TypeOK
<1>0. CASE UNCHANGED <<chan, conns>>
      BY <1>0 DEF InterestInv, InTable
<1>1. ASSUME NEW n \in Node, Launch(n) PROVE UNCHANGED <<chan, conns>>
      BY <1>1 DEF Launch, tableVars
<1>2. ASSUME NEW c \in Conn, Leave(c) \/ Reply(c) PROVE UNCHANGED <<chan, conns>>
      BY <1>2 DEF Leave, Reply, tableVars
<1>3. CASE TcpAcceptCallback
  <2>1. PICK c \in Conn, fd \in Fd :
             /\ conns[fd] = None /\ conns' = [conns EXCEPT ![fd] = c]
             /\ chan' = [chan EXCEPT ![c] = ConnChannel(c)]
        BY <1>3, AcceptEffect
  <2>2. \A d \in Conn : InTable(d) => InTable(d)'
        BY <1>t, <2>1 DEF InTable, Conn, None
  <2>3. InTable(c)'
        BY <1>t, <2>1 DEF InTable
  <2>4. \A d \in Conn \ {c} : chan'[d] = chan[d]
        BY <1>t, <2>1
  <2> QED BY <2>2, <2>3, <2>4 DEF InterestInv
<1>4. ASSUME NEW c \in Conn, CloseCallback(c) PROVE InterestInv'
  <2>1. /\ fdOf[c] \in Fd /\ conns[fdOf[c]] = c
        /\ conns' = [conns EXCEPT ![fdOf[c]] = None]
        /\ ~chan'[c].registered /\ \A d \in Conn \ {c} : chan'[d] = chan[d]
        BY <1>4, CloseEffect
  <2>2. \A d \in Conn \ {c} : InTable(d) => InTable(d)'
        BY <1>t, <2>1 DEF InTable
  <2> QED BY <2>1, <2>2 DEF InterestInv
<1>5. ASSUME NEW c \in Conn, HandleFreedChannel(c) PROVE UNCHANGED <<chan, conns>>
      BY <1>5 DEF HandleFreedChannel, tableVars
<1>6. ASSUME NEW c \in Conn, ReadsOnly(c) PROVE InterestInv'
  <2>1. /\ InTable(c) /\ conns' = conns
        /\ chan' = chan \/ chan' = [chan EXCEPT ![c] = DisableWrite(chan[c])]
        BY <1>6, ReadEffect
  <2>2. \A d \in Conn \ {c} : chan'[d] = chan[d]
        BY <1>t, <2>1
  <2> QED BY <2>1, <2>2 DEF InterestInv, InTable
<1>7. ASSUME NEW c \in Conn, HandshakeReplace(c) PROVE InterestInv'
  <2> DEFINE fd == proxyFd[nodeOf[c]]
  <2>1. PICK d \in Conn : Replaced(c, fd, d)
        BY <1>7, ReplaceEffect
  <2>2. ~chan'[d].registered /\ \A x \in Conn \ {c, d} : chan'[x] = chan[x]
        BY <2>1, ReplacedChannels
  <2> HIDE DEF fd
  <2>3. \A x \in Conn \ {d} : InTable(x) => InTable(x)'
        BY <1>t, <2>1 DEF InTable, Replaced
  <2>4. InTable(c)
        BY <2>1 DEF InTable, Replaced
  <2> QED BY <2>1, <2>2, <2>3, <2>4 DEF InterestInv, Replaced
<1>8. CASE Poll \/ UNCHANGED vars
      BY <1>0, <1>8 DEF Poll, vars, tableVars
<1> QED BY <1>0, <1>1, <1>2, <1>3, <1>4, <1>5, <1>6, <1>7, <1>8 DEF Next, HandleEvent, ReadsOnly

\* The nodes of the connections that were launched do not change.
LEMMA LaunchedStay ==
    ASSUME TableOK, NEW n \in Node, Launch(n)
    PROVE  /\ \A c \in DOMAIN nodeOf : c \in DOMAIN nodeOf' /\ nodeOf'[c] = nodeOf[c]
           /\ tied \subseteq DOMAIN nodeOf
<1>1. nodeOf \in Seq(Node) /\ nodeOf' = Append(nodeOf, n)
      BY DEF TableOK, TypeOK, Launch
<1> QED BY <1>1 DEF TableOK, TypeOK, Lifecycle

\* A tied connection is in the table under its own descriptor, and its node
\* is one of the nodes.
LEMMA TiedEntry ==
    ASSUME TableOK, NEW c \in tied
    PROVE  /\ c \in Conn /\ c \in DOMAIN nodeOf /\ nodeOf[c] \in Node /\ fdOf[c] \in Fd
           /\ InTable(c) <=> conns[fdOf[c]] = c
<1>1. c \in Conn /\ c \in DOMAIN nodeOf /\ fdOf[c] \in Fd
      BY DEF TableOK, TypeOK, Lifecycle
<1> QED BY <1>1, TableEntry DEF TableOK, TypeOK

\* Tying c is safe when no other connection of its node that stays in the
\* table is tied.
LEMMA TieProxy ==
    ASSUME TableOK, ProxyOK, NEW c \in Conn, Tie(c), InTable(c),
           UNCHANGED <<nodeOf, fdOf>>,
           \A d \in tied : InTable(d)' => InTable(d),
           \A d \in tied : InTable(d)' /\ nodeOf[d] = nodeOf[c] => d = c
    PROVE  ProxyOK'
<1>1. c \in DOMAIN nodeOf /\ nodeOf[c] \in Node
  <2>1. fdOf[c] # None
        BY TableEntry DEF TableOK, Fd, None
  <2> QED BY <2>1 DEF TableOK, TypeOK, Lifecycle
<1>2. /\ proxyFd \in [Node -> Fd \cup {None}] /\ proxyConn \in [Node -> Conn \cup {None}]
      /\ tied' = tied \cup {c}
      /\ proxyFd' = [proxyFd EXCEPT ![nodeOf[c]] = fdOf[c]]
      /\ proxyConn' = [proxyConn EXCEPT ![nodeOf[c]] = c]
      BY DEF TableOK, TypeOK, Tie
<1>3. ProxyIsTied'
      BY <1>1, <1>2 DEF ProxyOK, ProxyIsTied
<1>4. ASSUME NEW d \in tied', InTable(d)'
      PROVE  proxyConn'[nodeOf'[d]] = d /\ proxyFd'[nodeOf'[d]] = fdOf'[d]
  <2>1. CASE d = c
        BY <1>1, <1>2, <2>1
  <2>2. CASE d # c
    <3>1. d \in tied /\ InTable(d) /\ nodeOf[d] # nodeOf[c]
          BY <1>2, <1>4, <2>2
    <3>2. nodeOf[d] \in Node
          BY <3>1, TiedEntry
    <3> QED BY <1>2, <3>1, <3>2 DEF ProxyOK, ProxyInv
  <2> QED BY <2>1, <2>2
<1> QED BY <1>3, <1>4 DEF ProxyOK, ProxyInv

LEMMA ProxyStep == TableOK /\ ProxyOK /\ [Next]_vars => ProxyOK'
<1> SUFFICES ASSUME TableOK, ProxyOK, [Next]_vars PROVE ProxyOK'
    OBVIOUS
<1> USE ConnsAssumption
<1>t. conns \in [Fd -> Conn \cup {None}] /\ fdOf \in [Conn -> Fd \cup {None}]
      BY DEF TableOK, TypeOK
<1>0. ASSUME UNCHANGED <<nodeOf, fdOf, tied, proxyFd, proxyConn>>,
             \A d \in tied : InTable(d)' => InTable(d)
      PROVE  ProxyOK'
      BY <1>0 DEF ProxyOK, ProxyIsTied, ProxyInv
<1>1. ASSUME NEW n \in Node, Launch(n) PROVE ProxyOK'
  <2>1. UNCHANGED <<fdOf, conns, tied, proxyFd, proxyConn>>
        BY <1>1 DEF Launch, tableVars
  <2>2. \A d \in tied : nodeOf'[d] = nodeOf[d]
        BY <1>1, LaunchedStay
  <2> QED BY <2>1, <2>2 DEF ProxyOK, ProxyIsTied, ProxyInv, InTable
<1>2. ASSUME NEW c \in Conn, Leave(c) \/ Reply(c) PROVE ProxyOK'
      BY <1>0, <1>2 DEF Leave, Reply, tableVars, peerVars, InTable
<1>3. CASE TcpAcceptCallback
  <2>1. PICK c \in Conn, fd \in Fd :
             /\ conns[fd] = None /\ c \notin tied
             /\ conns' = [conns EXCEPT ![fd] = c] /\ fdOf' = [fdOf EXCEPT ![c] = fd]
             /\ UNCHANGED <<nodeOf, tied, proxyFd, proxyConn>>
        BY <1>3, AcceptEffect
  <2>2. \A d \in tied : (InTable(d)' => InTable(d)) /\ fdOf'[d] = fdOf[d]
        BY <1>t, <2>1, TiedEntry DEF InTable
  <2> QED BY <2>1, <2>2 DEF ProxyOK, ProxyIsTied, ProxyInv
<1>4. ASSUME NEW c \in Conn, CloseCallback(c) PROVE ProxyOK'
  <2>1. /\ fdOf[c] \in Fd /\ conns[fdOf[c]] = c
        /\ conns' = [conns EXCEPT ![fdOf[c]] = None]
        /\ UNCHANGED <<nodeOf, fdOf, tied, proxyFd, proxyConn>>
        BY <1>4, CloseEffect DEF peerVars
  <2>2. \A d \in tied : InTable(d)' => InTable(d)
        BY <1>t, <2>1, TiedEntry DEF InTable, Conn, None
  <2> QED BY <1>0, <2>1, <2>2
<1>5. ASSUME NEW c \in Conn, HandleFreedChannel(c) PROVE ProxyOK'
      BY <1>0, <1>5 DEF HandleFreedChannel, tableVars, peerVars, InTable
<1>6. ASSUME NEW c \in Conn, ReadsOnly(c) PROVE ProxyOK'
  <2>1. UNCHANGED <<nodeOf, fdOf, conns>> /\ InTable(c)
        BY <1>6, ReadEffect DEF peerVars
  <2>2. CASE UNCHANGED <<tied, proxyFd, proxyConn>>
        BY <1>0, <2>1, <2>2 DEF InTable
  <2>3. CASE Tie(c) /\ HandshakeTie(c)
    <3>1. proxyFd[nodeOf[c]] \in {None, fdOf[c]}
          BY <2>3 DEF HandshakeTie, ProxyConnFd
    <3>2. conns[fdOf[c]] = c
          BY <2>1, TableEntry DEF TableOK
    <3>3. ASSUME NEW d \in tied, InTable(d), nodeOf[d] = nodeOf[c] PROVE d = c
      <4>1. proxyFd[nodeOf[c]] = fdOf[d] /\ fdOf[d] \in Fd /\ conns[fdOf[d]] = d
            BY <3>3, TiedEntry DEF ProxyOK, ProxyInv
      <4> QED BY <3>1, <3>2, <4>1 DEF Fd, None
    <3> QED BY <2>1, <2>3, <3>3, TieProxy DEF InTable
  <2> QED BY <1>6, <2>2, <2>3, ReadEffect
<1>7. ASSUME NEW c \in Conn, HandshakeReplace(c) PROVE ProxyOK'
  <2> DEFINE fd == proxyFd[nodeOf[c]]
  <2>1. PICK d \in Conn : Replaced(c, fd, d)
        BY <1>7, ReplaceEffect
  <2>2. UNCHANGED <<nodeOf, fdOf>> /\ Tie(c) /\ InTable(c)
        BY <2>1 DEF Replaced, peerVars, InTable
  <2>3. \A x \in tied : InTable(x)' => InTable(x) /\ x # d
    <3> HIDE DEF fd
    <3> QED BY <1>t, <2>1, TiedEntry DEF InTable, Replaced, TableOK, TableInv, Conn, None
  <2>4. ASSUME NEW x \in tied, InTable(x)', nodeOf[x] = nodeOf[c] PROVE x = c
    <3>1. InTable(x) /\ x # d
          BY <2>3, <2>4
    <3>2. fdOf[x] = fd /\ conns[fdOf[x]] = x
          BY <2>4, <3>1, TiedEntry DEF ProxyOK, ProxyInv
    <3> QED BY <2>1, <3>1, <3>2 DEF Replaced
  <2> QED BY <2>2, <2>3, <2>4, TieProxy
<1>8. CASE Poll \/ UNCHANGED vars
      BY <1>0, <1>8 DEF Poll, vars, tableVars, peerVars, InTable
<1> QED BY <1>1, <1>2, <1>3, <1>4, <1>5, <1>6, <1>7, <1>8 DEF Next, HandleEvent, ReadsOnly

\* Under FirstJoins the node of a handshake that is read has no proxy yet.
LEMMA FirstHasNoProxy ==
    ASSUME TableOK, ProxyOK, FirstJoins, NEW c \in Conn, ReadHandshake(c)
    PROVE  proxyFd[nodeOf[c]] = None
<1>1. InTable(c) /\ msg[c] = "handshake_q"
      BY DEF ReadHandshake
<1>2. c \in DOMAIN nodeOf /\ nodeOf[c] \in Node
  <2>1. fdOf[c] # None
        BY <1>1, TableEntry DEF TableOK, Fd, None
  <2> QED BY <2>1 DEF TableOK, TypeOK, Lifecycle
<1>3. SUFFICES ASSUME proxyFd[nodeOf[c]] # None PROVE FALSE
      OBVIOUS
<1>4. PICK d \in tied : nodeOf[d] = nodeOf[c]
      BY <1>2, <1>3 DEF ProxyOK, ProxyIsTied
<1>5. d \in DOMAIN nodeOf
      BY TiedEntry
<1>6. d = c
      BY <1>2, <1>4, <1>5 DEF FirstJoins
<1> QED BY <1>1, <1>6 DEF TableOK, Lifecycle

\* Once a node was launched twice this stays so, and so does the end of a
\* connection.
LEMMA FirstJoinsBefore ==
    TableOK /\ [Next]_vars => (FirstJoins' => FirstJoins) /\ (NoEnd' => NoEnd)
<1> SUFFICES ASSUME TableOK, [Next]_vars
             PROVE  (FirstJoins' => FirstJoins) /\ (NoEnd' => NoEnd)
    OBVIOUS
<1>t. peer \in [Conn -> Peer]
      BY DEF TableOK, TypeOK
<1>0. CASE UNCHANGED <<nodeOf, peer>>
      BY <1>0 DEF FirstJoins, NoEnd
<1>1. ASSUME NEW n \in Node, Launch(n)
      PROVE  (FirstJoins' => FirstJoins) /\ (NoEnd' => NoEnd)
  <2>1. \A c \in DOMAIN nodeOf : c \in DOMAIN nodeOf' /\ nodeOf'[c] = nodeOf[c]
        BY <1>1, LaunchedStay
  <2>2. PICK c \in Conn : c \notin DOMAIN nodeOf /\ peer' = [peer EXCEPT ![c] = "up"]
    <3>1. Len(nodeOf) + 1 \notin DOMAIN nodeOf
          BY DEF TableOK, TypeOK
    <3> QED BY <1>1, <3>1 DEF Launch
  <2>3. peer[c] \notin {"fin", "rst"}
        BY <2>2 DEF TableOK, Lifecycle
  <2>4. FirstJoins' => FirstJoins
        BY <2>1 DEF FirstJoins
  <2>5. NoEnd' => NoEnd
        BY <1>t, <2>2, <2>3 DEF NoEnd
  <2> QED BY <2>4, <2>5
<1>2. ASSUME NEW c \in Conn, Leave(c)
      PROVE  (FirstJoins' => FirstJoins) /\ (NoEnd' => NoEnd)
      BY <1>2, <1>t DEF Leave, FirstJoins, NoEnd
<1> QED BY <1>0, <1>1, <1>2
        DEF Next, HandleEvent, Reply, Poll, TcpAcceptCallback, CloseCallback, HandleFreedChannel,
            HandshakeNotLeader, HandshakeTie, HandshakeReplace, HandshakeEraseEnd, HandleReply,
            vars, peerVars

LEMMA SafeStep == Inv /\ [Next]_vars => SafeInv'
<1> DEFINE Safe == (\A d \in active \ {Listen} : InTable(d)) /\ (NoEnd => hubUp)
<1> SUFFICES ASSUME Inv, [Next]_vars, FirstJoins'
             PROVE  Safe'
    BY DEF SafeInv
<1> USE ConnsAssumption
<1>f. TableOK /\ ProxyOK /\ InterestInv
      BY DEF Inv
<1>g. FirstJoins
      BY <1>f, FirstJoinsBefore
<1>e. (NoEnd' => NoEnd) /\ (NoEnd => hubUp)
      BY <1>f, <1>g, FirstJoinsBefore DEF Inv, SafeInv
<1>h. \A d \in active \ {Listen} : d \in Conn /\ InTable(d)
      BY <1>f, <1>g DEF Inv, SafeInv, TableOK, TypeOK
<1>t. conns \in [Fd -> Conn \cup {None}]
      BY <1>f DEF TableOK, TypeOK
<1>0. ASSUME UNCHANGED <<conns, hubUp>>, active' \subseteq active
      PROVE  Safe'
      BY <1>0, <1>e, <1>h DEF InTable
<1>1. ASSUME NEW n \in Node, Launch(n) PROVE UNCHANGED <<conns, hubUp, active>>
      BY <1>1 DEF Launch, tableVars, hubVars
<1>2. ASSUME NEW c \in Conn, Leave(c) \/ Reply(c) PROVE UNCHANGED <<conns, hubUp, active>>
      BY <1>2 DEF Leave, Reply, tableVars, hubVars
<1>3. CASE Poll
  <2>1. UNCHANGED <<conns, hubUp>> /\ \A d \in active' \ {Listen} : d \in Conn /\ chan[d].registered
        BY <1>3 DEF Poll, Ready, tableVars, hubVars
  <2> QED BY <1>e, <1>f, <2>1 DEF InterestInv, InTable
<1>4. CASE TcpAcceptCallback
  <2>1. PICK c \in Conn, fd \in Fd :
             /\ conns[fd] = None /\ conns' = [conns EXCEPT ![fd] = c]
             /\ active' = active \ {Listen} /\ UNCHANGED hubVars
        BY <1>4, <1>f, AcceptEffect
  <2>2. \A d \in Conn : InTable(d) => InTable(d)'
        BY <1>t, <2>1 DEF InTable, Conn, None
  <2> QED BY <1>e, <1>h, <2>1, <2>2 DEF hubVars
<1>5. ASSUME NEW c \in Conn, CloseCallback(c)
      PROVE  Safe'
  <2>1. /\ fdOf[c] \in Fd /\ conns[fdOf[c]] = c
        /\ conns' = [conns EXCEPT ![fdOf[c]] = None]
        /\ active' = active \ {c} /\ peer[c] \in {"fin", "rst"}
        BY <1>5, <1>f, CloseEffect
  <2>2. \A d \in Conn \ {c} : InTable(d) => InTable(d)'
        BY <1>t, <2>1 DEF InTable
  <2> QED BY <1>e, <1>h, <2>1, <2>2 DEF NoEnd
<1>6. ASSUME NEW c \in Conn PROVE ~HandleFreedChannel(c) /\ ~HandshakeReplace(c) /\ ~HandshakeEraseEnd(c)
  <2>1. ~HandleFreedChannel(c)
        BY <1>h DEF HandleFreedChannel
  <2>2. ReadHandshake(c) => proxyFd[nodeOf[c]] = None
        BY <1>f, <1>g, FirstHasNoProxy
  <2> QED BY <2>1, <2>2 DEF HandshakeReplace, HandshakeEraseEnd, ProxyConnFd
<1>7. ASSUME NEW c \in Conn, HandshakeNotLeader(c) \/ HandshakeTie(c) \/ HandleReply(c)
      PROVE  UNCHANGED <<conns, hubUp>> /\ active' \subseteq active
      BY <1>7 DEF HandshakeNotLeader, HandshakeTie, HandleReply, ReadHandshake, tableVars, hubVars
<1>8. CASE UNCHANGED vars
      BY <1>0, <1>8 DEF vars, tableVars, hubVars
<1> QED BY <1>0, <1>1, <1>2, <1>3, <1>4, <1>5, <1>6, <1>7, <1>8 DEF Next, HandleEvent

-----------------------------------------------------------------------------
(* The theorems *)

LEMMA TableInvariant == Spec => []Inv
<1>1. Inv /\ [Next]_vars => Inv'
      BY TableStep, InterestStep, ProxyStep, SafeStep DEF Inv
<1> QED BY <1>1, InitInv, PTL DEF Spec

\* Every variable of the table keeps its type, and the status of a channel
\* agrees with the epoll set; in particular accept always finds a descriptor.
THEOREM TableTypeCorrect == Spec => []TypeOK
<1>1. Inv => TypeOK
      BY DEF Inv, TableOK
<1> QED BY <1>1, TableInvariant, PTL

\* The table has an entry exactly for the open descriptors, each with the
\* connection that the kernel has there (TcpAcceptCallback, OfflineConn).
THEOREM TableHoldsOpenFds == Spec => []TableIsOpenFds
<1>1. Inv => TableIsOpenFds
      BY DEF Inv, TableOK, TableInv, TableIsOpenFds
<1> QED BY <1>1, TableInvariant, PTL

\* However often a node is launched, at most one of its connections in the
\* table is tied, and it is the one its proxy sends on (HandshakeQ, Tie).
THEOREM ProxyHasOneConn == Spec => []OneConnPerProxy
<1>1. Inv => OneConnPerProxy
      BY DEF Inv, ProxyOK, ProxyInv, OneConnPerProxy
<1> QED BY <1>1, TableInvariant, PTL

\* The epoll set never holds the channel of a destroyed connection
\* (UpdateChannel, Server_CloseConn).
THEOREM EpollSetIsLive == Spec => []InterestIsLive
<1>1. Inv => InterestIsLive
      BY DEF Inv, InterestInv, InterestIsLive
<1> QED BY <1>1, TableInvariant, PTL

\* Without a second launch no handler frees a channel that still waits its
\* turn, and unless a connection ends the Hub goes on (HandleEvent,
\* OfflineConn).
THEOREM FirstJoinsNeverEndHub == Spec => []FirstJoinsAreSafe
<1>1. Inv => FirstJoinsAreSafe
      BY DEF Inv, SafeInv, FirstJoins, NoEnd, FirstJoinsAreSafe
<1> QED BY <1>1, TableInvariant, PTL

=============================================================================
