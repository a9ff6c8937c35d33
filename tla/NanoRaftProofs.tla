--------------------------- MODULE NanoRaftProofs ---------------------------
(***************************************************************************)
(* Theorems about NanoRaft, for any set of nodes and any bounds: types,    *)
(* leadership, commit indexes, and what the Hub's count of replies says    *)
(* about a node's log.                                                     *)
(***************************************************************************)
EXTENDS NanoRaft, SequenceTheorems, FiniteSetTheorems, TLAPS

-----------------------------------------------------------------------------
(* What the operators that build messages and logs return.                 *)

\* The part of TypeOK that sending reads.
LEMMA EntriesForType ==
    ASSUME NEW n \in Node, NEW log \in Seq(Entry),
           nextIndex \in [Node -> Nat \ {0}]
    PROVE  EntriesFor(n, log) \in Seq(Entry)
<1>1. CASE LastEntryIndex(log) < nextIndex[n]
  BY <1>1 DEF EntriesFor
<1>2. CASE ~(LastEntryIndex(log) < nextIndex[n])
  <2>1. /\ Len(log) \in Nat
        /\ nextIndex[n] \in Nat \ {0}
        /\ Len(log) - 1 >= nextIndex[n]
    BY <1>2 DEF LastEntryIndex
  <2>2. log[1] \in Entry /\ log[2] \in Entry /\ log[nextIndex[n] + 1] \in Entry
    BY <2>1
  <2>3. QED
    BY <1>2, <2>2 DEF EntriesFor
<1>3. QED
  BY <1>1, <1>2

LEMMA EntryTermType ==
    ASSUME NEW log \in Seq(Entry), NEW i \in Nat
    PROVE  EntryTermByIndex(log, i) \in Nat \cup {-1}
<1>1. CASE Len(log) < i + 1
  BY <1>1 DEF EntryTermByIndex
<1>2. CASE ~(Len(log) < i + 1)
  <2>1. log[i + 1] \in Entry
    BY <1>2
  <2>2. log[i + 1].term \in Nat
    BY <2>1 DEF Entry
  <2>3. QED
    BY <1>2, <2>2 DEF EntryTermByIndex
<1>3. QED
  BY <1>1, <1>2

LEMMA SendAppendEntriesType ==
    ASSUME TypeOK, NEW n \in Node, NEW log \in Seq(Entry)
    PROVE  SendAppendEntries(n, log) \in AppendEntriesQMsg
<1>1. nextIndex[n] - 1 \in Nat /\ currentTerm[Hub] \in Nat /\ commitIndex[Hub] \in Nat
  BY DEF TypeOK, Server
<1>2. EntryTermByIndex(log, nextIndex[n] - 1) \in Nat \cup {-1}
  BY <1>1, EntryTermType
<1>3. EntriesFor(n, log) \in Seq(Entry)
  BY EntriesForType DEF TypeOK
<1>4. QED
  BY <1>1, <1>2, <1>3 DEF SendAppendEntries, AppendEntriesQMsg

\* Writing the own term keeps an entry's node and the number of entries.
LEMMA RestampType ==
    ASSUME NEW block \in Seq(Entry), NEW term \in Nat
    PROVE  /\ Restamp(block, term) \in Seq(Entry)
           /\ Len(Restamp(block, term)) = Len(block)
           /\ \A i \in 1..Len(block) : /\ Restamp(block, term)[i].node = block[i].node
                                       /\ Restamp(block, term)[i].term = term
<1> DEFINE r == Restamp(block, term)
<1>1. DOMAIN block = 1..Len(block) /\ Len(block) \in Nat
  OBVIOUS
<1>2. r = [i \in 1..Len(block) |-> [node |-> block[i].node, term |-> term]]
  BY <1>1 DEF Restamp
<1>3. ASSUME NEW i \in 1..Len(block)
      PROVE  [node |-> block[i].node, term |-> term] \in Entry
  <2>1. block[i] \in Entry
    BY <1>3
  <2>2. QED
    BY <2>1 DEF Entry
<1>4. r \in [1..Len(block) -> Entry]
  BY <1>2, <1>3
<1>5. r \in Seq(Entry) /\ Len(r) = Len(block)
  BY <1>1, <1>4, SeqDef
<1>6. \A i \in 1..Len(block) : r[i].node = block[i].node /\ r[i].term = term
  BY <1>2
<1>7. QED
  BY <1>5, <1>6

LEMMA StoredType ==
    ASSUME NEW block \in Seq(Entry), NEW stored \in Stored(block)
    PROVE  stored \in Seq(Entry) /\ Len(stored) <= Len(block)
<1>1. Len(block) \in Nat
  OBVIOUS
<1>2. CASE stored = block
  BY <1>1, <1>2
<1>3. CASE stored = <<>>
  BY <1>1, <1>3
<1>4. ASSUME NEW i \in DOMAIN block, stored = <<block[i]>>
      PROVE  stored \in Seq(Entry) /\ Len(stored) <= Len(block)
  <2>1. i \in 1..Len(block)
    BY <1>1
  <2>2. block[i] \in Entry /\ Len(block) >= 1
    BY <1>1, <2>1
  <2>3. QED
    BY <1>4, <2>2
<1>5. QED
  BY <1>2, <1>3, <1>4 DEF Stored

\* What storing a block at the end of a server's log does to the log and to
\* the count of failed writes.
LEMMA AppendCfgLogEffect ==
    ASSUME TypeOK, NEW s \in Server, NEW block \in Seq(Entry), NEW term \in Nat,
           AppendCfgLog(s, block, term)
    PROVE  /\ putErrors' \in Nat /\ putErrors' >= putErrors
           /\ entries' \in [Server -> Seq(Entry)]
           /\ \A x \in Server \ {s} : entries'[x] = entries[x]
           /\ Len(entries'[s]) + putErrors' = Len(entries[s]) + putErrors + Len(block)
           /\ Len(entries'[s]) >= Len(entries[s])
           /\ \A i \in 1..Len(entries'[s]) :
                 IF i <= Len(entries[s]) THEN entries'[s][i] = entries[s][i]
                                         ELSE entries'[s][i].term = term
<1>1. PICK stored \in Stored(block) :
         /\ putErrors' = putErrors + (Len(block) - Len(stored))
         /\ entries' = [entries EXCEPT ![s] = @ \o Restamp(stored, term)]
  BY DEF AppendCfgLog
<1>2. stored \in Seq(Entry) /\ Len(stored) <= Len(block)
  BY StoredType
<1>3. /\ Restamp(stored, term) \in Seq(Entry)
      /\ Len(Restamp(stored, term)) = Len(stored)
      /\ \A i \in 1..Len(stored) : Restamp(stored, term)[i].term = term
  BY <1>2, RestampType
<1>4. entries[s] \in Seq(Entry) /\ putErrors \in Nat /\ entries \in [Server -> Seq(Entry)]
  BY DEF TypeOK
<1>5. entries'[s] = entries[s] \o Restamp(stored, term)
  BY <1>1, <1>4
<1>6. /\ entries'[s] \in Seq(Entry)
      /\ Len(entries'[s]) = Len(entries[s]) + Len(stored)
      /\ \A i \in 1..Len(entries[s]) + Len(stored) :
            entries'[s][i] = IF i <= Len(entries[s]) THEN entries[s][i]
                             ELSE Restamp(stored, term)[i - Len(entries[s])]
  <2> DEFINE r == Restamp(stored, term)
             log == entries[s]
  <2>1. r \in Seq(Entry) /\ log \in Seq(Entry) /\ Len(r) = Len(stored)
    BY <1>3, <1>4
  <2> HIDE DEF r, log
  <2>2. /\ log \o r \in Seq(Entry)
        /\ Len(log \o r) = Len(log) + Len(r)
        /\ \A i \in 1..Len(log) + Len(r) :
              (log \o r)[i] = IF i <= Len(log) THEN log[i] ELSE r[i - Len(log)]
    BY <2>1, ConcatProperties
  <2>3. QED
    BY <1>5, <2>1, <2>2 DEF r, log
<1>l. Len(entries[s]) \in Nat /\ Len(stored) \in Nat /\ Len(block) \in Nat
  BY <1>2, <1>4
<1>7. ASSUME NEW i \in 1..Len(entries'[s])
      PROVE  IF i <= Len(entries[s]) THEN entries'[s][i] = entries[s][i]
                                     ELSE entries'[s][i].term = term
  <2>1. i \in 1..Len(entries[s]) + Len(stored)
    BY <1>6
  <2>2. CASE i <= Len(entries[s])
    BY <1>6, <2>1, <2>2
  <2>3. CASE ~(i <= Len(entries[s]))
    <3>1. i - Len(entries[s]) \in 1..Len(stored)
      BY <1>l, <2>1, <2>3
    <3>2. entries'[s][i] = Restamp(stored, term)[i - Len(entries[s])]
      BY <1>6, <2>1, <2>3
    <3>3. QED
      BY <1>3, <2>3, <3>1, <3>2
  <2>4. QED
    BY <2>2, <2>3
<1>8. entries' \in [Server -> Seq(Entry)] /\ \A x \in Server \ {s} : entries'[x] = entries[x]
  BY <1>1, <1>4, <1>5, <1>6
<1>9. /\ putErrors' \in Nat /\ putErrors' >= putErrors
      /\ Len(entries'[s]) + putErrors' = Len(entries[s]) + putErrors + Len(block)
      /\ Len(entries'[s]) >= Len(entries[s])
  <2> DEFINE l == Len(entries[s])
             k == Len(stored)
             b == Len(block)
             p == putErrors
  <2>1. l \in Nat /\ k \in Nat /\ b \in Nat /\ p \in Nat /\ k <= b
    BY <1>2, <1>4, <1>l
  <2>2. putErrors' = p + (b - k) /\ Len(entries'[s]) = l + k
    BY <1>1, <1>6
  <2> HIDE DEF l, k, b, p
  <2>3. /\ putErrors' \in Nat /\ putErrors' >= p
        /\ Len(entries'[s]) + putErrors' = l + p + b
        /\ Len(entries'[s]) >= l
    BY <2>1, <2>2
  <2>4. QED
    BY <2>3 DEF l, b, p
<1>10. QED
  BY <1>7, <1>8, <1>9

\* What a broadcast does to the messages on their way to the nodes.
LEMMA BroadCastEffect ==
    ASSUME TypeOK, NEW proxys \in SUBSET Node, NEW log \in Seq(Entry),
           BroadCastAppendEntries(proxys, log)
    PROVE  /\ down' \in [Node -> Seq(AppendEntriesQMsg)]
           /\ resent' \subseteq Node
           /\ \A n \in Node : \/ down'[n] = down[n]
                              \/ /\ n \in proxys
                                 /\ down'[n] = Append(down[n], SendAppendEntries(n, log))
<1>1. \A n \in Node : \/ down'[n] = down[n]
                      \/ /\ n \in proxys
                         /\ down'[n] = Append(down[n], SendAppendEntries(n, log))
  BY DEF BroadCastAppendEntries
<1>2. DOMAIN down' = Node /\ down' = [n \in Node |-> down'[n]]
  BY DEF BroadCastAppendEntries
<1>3. ASSUME NEW n \in Node PROVE down'[n] \in Seq(AppendEntriesQMsg)
  <2>1. SendAppendEntries(n, log) \in AppendEntriesQMsg
    BY SendAppendEntriesType
  <2>2. down[n] \in Seq(AppendEntriesQMsg)
    BY DEF TypeOK
  <2>3. Append(down[n], SendAppendEntries(n, log)) \in Seq(AppendEntriesQMsg)
    BY <2>1, <2>2
  <2>4. QED
    BY <1>1, <2>2, <2>3
<1>4. resent' \subseteq Node
  BY DEF BroadCastAppendEntries, TypeOK
<1>5. QED
  BY <1>1, <1>2, <1>3, <1>4

\* The head of a queue of messages and what is left when it is taken.
LEMMA DownHead ==
    ASSUME TypeOK, NEW n \in Node, down[n] # <<>>
    PROVE  /\ Head(down[n]) \in AppendEntriesQMsg
           /\ Tail(down[n]) \in Seq(AppendEntriesQMsg)
           /\ Head(down[n]).entries \in Seq(Entry)
           /\ Head(down[n]).term \in Nat
           /\ Head(down[n]).prelogindex \in Nat
           /\ Head(down[n]).leadercommit \in Nat
<1>1. down[n] \in Seq(AppendEntriesQMsg)
  BY DEF TypeOK
<1>2. Head(down[n]) \in AppendEntriesQMsg /\ Tail(down[n]) \in Seq(AppendEntriesQMsg)
  BY <1>1
<1>3. QED
  BY <1>2 DEF AppendEntriesQMsg

LEMMA UpHead ==
    ASSUME TypeOK, NEW n \in Node, up[n] # <<>>
    PROVE  /\ Head(up[n]) \in AppendEntriesRMsg
           /\ Tail(up[n]) \in Seq(AppendEntriesRMsg)
           /\ Head(up[n]).term \in Nat
<1>1. up[n] \in Seq(AppendEntriesRMsg)
  BY DEF TypeOK
<1>2. Head(up[n]) \in AppendEntriesRMsg /\ Tail(up[n]) \in Seq(AppendEntriesRMsg)
  BY <1>1
<1>3. QED
  BY <1>2 DEF AppendEntriesRMsg

\* What answering a message does to the node and to the two queues.
LEMMA ReceiveAndReplyType ==
    ASSUME TypeOK, NEW n \in Node, down[n] # <<>>,
           NEW success \in BOOLEAN, NEW isheartbeat \in BOOLEAN,
           ReceiveAndReply(n, Head(down[n]), success, isheartbeat)
    PROVE  /\ down' \in [Node -> Seq(AppendEntriesQMsg)]
           /\ up' \in [Node -> Seq(AppendEntriesRMsg)]
           /\ currentTerm' \in [Server -> Nat]
           /\ role' \in [Server -> Role]
           /\ commitIndex' \in [Server -> Nat]
<1> DEFINE m == Head(down[n])
           reply == [term |-> NewTerm(n, m), success |-> success,
                     isheartbeat |-> isheartbeat]
<1>1. /\ m.term \in Nat /\ m.prelogindex \in Nat /\ m.leadercommit \in Nat
      /\ m.entries \in Seq(Entry) /\ Tail(down[n]) \in Seq(AppendEntriesQMsg)
  BY DownHead
<1>2. n \in Server
  BY DEF Server
<1>3. NewTerm(n, m) \in Nat
  BY <1>1, <1>2 DEF NewTerm, TypeOK
<1>4. NewRole(n, m) \in Role
  BY <1>2 DEF NewRole, TypeOK, Role
<1>5. NewCommitIndex(n, m) \in Nat
  <2>1. Len(m.entries) \in Nat /\ commitIndex[n] \in Nat
    BY <1>1, <1>2 DEF TypeOK
  <2>2. m.prelogindex + Len(m.entries) \in Nat
    BY <1>1, <2>1
  <2>3. QED
    BY <1>1, <2>1, <2>2 DEF NewCommitIndex
<1>6. reply \in AppendEntriesRMsg
  BY <1>3 DEF AppendEntriesRMsg
<1> HIDE DEF m
<1>7. down' \in [Node -> Seq(AppendEntriesQMsg)]
  BY <1>1 DEF ReceiveAndReply, TypeOK
<1>8. up' \in [Node -> Seq(AppendEntriesRMsg)]
  <2>1. up[n] \in Seq(AppendEntriesRMsg)
    BY DEF TypeOK
  <2>2. Append(up[n], reply) \in Seq(AppendEntriesRMsg)
    BY <1>6, <2>1
  <2>3. up' = up \/ up' = [up EXCEPT ![n] = Append(up[n], reply)]
    BY DEF ReceiveAndReply, m
  <2> HIDE DEF reply
  <2>4. QED
    BY <2>2, <2>3 DEF TypeOK
<1>9. currentTerm' \in [Server -> Nat]
  BY <1>3 DEF ReceiveAndReply, TypeOK, m
<1>10. role' \in [Server -> Role]
  BY <1>4 DEF ReceiveAndReply, TypeOK, m
<1>11. commitIndex' \in [Server -> Nat]
  BY <1>5 DEF ReceiveAndReply, TypeOK, m
<1>12. QED
  BY <1>7, <1>8, <1>9, <1>10, <1>11

\* The Hub's commit index moves by one or not at all, and within the log only
\* to an entry of the Hub's own term.
LEMMA ChangeCommitIndexEffect ==
    ASSUME TypeOK, NEW match, ChangeCommitIndex(match)
    PROVE  /\ commitIndex' \in [Server -> Nat]
           /\ \A s \in Server \ {Hub} : commitIndex'[s] = commitIndex[s]
           /\ \/ commitIndex'[Hub] = commitIndex[Hub]
              \/ /\ commitIndex'[Hub] = commitIndex[Hub] + 1
                 /\ commitIndex[Hub] + 1 < Len(entries[Hub]) =>
                      entries[Hub][commitIndex[Hub] + 1 + 1].term = currentTerm[Hub]
<1>1. /\ Hub \in Server /\ commitIndex[Hub] \in Nat /\ commitIndex[Hub] + 1 \in Nat
      /\ commitIndex \in [Server -> Nat]
  BY DEF TypeOK, Server
<1>2. PICK same \in BOOLEAN :
         /\ TermAtCommitMatches(same)
         /\ commitIndex' = [commitIndex EXCEPT ![Hub] =
               IF /\ Cardinality(Holders(match, commitIndex[Hub] + 1))
                        >= (Cardinality(Proxys) \div 2) + 1
                  /\ same
               THEN commitIndex[Hub] + 1 ELSE commitIndex[Hub]]
  BY DEF ChangeCommitIndex
<1>3. \/ commitIndex' = [commitIndex EXCEPT ![Hub] = commitIndex[Hub]]
      \/ commitIndex' = [commitIndex EXCEPT ![Hub] = commitIndex[Hub] + 1] /\ same
  BY <1>2
<1>4. same => (commitIndex[Hub] + 1 < Len(entries[Hub]) =>
                 entries[Hub][commitIndex[Hub] + 1 + 1].term = currentTerm[Hub])
  BY <1>2 DEF TermAtCommitMatches
<1>5. QED
  BY <1>1, <1>3, <1>4

-----------------------------------------------------------------------------
(* Type correctness.                                                       *)

\* The logs at the start.
LEMMA InitLogs ==
    ASSUME Init
    PROVE  /\ \/ entries[Hub] = <<[node |-> Hub, term |-> 0]>> /\ putErrors = 0
              \/ entries[Hub] = <<>> /\ putErrors = 1
           /\ \A n \in Node : entries[n] = <<>>
           /\ entries \in [Server -> Seq(Entry)]
<1> DEFINE e == [node |-> Hub, term |-> 0]
<1>1. e \in Entry
  BY DEF Entry, Server
<1>2. PICK stored \in Stored(<<e>>) :
         /\ entries = [s \in Server |-> IF s = Hub THEN stored ELSE <<>>]
         /\ putErrors = 1 - Len(stored)
  BY DEF Init
<1>3. stored = <<e>> \/ stored = <<>>
  <2> HIDE DEF e
  <2>1. DOMAIN <<e>> = {1} /\ <<e>>[1] = e
    OBVIOUS
  <2>2. QED
    BY <2>1 DEF Stored
<1> HIDE DEF e
<1>4. /\ stored \in Seq(Entry) /\ <<>> \in Seq(Entry)
      /\ stored = <<e>> => 1 - Len(stored) = 0
      /\ stored = <<>> => 1 - Len(stored) = 1
  <2>1. <<e>> \in Seq(Entry) /\ Len(<<e>>) = 1 /\ <<>> \in Seq(Entry) /\ Len(<<>>) = 0
    BY <1>1
  <2>2. CASE stored = <<e>>
    BY <2>1, <2>2
  <2>3. CASE stored = <<>>
    BY <2>1, <2>3
  <2>4. QED
    BY <1>3, <2>2, <2>3
<1>5. entries[Hub] = stored /\ \A n \in Node : entries[n] = <<>>
  BY <1>2, HubAssumption DEF Server
<1>6. entries \in [Server -> Seq(Entry)]
  BY <1>2, <1>4
<1>7. QED
  BY <1>2, <1>3, <1>4, <1>5, <1>6 DEF e

LEMMA InitTypeOK == Init => TypeOK
<1> SUFFICES ASSUME Init PROVE TypeOK
  OBVIOUS
<1>1. entries \in [Server -> Seq(Entry)] /\ putErrors \in Nat
  BY InitLogs
<1>2. role \in [Server -> Role] /\ conn \in [Node -> Conn]
  BY DEF Init, Role, Conn
<1>3. QED
  BY <1>1, <1>2 DEF Init, TypeOK

LEMMA NextTypeOK == TypeOK /\ [Next]_vars => TypeOK'
<1> SUFFICES ASSUME TypeOK, [Next]_vars PROVE TypeOK'
  OBVIOUS
<1>s. ASSUME NEW n \in Node PROVE n \in Server /\ Hub \in Server
  BY DEF Server
<1>1. ASSUME NEW n \in Node, ConnectToPeer(n) PROVE TypeOK'
  <2>1. conn' \in [Node -> Conn] /\ armed' \in [Node -> BOOLEAN]
    BY <1>1 DEF ConnectToPeer, StartTimer, TypeOK, Conn
  <2>2. QED
    BY <1>1, <2>1 DEF ConnectToPeer, StartTimer, TypeOK, netVars, histVars
<1>2. ASSUME NEW n \in Node, HandshakeRefused(n) PROVE TypeOK'
  <2>1. conn' \in [Node -> Conn]
    BY <1>2 DEF HandshakeRefused, TypeOK, Conn
  <2>2. QED
    BY <1>2, <2>1 DEF HandshakeRefused, TypeOK, serverVars, netVars, histVars
<1>3. ASSUME NEW n \in Node, HandshakeAccepted(n) PROVE TypeOK'
  <2>1. conn' \in [Node -> Conn]
    BY <1>3 DEF HandshakeAccepted, TypeOK, Conn
  <2>2. <<[node |-> n, term |-> 0]>> \in Seq(Entry) /\ currentTerm[Hub] \in Nat
    BY <1>s DEF Entry, TypeOK
  <2>3. entries' \in [Server -> Seq(Entry)] /\ putErrors' \in Nat
    BY <1>3, <1>s, <2>2, AppendCfgLogEffect DEF HandshakeAccepted
  <2>4. entries'[Hub] \in Seq(Entry) /\ Proxys \cup {n} \in SUBSET Node
    BY <1>s, <2>3 DEF Proxys
  <2>5. down' \in [Node -> Seq(AppendEntriesQMsg)] /\ resent' \subseteq Node
    BY <1>3, <2>4, BroadCastEffect DEF HandshakeAccepted
  <2>6. QED
    BY <1>3, <2>1, <2>3, <2>5 DEF HandshakeAccepted, TypeOK
<1>4. ASSUME SendAppendEntriesCallback PROVE TypeOK'
  <2>1. entries[Hub] \in Seq(Entry) /\ Proxys \in SUBSET Node
    BY DEF TypeOK, Proxys, Server
  <2>2. down' \in [Node -> Seq(AppendEntriesQMsg)] /\ resent' \subseteq Node
    BY <1>4, <2>1, BroadCastEffect DEF SendAppendEntriesCallback
  <2>3. QED
    BY <1>4, <2>2 DEF SendAppendEntriesCallback, TypeOK, serverVars, proxyVars
<1>5. ASSUME NEW n \in Node, HeartBeatTimeoutCallback(n) PROVE TypeOK'
  <2>1. currentTerm' \in [Server -> Nat] /\ armed' \in [Node -> BOOLEAN]
    BY <1>5, <1>s DEF HeartBeatTimeoutCallback, BecomeCandidate, TypeOK
  <2>2. QED
    BY <1>5, <2>1 DEF HeartBeatTimeoutCallback, BecomeCandidate, TypeOK, proxyVars, netVars,
                      histVars
<1>6. ASSUME NEW n \in Node, RejectAppendEntries(n) PROVE TypeOK'
  <2>1. /\ down[n] # <<>>
        /\ ReceiveAndReply(n, Head(down[n]), FALSE, FALSE)
        /\ UNCHANGED <<entries, alive, armed, proxyVars, histVars>>
    BY <1>6 DEF RejectAppendEntries
  <2>2. QED
    BY <2>1, ReceiveAndReplyType DEF TypeOK, proxyVars, histVars
<1>7. ASSUME NEW n \in Node, AcceptHeartbeat(n) PROVE TypeOK'
  <2>1. /\ down[n] # <<>>
        /\ ReceiveAndReply(n, Head(down[n]), TRUE, TRUE)
        /\ armed' = [armed EXCEPT ![n] = TRUE]
        /\ UNCHANGED <<entries, alive, proxyVars, histVars>>
    BY <1>7 DEF AcceptHeartbeat, FreshTime
  <2>2. armed' \in [Node -> BOOLEAN]
    BY <2>1 DEF TypeOK
  <2>3. QED
    BY <2>1, <2>2, ReceiveAndReplyType DEF TypeOK, proxyVars, histVars
<1>8. ASSUME NEW n \in Node, AcceptEntries(n) PROVE TypeOK'
  <2> DEFINE m == Head(down[n])
  <2>1. /\ down[n] # <<>>
        /\ AppendCfgLog(n, m.entries, NewTerm(n, m))
        /\ ReceiveAndReply(n, m, TRUE, FALSE)
        /\ UNCHANGED <<alive, armed, proxyVars, resent>>
    BY <1>8 DEF AcceptEntries
  <2>2. m.entries \in Seq(Entry) /\ NewTerm(n, m) \in Nat
    BY <1>s, <2>1, DownHead DEF NewTerm, TypeOK
  <2>3. entries' \in [Server -> Seq(Entry)] /\ putErrors' \in Nat
    BY <1>s, <2>1, <2>2, AppendCfgLogEffect
  <2>4. QED
    BY <2>1, <2>3, ReceiveAndReplyType DEF TypeOK, proxyVars
<1>9. ASSUME NEW n \in Node, StepDown(n) PROVE TypeOK'
  <2>1. Tail(up[n]) \in Seq(AppendEntriesRMsg) /\ Head(up[n]).term \in Nat
    BY <1>9, UpHead DEF StepDown
  <2>2. currentTerm' \in [Server -> Nat]
    BY <1>9, <2>1 DEF StepDown, TypeOK
  <2>3. role' \in [Server -> Role]
    BY <1>9 DEF StepDown, BecomeFollower, TypeOK, Role
  <2>4. up' \in [Node -> Seq(AppendEntriesRMsg)]
    BY <1>9, <2>1 DEF StepDown, TypeOK
  <2>5. QED
    BY <1>9, <2>2, <2>3, <2>4 DEF StepDown, TypeOK, proxyVars, histVars
<1>10. ASSUME NEW n \in Node, HandleAppendEntriesR(n) PROVE TypeOK'
  <2>1. up' \in [Node -> Seq(AppendEntriesRMsg)]
    BY <1>10, UpHead DEF HandleAppendEntriesR, IncrIndexes, TypeOK
  <2>2. matchIndex' \in [Node -> Nat] /\ nextIndex' \in [Node -> Nat \ {0}]
    <3>1. matchIndex[n] + 1 \in Nat /\ nextIndex[n] + 1 \in Nat \ {0}
      BY DEF TypeOK
    <3>2. \/ matchIndex' = matchIndex /\ nextIndex' = nextIndex
          \/ /\ matchIndex' = [matchIndex EXCEPT ![n] = matchIndex[n] + 1]
             /\ nextIndex' = [nextIndex EXCEPT ![n] = nextIndex[n] + 1]
      BY <1>10 DEF HandleAppendEntriesR, IncrIndexes
    <3>3. matchIndex \in [Node -> Nat] /\ nextIndex \in [Node -> Nat \ {0}]
      BY DEF TypeOK
    <3>4. CASE matchIndex' = matchIndex /\ nextIndex' = nextIndex
      BY <3>3, <3>4
    <3>5. CASE /\ matchIndex' = [matchIndex EXCEPT ![n] = matchIndex[n] + 1]
               /\ nextIndex' = [nextIndex EXCEPT ![n] = nextIndex[n] + 1]
      BY <3>1, <3>3, <3>5, Zenon
    <3>6. QED
      BY <3>2, <3>4, <3>5
  <2>3. commitIndex' \in [Server -> Nat]
    BY <1>10, ChangeCommitIndexEffect DEF HandleAppendEntriesR, IncrIndexes
  <2>4. QED
    BY <1>10, <2>1, <2>2, <2>3 DEF HandleAppendEntriesR, IncrIndexes, TypeOK, histVars
<1>11. ASSUME NEW n \in Node, CrashNode(n) PROVE TypeOK'
  <2>1. /\ alive' \in [Server -> BOOLEAN] /\ armed' \in [Node -> BOOLEAN]
        /\ down' \in [Node -> Seq(AppendEntriesQMsg)]
    <3>1. /\ alive' = [alive EXCEPT ![n] = FALSE] /\ armed' = [armed EXCEPT ![n] = FALSE]
          /\ down' = [down EXCEPT ![n] = <<>>]
      BY <1>11 DEF CrashNode
    <3>2. <<>> \in Seq(AppendEntriesQMsg)
      OBVIOUS
    <3>3. QED
      BY <3>1, <3>2, Zenon DEF TypeOK
  <2>2. PICK k \in 0..Len(up[n]) : up' = [up EXCEPT ![n] = SubSeq(up[n], 1, k)]
    BY <1>11 DEF CrashNode
  <2>3. SubSeq(up[n], 1, k) \in Seq(AppendEntriesRMsg)
    <3>1. up[n] \in Seq(AppendEntriesRMsg)
      BY DEF TypeOK
    <3>2. QED
      BY <3>1
  <2>4. up' \in [Node -> Seq(AppendEntriesRMsg)]
    BY <2>2, <2>3 DEF TypeOK
  <2>5. QED
    BY <1>11, <2>1, <2>4 DEF CrashNode, TypeOK, proxyVars, histVars
<1>12. ASSUME CrashHub PROVE TypeOK'
  <2>1. alive' \in [Server -> BOOLEAN] /\ up' \in [Node -> Seq(AppendEntriesRMsg)]
    <3>1. alive' = [alive EXCEPT ![Hub] = FALSE] /\ up' = [n \in Node |-> <<>>]
      BY <1>12 DEF CrashHub
    <3>2. <<>> \in Seq(AppendEntriesRMsg)
      OBVIOUS
    <3>3. QED
      BY <3>1, <3>2, Zenon DEF TypeOK
  <2>2. QED
    BY <1>12, <2>1 DEF CrashHub, TypeOK, proxyVars, histVars
<1>13. CASE UNCHANGED vars
  BY <1>13 DEF vars, serverVars, proxyVars, netVars, histVars, TypeOK
<1>14. QED
  BY <1>1, <1>2, <1>3, <1>4, <1>5, <1>6, <1>7, <1>8, <1>9, <1>10, <1>11, <1>12, <1>13
  DEF Next, NodeStep, HubStep

\* In every reachable state each variable has the shape the code gives it;
\* nextIndex never reaches 0, so prelogindex = nextIndex - 1 never wraps.
THEOREM TypeCorrect == Spec => []TypeOK
<1>1. Init => TypeOK
  BY InitTypeOK
<1>2. TypeOK /\ [Next]_vars => TypeOK'
  BY NextTypeOK
<1>3. QED
  BY <1>1, <1>2, PTL DEF Spec

-----------------------------------------------------------------------------
(* Leadership.                                                             *)

\* LeaderOnlyInTermZero is inductive given the types: the Hub's term leaves 0
\* only in StepDown, which also ends its leadership, and it logs only while it
\* leads, that is in term 0.
LEMMA NextLeader ==
    TypeOK /\ LeaderOnlyInTermZero /\ [Next]_vars => LeaderOnlyInTermZero'
<1> SUFFICES ASSUME TypeOK, LeaderOnlyInTermZero, [Next]_vars
             PROVE  LeaderOnlyInTermZero'
  OBVIOUS
<1>s. /\ Hub \in Server /\ Hub \notin Node
      /\ \A n \in Node : n \in Server /\ n # Hub
  BY HubAssumption DEF Server
<1>u. ASSUME UNCHANGED <<currentTerm, role, entries>> PROVE LeaderOnlyInTermZero'
  BY <1>u DEF LeaderOnlyInTermZero
<1>1. ASSUME NEW n \in Node, HandshakeAccepted(n) PROVE LeaderOnlyInTermZero'
  <2>1. /\ role[Hub] = "Leader" /\ currentTerm' = currentTerm /\ role' = role
        /\ AppendCfgLog(Hub, <<[node |-> n, term |-> 0]>>, currentTerm[Hub])
    BY <1>1 DEF HandshakeAccepted
  <2>2. currentTerm[Hub] = 0
    BY <2>1 DEF LeaderOnlyInTermZero
  <2> DEFINE block == <<[node |-> n, term |-> 0]>>
  <2>3. block \in Seq(Entry) /\ 0 \in Nat /\ AppendCfgLog(Hub, block, 0)
    BY <1>s, <2>1, <2>2 DEF Entry
  <2> HIDE DEF block
  <2>4. /\ entries' \in [Server -> Seq(Entry)]
        /\ \A i \in 1..Len(entries'[Hub]) :
              IF i <= Len(entries[Hub]) THEN entries'[Hub][i] = entries[Hub][i]
                                        ELSE entries'[Hub][i].term = 0
    BY <1>s, <2>3, AppendCfgLogEffect
  <2>5. entries'[Hub] \in Seq(Entry) /\ entries[Hub] \in Seq(Entry)
    BY <1>s, <2>4 DEF TypeOK
  <2>6. ASSUME NEW i \in DOMAIN entries'[Hub] PROVE entries'[Hub][i].term = 0
    <3>1. i \in 1..Len(entries'[Hub]) /\ Len(entries[Hub]) \in Nat
      BY <2>5
    <3>2. CASE i <= Len(entries[Hub])
      <4>1. i \in DOMAIN entries[Hub] /\ entries'[Hub][i] = entries[Hub][i]
        BY <2>4, <2>5, <3>1, <3>2
      <4>2. QED
        BY <4>1 DEF LeaderOnlyInTermZero
    <3>3. CASE ~(i <= Len(entries[Hub]))
      BY <2>4, <3>1, <3>3
    <3>4. QED
      BY <3>2, <3>3
  <2>7. QED
    BY <2>1, <2>6 DEF LeaderOnlyInTermZero
<1>2. ASSUME NEW n \in Node, HeartBeatTimeoutCallback(n) PROVE LeaderOnlyInTermZero'
  BY <1>2, <1>s DEF HeartBeatTimeoutCallback, BecomeCandidate, LeaderOnlyInTermZero, TypeOK
<1>3. ASSUME NEW n \in Node, NEW success, NEW isheartbeat,
             ReceiveAndReply(n, Head(down[n]), success, isheartbeat),
             entries'[Hub] = entries[Hub]
      PROVE  LeaderOnlyInTermZero'
  <2>1. NewRole(n, Head(down[n])) # "Leader"
    BY DEF NewRole, LeaderOnlyInTermZero
  <2>2. /\ currentTerm'[Hub] = currentTerm[Hub] /\ role'[Hub] = role[Hub]
        /\ \A x \in Node : role'[x] # "Leader"
    BY <1>3, <1>s, <2>1 DEF ReceiveAndReply, LeaderOnlyInTermZero, TypeOK
  <2>3. QED
    BY <1>3, <2>2 DEF LeaderOnlyInTermZero
<1>4. ASSUME NEW n \in Node, RejectAppendEntries(n) PROVE LeaderOnlyInTermZero'
  BY <1>3, <1>4 DEF RejectAppendEntries
<1>5. ASSUME NEW n \in Node, AcceptHeartbeat(n) PROVE LeaderOnlyInTermZero'
  BY <1>3, <1>5 DEF AcceptHeartbeat, FreshTime
<1>6. ASSUME NEW n \in Node, AcceptEntries(n) PROVE LeaderOnlyInTermZero'
  <2>1. entries'[Hub] = entries[Hub]
    BY <1>6, <1>s DEF AcceptEntries, AppendCfgLog, TypeOK
  <2>2. QED
    BY <1>3, <1>6, <2>1 DEF AcceptEntries
<1>7. ASSUME NEW n \in Node, StepDown(n) PROVE LeaderOnlyInTermZero'
  <2>1. currentTerm[Hub] \in Nat /\ Head(up[n]).term \in Nat
    BY <1>7, <1>s, UpHead DEF StepDown, TypeOK
  <2>2. currentTerm'[Hub] = Head(up[n]).term /\ currentTerm'[Hub] # 0
    BY <1>7, <1>s, <2>1 DEF StepDown, TypeOK
  <2>3. role'[Hub] = "Follower" /\ \A x \in Node : role'[x] = role[x]
    BY <1>7, <1>s DEF StepDown, BecomeFollower, TypeOK
  <2>4. QED
    BY <1>7, <2>2, <2>3 DEF StepDown, LeaderOnlyInTermZero
<1>8. ASSUME NEW n \in Node,
             \/ ConnectToPeer(n) \/ HandshakeRefused(n)
             \/ HandleAppendEntriesR(n) \/ CrashNode(n)
      PROVE  LeaderOnlyInTermZero'
  BY <1>8, <1>u DEF ConnectToPeer, StartTimer, HandshakeRefused, HandleAppendEntriesR,
                    IncrIndexes, CrashNode, serverVars
<1>9. ASSUME SendAppendEntriesCallback \/ CrashHub \/ UNCHANGED vars
      PROVE  LeaderOnlyInTermZero'
  BY <1>9, <1>u DEF SendAppendEntriesCallback, CrashHub, vars, serverVars
<1>10. QED
  BY <1>1, <1>2, <1>4, <1>5, <1>6, <1>7, <1>8, <1>9 DEF Next, NodeStep, HubStep

\* For any cluster: the Hub leads in term 0 only, nobody else ever leads, and
\* every entry of the Hub's log bears term 0.
THEOREM LeadershipSafe == Spec => []LeaderOnlyInTermZero
<1>1. Init => LeaderOnlyInTermZero
  <2> SUFFICES ASSUME Init PROVE LeaderOnlyInTermZero
    OBVIOUS
  <2>1. \A i \in DOMAIN entries[Hub] : entries[Hub][i].term = 0
    BY InitLogs
  <2>2. QED
    BY <2>1, HubAssumption DEF Init, LeaderOnlyInTermZero, Server
<1>2. TypeOK /\ LeaderOnlyInTermZero /\ [Next]_vars => LeaderOnlyInTermZero'
  BY NextLeader
<1>3. QED
  BY <1>1, <1>2, TypeCorrect, PTL DEF Spec

\* For any cluster: after StepDown the Hub's log is final, and nothing in it
\* is committed any more, because its entries bear term 0 and the Hub does not.
THEOREM StepDownFreezes == Spec => FrozenAfterStepDown
<1> DEFINE Frozen == role[Hub] # "Leader" =>
                       /\ role'[Hub] # "Leader"
                       /\ entries'[Hub] = entries[Hub]
                       /\ commitIndex'[Hub] # commitIndex[Hub] =>
                            commitIndex'[Hub] >= Len(entries[Hub])
<1>1. TypeOK /\ LeaderOnlyInTermZero /\ Next => Frozen
  <2> SUFFICES ASSUME TypeOK, LeaderOnlyInTermZero, Next, role[Hub] # "Leader"
               PROVE  /\ role'[Hub] # "Leader"
                      /\ entries'[Hub] = entries[Hub]
                      /\ commitIndex'[Hub] # commitIndex[Hub] =>
                           commitIndex'[Hub] >= Len(entries[Hub])
    OBVIOUS
  <2>s. /\ Hub \in Server /\ Hub \notin Node
        /\ \A n \in Node : n \in Server /\ n # Hub
    BY HubAssumption DEF Server
  <2>u. ASSUME role'[Hub] = role[Hub], entries'[Hub] = entries[Hub],
               commitIndex'[Hub] = commitIndex[Hub]
        PROVE  Frozen
    BY <2>u
  <2>1. ASSUME NEW n \in Node, NodeStep(n) PROVE Frozen
    <3>1. role'[Hub] = role[Hub] /\ commitIndex'[Hub] = commitIndex[Hub]
      BY <2>1, <2>s DEF NodeStep, ConnectToPeer, StartTimer, HeartBeatTimeoutCallback,
                        BecomeCandidate,
         RejectAppendEntries, AcceptHeartbeat, FreshTime, AcceptEntries, CrashNode,
         ReceiveAndReply, TypeOK
    <3>2. entries'[Hub] = entries[Hub]
      BY <2>1, <2>s DEF NodeStep, ConnectToPeer, StartTimer, HeartBeatTimeoutCallback,
                        BecomeCandidate,
         RejectAppendEntries, AcceptHeartbeat, FreshTime, AcceptEntries, CrashNode,
         AppendCfgLog, TypeOK
    <3>3. QED
      BY <2>u, <3>1, <3>2
  <2>2. ASSUME NEW n \in Node, StepDown(n) PROVE Frozen
    BY <2>2, <2>s DEF StepDown, BecomeFollower, TypeOK
  <2>3. ASSUME NEW n \in Node, HandleAppendEntriesR(n) PROVE Frozen
    <3>1. /\ role' = role /\ entries' = entries /\ ChangeCommitIndex(matchIndex')
          /\ currentTerm[Hub] # 0
      BY <2>3 DEF HandleAppendEntriesR, IncrIndexes, LeaderOnlyInTermZero
    <3>2. /\ commitIndex[Hub] \in Nat /\ Len(entries[Hub]) \in Nat
          /\ entries[Hub] \in Seq(Entry)
      BY <2>s DEF TypeOK
    <3>3. ASSUME commitIndex[Hub] + 1 < Len(entries[Hub])
          PROVE  entries[Hub][commitIndex[Hub] + 1 + 1].term # currentTerm[Hub]
      <4>1. commitIndex[Hub] + 1 + 1 \in DOMAIN entries[Hub]
        BY <3>2, <3>3
      <4>2. QED
        BY <3>1, <4>1 DEF LeaderOnlyInTermZero
    <3>4. \/ commitIndex'[Hub] = commitIndex[Hub]
          \/ /\ commitIndex'[Hub] = commitIndex[Hub] + 1
             /\ commitIndex[Hub] + 1 < Len(entries[Hub]) =>
                  entries[Hub][commitIndex[Hub] + 1 + 1].term = currentTerm[Hub]
      BY <3>1, ChangeCommitIndexEffect
    <3>5. QED
      BY <3>1, <3>2, <3>3, <3>4
  <2>4. ASSUME NEW n \in Node, HandshakeRefused(n) \/ HandshakeAccepted(n) PROVE Frozen
    BY <2>4, <2>u DEF HandshakeRefused, HandshakeAccepted, serverVars
  <2>5. ASSUME SendAppendEntriesCallback \/ CrashHub PROVE Frozen
    BY <2>5, <2>u DEF SendAppendEntriesCallback, CrashHub, serverVars
  <2>6. QED
    BY <2>1, <2>2, <2>3, <2>4, <2>5 DEF Next, HubStep
<1>2. TypeOK /\ LeaderOnlyInTermZero /\ [Next]_vars => [Frozen]_vars
  BY <1>1
<1>3. QED
  BY <1>2, TypeCorrect, LeadershipSafe, PTL DEF Spec, FrozenAfterStepDown

-----------------------------------------------------------------------------
(* Commit indexes.                                                         *)

\* No message on its way promises more than the Hub has committed.
CommitsSent ==
    \A n \in Node : \A i \in DOMAIN down[n] : down[n][i].leadercommit <= commitIndex[Hub]

\* The two together are inductive: nodes learn from messages, messages are
\* filled from the Hub, and the Hub's index never falls.
CommitInv == CommitsSent /\ CommitLearnedFromHub

\* Removing messages and raising the Hub's commit index keep CommitsSent.
LEMMA CommitsSentKept ==
    ASSUME TypeOK, CommitsSent, commitIndex'[Hub] \in Nat,
           commitIndex'[Hub] >= commitIndex[Hub],
           \A n \in Node : down'[n] = down[n] \/ down'[n] = <<>>
                           \/ (down[n] # <<>> /\ down'[n] = Tail(down[n]))
    PROVE  CommitsSent'
<1> SUFFICES ASSUME NEW n \in Node, NEW i \in DOMAIN down'[n]
             PROVE  down'[n][i].leadercommit <= commitIndex'[Hub]
  BY DEF CommitsSent
<1>1. down[n] \in Seq(AppendEntriesQMsg) /\ commitIndex[Hub] \in Nat
  BY DEF TypeOK, Server
<1>2. \E j \in DOMAIN down[n] : down'[n][i] = down[n][j]
  <2>1. CASE down'[n] = down[n]
    BY <2>1
  <2>2. CASE down'[n] = <<>>
    BY <2>2
  <2>3. CASE down[n] # <<>> /\ down'[n] = Tail(down[n])
    <3>1. i \in 1..Len(Tail(down[n])) /\ Len(Tail(down[n])) = Len(down[n]) - 1
      BY <1>1, <2>3
    <3>2. i + 1 \in DOMAIN down[n] /\ down'[n][i] = down[n][i + 1]
      BY <1>1, <2>3, <3>1
    <3>3. QED
      BY <3>2
  <2>4. QED
    BY <2>1, <2>2, <2>3
<1>3. PICK j \in DOMAIN down[n] : down'[n][i] = down[n][j]
  BY <1>2
<1>4. down[n][j].leadercommit <= commitIndex[Hub] /\ down[n][j].leadercommit \in Nat
  <2>1. down[n][j] \in AppendEntriesQMsg
    BY <1>1
  <2>2. QED
    BY <2>1 DEF CommitsSent, AppendEntriesQMsg
<1>5. QED
  BY <1>1, <1>3, <1>4

\* A new message carries the Hub's commit index.
LEMMA CommitsSentBroadCast ==
    ASSUME TypeOK, CommitsSent, NEW proxys \in SUBSET Node, NEW log \in Seq(Entry),
           BroadCastAppendEntries(proxys, log), commitIndex' = commitIndex
    PROVE  CommitsSent'
<1> SUFFICES ASSUME NEW n \in Node, NEW i \in DOMAIN down'[n]
             PROVE  down'[n][i].leadercommit <= commitIndex[Hub]
  BY DEF CommitsSent
<1> DEFINE e == SendAppendEntries(n, log)
<1>1. down[n] \in Seq(AppendEntriesQMsg) /\ commitIndex[Hub] \in Nat
  BY DEF TypeOK, Server
<1>2. down'[n] = down[n] \/ down'[n] = Append(down[n], e)
  BY BroadCastEffect
<1>3. e \in AppendEntriesQMsg /\ e.leadercommit = commitIndex[Hub]
  BY SendAppendEntriesType DEF SendAppendEntries
<1> HIDE DEF e
<1>4. CASE down'[n] = down[n]
  BY <1>4 DEF CommitsSent
<1>5. CASE down'[n] = Append(down[n], e)
  <2>1. /\ i \in 1..Len(down[n]) + 1
        /\ down'[n][i] = IF i = Len(down[n]) + 1 THEN e ELSE down[n][i]
    BY <1>1, <1>3, <1>5
  <2>2. CASE i = Len(down[n]) + 1
    BY <1>1, <1>3, <2>1, <2>2
  <2>3. CASE i # Len(down[n]) + 1
    <3>1. i \in DOMAIN down[n]
      BY <1>1, <2>1, <2>3
    <3>2. QED
      BY <2>1, <2>3, <3>1 DEF CommitsSent
  <2>4. QED
    BY <2>2, <2>3
<1>6. QED
  BY <1>2, <1>4, <1>5

LEMMA NextCommit == TypeOK /\ CommitInv /\ [Next]_vars => CommitInv'
<1> SUFFICES ASSUME TypeOK, CommitsSent, CommitLearnedFromHub, [Next]_vars
             PROVE  CommitsSent' /\ CommitLearnedFromHub'
  BY DEF CommitInv
<1>s. /\ Hub \in Server /\ Hub \notin Node /\ commitIndex[Hub] \in Nat
      /\ \A n \in Node : n \in Server /\ n # Hub /\ commitIndex[n] \in Nat
  BY HubAssumption DEF Server, TypeOK
<1>u. ASSUME commitIndex' = commitIndex,
             \A n \in Node : down'[n] = down[n] \/ down'[n] = <<>>
      PROVE  CommitsSent' /\ CommitLearnedFromHub'
  <2>1. CommitsSent'
    BY <1>s, <1>u, CommitsSentKept
  <2>2. QED
    BY <1>u, <2>1 DEF CommitLearnedFromHub
<1>1. ASSUME NEW n \in Node, HandshakeAccepted(n)
      PROVE  CommitsSent' /\ CommitLearnedFromHub'
  <2> DEFINE block == <<[node |-> n, term |-> 0]>>
  <2>1. /\ block \in Seq(Entry) /\ currentTerm[Hub] \in Nat
        /\ AppendCfgLog(Hub, block, currentTerm[Hub])
    BY <1>1, <1>s DEF HandshakeAccepted, Entry, TypeOK
  <2> HIDE DEF block
  <2>2. entries'[Hub] \in Seq(Entry)
    BY <1>s, <2>1, AppendCfgLogEffect
  <2>3. /\ BroadCastAppendEntries(Proxys \cup {n}, entries'[Hub])
        /\ Proxys \cup {n} \in SUBSET Node /\ commitIndex' = commitIndex
    BY <1>1 DEF HandshakeAccepted, Proxys
  <2>4. QED
    BY <2>2, <2>3, CommitsSentBroadCast DEF CommitLearnedFromHub
<1>2. ASSUME SendAppendEntriesCallback
      PROVE  CommitsSent' /\ CommitLearnedFromHub'
  <2>1. /\ entries[Hub] \in Seq(Entry) /\ Proxys \in SUBSET Node
        /\ BroadCastAppendEntries(Proxys, entries[Hub]) /\ commitIndex' = commitIndex
    BY <1>2, <1>s DEF SendAppendEntriesCallback, Proxys, TypeOK, serverVars
  <2>2. QED
    BY <2>1, CommitsSentBroadCast DEF CommitLearnedFromHub
<1>3. ASSUME NEW n \in Node, down[n] # <<>>, NEW success, NEW isheartbeat,
             ReceiveAndReply(n, Head(down[n]), success, isheartbeat)
      PROVE  CommitsSent' /\ CommitLearnedFromHub'
  <2> DEFINE m == Head(down[n])
  <2>1. /\ commitIndex' = [commitIndex EXCEPT ![n] = NewCommitIndex(n, m)]
        /\ down' = [down EXCEPT ![n] = Tail(@)]
    BY <1>3 DEF ReceiveAndReply
  <2>2. commitIndex'[Hub] = commitIndex[Hub]
    BY <1>s, <2>1 DEF TypeOK
  <2>3. \A x \in Node : down'[x] = down[x] \/ (down[x] # <<>> /\ down'[x] = Tail(down[x]))
    BY <1>3, <2>1 DEF TypeOK
  <2>4. CommitsSent'
    BY <1>s, <2>2, <2>3, CommitsSentKept
  <2>5. m.leadercommit <= commitIndex[Hub] /\ m.leadercommit \in Nat
    <3>1. down[n] \in Seq(AppendEntriesQMsg)
      BY DEF TypeOK
    <3>2. 1 \in DOMAIN down[n] /\ m = down[n][1]
      BY <1>3, <3>1
    <3>3. QED
      BY <1>3, <3>2, DownHead DEF CommitsSent
  <2>6. m.prelogindex + Len(m.entries) \in Nat
    BY <1>3, DownHead
  <2>7. NewCommitIndex(n, m) <= commitIndex[Hub]
    <3>1. commitIndex[n] <= commitIndex[Hub]
      BY DEF CommitLearnedFromHub
    <3> HIDE DEF m
    <3>2. QED
      BY <1>s, <2>5, <2>6, <3>1 DEF NewCommitIndex
  <2>8. ASSUME NEW x \in Node PROVE commitIndex'[x] <= commitIndex'[Hub]
    <3>1. commitIndex[x] <= commitIndex[Hub]
      BY DEF CommitLearnedFromHub
    <3> HIDE DEF m
    <3>2. QED
      BY <1>s, <2>1, <2>2, <2>7, <3>1 DEF TypeOK
  <2>9. QED
    BY <2>4, <2>8 DEF CommitLearnedFromHub
<1>4. ASSUME NEW n \in Node,
             RejectAppendEntries(n) \/ AcceptHeartbeat(n) \/ AcceptEntries(n)
      PROVE  CommitsSent' /\ CommitLearnedFromHub'
  BY <1>3, <1>4 DEF RejectAppendEntries, AcceptHeartbeat, FreshTime, AcceptEntries
<1>5. ASSUME NEW n \in Node, HandleAppendEntriesR(n)
      PROVE  CommitsSent' /\ CommitLearnedFromHub'
  <2>1. down' = down /\ ChangeCommitIndex(matchIndex')
    BY <1>5 DEF HandleAppendEntriesR, IncrIndexes
  <2>2. /\ commitIndex'[Hub] \in Nat /\ commitIndex'[Hub] >= commitIndex[Hub]
        /\ \A x \in Node : commitIndex'[x] = commitIndex[x]
    BY <1>s, <2>1, ChangeCommitIndexEffect
  <2>3. CommitsSent'
    BY <2>1, <2>2, CommitsSentKept
  <2>4. QED
    BY <1>s, <2>2, <2>3 DEF CommitLearnedFromHub
<1>6. ASSUME NEW n \in Node,
             \/ ConnectToPeer(n) \/ HeartBeatTimeoutCallback(n) \/ HandshakeRefused(n)
             \/ StepDown(n)
      PROVE  CommitsSent' /\ CommitLearnedFromHub'
  BY <1>6, <1>u DEF ConnectToPeer, StartTimer, HeartBeatTimeoutCallback, BecomeCandidate,
                    HandshakeRefused, StepDown,
     serverVars, netVars
<1>7. ASSUME NEW n \in Node, CrashNode(n) PROVE CommitsSent' /\ CommitLearnedFromHub'
  <2>1. commitIndex' = commitIndex /\ \A x \in Node : down'[x] = down[x] \/ down'[x] = <<>>
    BY <1>7 DEF CrashNode, TypeOK
  <2>2. QED
    BY <1>u, <2>1
<1>8. ASSUME CrashHub \/ UNCHANGED vars PROVE CommitsSent' /\ CommitLearnedFromHub'
  BY <1>8, <1>u DEF CrashHub, vars, serverVars, netVars
<1>9. QED
  BY <1>1, <1>2, <1>4, <1>5, <1>6, <1>7, <1>8 DEF Next, NodeStep, HubStep

\* For any cluster: no node's commit index is ahead of the Hub's.
THEOREM CommitsComeFromHub == Spec => []CommitLearnedFromHub
<1>1. Init => CommitInv
  BY HubAssumption DEF Init, CommitInv, CommitsSent, CommitLearnedFromHub, Server
<1>2. TypeOK /\ CommitInv /\ [Next]_vars => CommitInv'
  BY NextCommit
<1>3. CommitInv => CommitLearnedFromHub
  BY DEF CommitInv
<1>4. QED
  BY <1>1, <1>2, <1>3, TypeCorrect, PTL DEF Spec

-----------------------------------------------------------------------------
(* What the Hub's count of replies says about a node's log.                *)

\* The replies of a queue that will advance the node's indexes.
Acks(q) == {i \in DOMAIN q : IsAck(q[i])}
AckCount(q) == Cardinality(Acks(q))

-----------------------------------------------------------------------------
(* Counting replies.                                                       *)

LEMMA AckCountType ==
    ASSUME NEW q \in Seq(AppendEntriesRMsg)
    PROVE  IsFiniteSet(Acks(q)) /\ AckCount(q) \in Nat
<1>1. Len(q) \in Nat /\ DOMAIN q = 1..Len(q)
  OBVIOUS
<1>2. IsFiniteSet(1..Len(q))
  BY <1>1, FS_Interval
<1>3. Acks(q) \in SUBSET (1..Len(q))
  BY <1>1 DEF Acks
<1>4. IsFiniteSet(Acks(q))
  BY <1>2, <1>3, FS_Subset
<1>5. QED
  BY <1>4, FS_CardinalityType DEF AckCount

LEMMA AckCountEmpty == AckCount(<<>>) = 0
<1>1. Acks(<<>>) = {}
  BY DEF Acks
<1>2. QED
  BY <1>1, FS_EmptySet DEF AckCount

LEMMA AckCountAppend ==
    ASSUME NEW q \in Seq(AppendEntriesRMsg), NEW e \in AppendEntriesRMsg
    PROVE  AckCount(Append(q, e)) = IF IsAck(e) THEN AckCount(q) + 1 ELSE AckCount(q)
<1> DEFINE l == Len(q) + 1
<1>1. /\ Len(q) \in Nat /\ DOMAIN q = 1..Len(q) /\ DOMAIN Append(q, e) = 1..l
      /\ Append(q, e)[l] = e
      /\ \A i \in 1..Len(q) : Append(q, e)[i] = q[i]
  BY AppendProperties
<1>2. IsFiniteSet(Acks(q)) /\ l \notin Acks(q)
  <2>1. l \notin DOMAIN q
    BY <1>1
  <2>2. QED
    BY <2>1, AckCountType DEF Acks
<1>3. CASE IsAck(e)
  <2>1. Acks(Append(q, e)) = Acks(q) \cup {l}
    BY <1>1, <1>3 DEF Acks
  <2>2. QED
    BY <1>2, <1>3, <2>1, FS_AddElement DEF AckCount
<1>4. CASE ~IsAck(e)
  <2>1. Acks(Append(q, e)) = Acks(q)
    BY <1>1, <1>4 DEF Acks
  <2>2. QED
    BY <1>4, <2>1 DEF AckCount
<1>5. QED
  BY <1>3, <1>4

LEMMA AckCountTail ==
    ASSUME NEW q \in Seq(AppendEntriesRMsg), q # <<>>
    PROVE  AckCount(q) = IF IsAck(Head(q)) THEN AckCount(Tail(q)) + 1 ELSE AckCount(Tail(q))
<1> DEFINE t == Tail(q)
           later == Acks(q) \ {1}
           f == [i \in Acks(t) |-> i + 1]
<1>1. /\ t \in Seq(AppendEntriesRMsg) /\ Len(q) \in Nat \ {0} /\ Len(t) = Len(q) - 1
      /\ DOMAIN q = 1..Len(q) /\ DOMAIN t = 1..Len(t)
      /\ \A i \in 1..Len(t) : t[i] = q[i + 1]
      /\ Head(q) = q[1]
  BY HeadTailProperties, EmptySeq
<1>2. IsFiniteSet(Acks(t)) /\ AckCount(t) \in Nat
  BY <1>1, AckCountType
<1> HIDE DEF t
<1>3. \A i \in Acks(t) : i \in Nat /\ i >= 1 /\ i + 1 \in later
  BY <1>1 DEF Acks
<1>4. \A j \in later : j - 1 \in Acks(t) /\ j = (j - 1) + 1
  BY <1>1 DEF Acks
<1>5. f \in Bijection(Acks(t), later)
  <2>1. f \in [Acks(t) -> later]
    BY <1>3
  <2>2. \A a, b \in Acks(t) : f[a] = f[b] => a = b
    BY <1>3
  <2>3. \A j \in later : \E a \in Acks(t) : f[a] = j
    <3>1. \A j \in later : f[j - 1] = (j - 1) + 1
      BY <1>4
    <3> HIDE DEF f, later
    <3>2. QED
      BY <1>4, <3>1
  <2>4. QED
    BY <2>1, <2>2, <2>3 DEF Bijection, Injection, Surjection, IsInjective
<1>6. IsFiniteSet(later) /\ Cardinality(later) = AckCount(t)
  <2>1. ExistsBijection(Acks(t), later)
    BY <1>5 DEF ExistsBijection
  <2> HIDE DEF later, f
  <2>2. QED
    BY <1>2, <2>1, FS_Bijection DEF AckCount
<1>7. CASE IsAck(Head(q))
  <2>1. Acks(q) = later \cup {1} /\ 1 \notin later
    BY <1>1, <1>7 DEF Acks
  <2> HIDE DEF later
  <2>2. QED
    BY <1>6, <1>7, <2>1, FS_AddElement DEF AckCount, t
<1>8. CASE ~IsAck(Head(q))
  <2>1. Acks(q) = later
    BY <1>1, <1>8 DEF Acks
  <2>2. QED
    BY <1>6, <1>8, <2>1 DEF AckCount, t
<1>9. QED
  BY <1>7, <1>8

LEMMA AckCountPrefix ==
    ASSUME NEW q \in Seq(AppendEntriesRMsg), NEW k \in 0..Len(q)
    PROVE  AckCount(SubSeq(q, 1, k)) <= AckCount(q)
<1> DEFINE p == SubSeq(q, 1, k)
<1>1. /\ p \in Seq(AppendEntriesRMsg) /\ DOMAIN p = 1..k /\ DOMAIN q = 1..Len(q)
      /\ k \in Nat /\ Len(q) \in Nat /\ \A i \in 1..k : p[i] = q[i]
  OBVIOUS
<1> HIDE DEF p
<1>2. Acks(p) \in SUBSET Acks(q)
  BY <1>1 DEF Acks
<1>3. QED
  BY <1>2, AckCountType, FS_Subset DEF AckCount, p

-----------------------------------------------------------------------------
(* The inductive invariant.                                                *)

\* The two indexes of a proxy move together.
NextFollowsMatch == \A n \in Node : nextIndex[n] = matchIndex[n] + 1

\* Single entries are sent only once the first two are acknowledged.
SinglesAfterFirst ==
    \A n \in Node : \A i \in DOMAIN down[n] :
        Len(down[n][i].entries) = 1 => matchIndex[n] > 0

\* The replies counted and those still to be counted leave the count below
\* the length of the log, up to the writes that failed.
Promised(n) == matchIndex[n] + AckCount(up[n])
RepliesCovered ==
    \A n \in Node : Promised(n) > 0 => Promised(n) < Len(entries[n]) + putErrors

AckInv == NextFollowsMatch /\ SinglesAfterFirst /\ RepliesCovered

LEMMA AckInvTypes ==
    ASSUME TypeOK, NEW n \in Node
    PROVE  /\ matchIndex[n] \in Nat /\ nextIndex[n] \in Nat
           /\ up[n] \in Seq(AppendEntriesRMsg) /\ AckCount(up[n]) \in Nat
           /\ Promised(n) \in Nat
           /\ entries[n] \in Seq(Entry) /\ Len(entries[n]) \in Nat /\ putErrors \in Nat
           /\ down[n] \in Seq(AppendEntriesQMsg)
<1>1. /\ matchIndex[n] \in Nat /\ nextIndex[n] \in Nat /\ putErrors \in Nat
      /\ up[n] \in Seq(AppendEntriesRMsg) /\ down[n] \in Seq(AppendEntriesQMsg)
      /\ entries[n] \in Seq(Entry)
  BY DEF TypeOK, Server
<1>2. AckCount(up[n]) \in Nat
  BY <1>1, AckCountType
<1>3. QED
  BY <1>1, <1>2 DEF Promised

\* Removing messages and raising matchIndex keep SinglesAfterFirst.
LEMMA SinglesKept ==
    ASSUME TypeOK, SinglesAfterFirst,
           \A n \in Node : matchIndex'[n] \in Nat /\ matchIndex'[n] >= matchIndex[n],
           \A n \in Node : down'[n] = down[n] \/ down'[n] = <<>>
                           \/ (down[n] # <<>> /\ down'[n] = Tail(down[n]))
    PROVE  SinglesAfterFirst'
<1> SUFFICES ASSUME NEW n \in Node, NEW i \in DOMAIN down'[n],
                    Len(down'[n][i].entries) = 1
             PROVE  matchIndex'[n] > 0
  BY DEF SinglesAfterFirst
<1>1. down[n] \in Seq(AppendEntriesQMsg) /\ matchIndex[n] \in Nat
  BY AckInvTypes
<1>2. \E j \in DOMAIN down[n] : down'[n][i] = down[n][j]
  <2>1. CASE down'[n] = down[n]
    BY <2>1
  <2>2. CASE down'[n] = <<>>
    BY <2>2
  <2>3. CASE down[n] # <<>> /\ down'[n] = Tail(down[n])
    <3>1. i \in 1..Len(Tail(down[n])) /\ Len(Tail(down[n])) = Len(down[n]) - 1
      BY <1>1, <2>3
    <3>2. i + 1 \in DOMAIN down[n] /\ down'[n][i] = down[n][i + 1]
      BY <1>1, <2>3, <3>1
    <3>3. QED
      BY <3>2
  <2>4. QED
    BY <2>1, <2>2, <2>3
<1>3. matchIndex[n] > 0
  BY <1>2 DEF SinglesAfterFirst
<1>4. QED
  BY <1>1, <1>3

\* A broadcast sends a single entry only to a proxy past its first index.
LEMMA SinglesBroadCast ==
    ASSUME TypeOK, NextFollowsMatch, SinglesAfterFirst,
           NEW proxys \in SUBSET Node, NEW log \in Seq(Entry),
           BroadCastAppendEntries(proxys, log), matchIndex' = matchIndex
    PROVE  SinglesAfterFirst'
<1> SUFFICES ASSUME NEW n \in Node, NEW i \in DOMAIN down'[n],
                    Len(down'[n][i].entries) = 1
             PROVE  matchIndex[n] > 0
  BY DEF SinglesAfterFirst
<1> DEFINE e == SendAppendEntries(n, log)
<1>1. down[n] \in Seq(AppendEntriesQMsg) /\ matchIndex[n] \in Nat
  BY AckInvTypes
<1>2. down'[n] = down[n] \/ down'[n] = Append(down[n], e)
  BY BroadCastEffect
<1>3. e \in AppendEntriesQMsg
  BY SendAppendEntriesType
<1>4. Len(e.entries) = 1 => matchIndex[n] > 0
  <2>1. e.entries = EntriesFor(n, log)
    BY DEF SendAppendEntries
  <2>2. nextIndex[n] = 1 => Len(EntriesFor(n, log)) # 1
    BY DEF EntriesFor
  <2>3. nextIndex[n] = matchIndex[n] + 1
    BY DEF NextFollowsMatch
  <2>4. QED
    BY <1>1, <2>1, <2>2, <2>3
<1> HIDE DEF e
<1>5. CASE down'[n] = down[n]
  BY <1>5 DEF SinglesAfterFirst
<1>6. CASE down'[n] = Append(down[n], e)
  <2>1. /\ i \in 1..Len(down[n]) + 1
        /\ down'[n][i] = IF i = Len(down[n]) + 1 THEN e ELSE down[n][i]
    BY <1>1, <1>3, <1>6
  <2>2. CASE i = Len(down[n]) + 1
    BY <1>4, <2>1, <2>2
  <2>3. CASE i # Len(down[n]) + 1
    <3>1. i \in DOMAIN down[n]
      BY <1>1, <2>1, <2>3
    <3>2. QED
      BY <2>1, <2>3, <3>1 DEF SinglesAfterFirst
  <2>4. QED
    BY <2>2, <2>3
<1>7. QED
  BY <1>2, <1>5, <1>6

\* Dropping replies, longer logs and more failed writes keep RepliesCovered.
LEMMA CoveredKept ==
    ASSUME TypeOK, TypeOK', RepliesCovered,
           \A n \in Node : /\ Promised(n)' <= Promised(n)
                           /\ Len(entries'[n]) + putErrors' >= Len(entries[n]) + putErrors
    PROVE  RepliesCovered'
<1> SUFFICES ASSUME NEW n \in Node, Promised(n)' > 0
             PROVE  Promised(n)' < Len(entries'[n]) + putErrors'
  BY DEF RepliesCovered
<1>1. Promised(n) \in Nat /\ Len(entries[n]) \in Nat /\ putErrors \in Nat
  BY AckInvTypes
<1>2. /\ matchIndex'[n] \in Nat /\ up'[n] \in Seq(AppendEntriesRMsg)
      /\ entries'[n] \in Seq(Entry) /\ putErrors' \in Nat
  BY DEF TypeOK, Server
<1>3. Promised(n)' \in Nat /\ Len(entries'[n]) \in Nat
  BY <1>2, AckCountType DEF Promised
<1>4. Promised(n) < Len(entries[n]) + putErrors
  BY <1>1, <1>3 DEF RepliesCovered
<1>5. QED
  BY <1>1, <1>2, <1>3, <1>4

\* Answering a message: only the answering node's queue of replies grows, by
\* at most one, and only an accepted message with entries adds to the count.
LEMMA ReceiveAndReplyCount ==
    ASSUME TypeOK, NEW n \in Node, down[n] # <<>>,
           NEW success \in BOOLEAN, NEW isheartbeat \in BOOLEAN,
           ReceiveAndReply(n, Head(down[n]), success, isheartbeat)
    PROVE  /\ \A x \in Node \ {n} : up'[x] = up[x]
           /\ \A x \in Node : \/ down'[x] = down[x]
                              \/ down[x] # <<>> /\ down'[x] = Tail(down[x])
           /\ \/ AckCount(up'[n]) = AckCount(up[n])
              \/ /\ success /\ ~isheartbeat
                 /\ AckCount(up'[n]) = AckCount(up[n]) + 1
<1> DEFINE reply == [term |-> NewTerm(n, Head(down[n])), success |-> success,
                     isheartbeat |-> isheartbeat]
<1>1. Head(down[n]).term \in Nat /\ n \in Server
  BY DownHead DEF Server
<1>2. NewTerm(n, Head(down[n])) \in Nat
  BY <1>1 DEF NewTerm, TypeOK
<1>3. reply \in AppendEntriesRMsg /\ (IsAck(reply) <=> (success /\ ~isheartbeat))
  BY <1>2 DEF AppendEntriesRMsg, IsAck
<1>4. up' = up \/ up' = [up EXCEPT ![n] = Append(up[n], reply)]
  BY DEF ReceiveAndReply
<1> HIDE DEF reply
<1>5. \A x \in Node \ {n} : up'[x] = up[x]
  BY <1>4 DEF TypeOK
<1>6. up'[n] = up[n] \/ up'[n] = Append(up[n], reply)
  BY <1>4 DEF TypeOK
<1>7. AckCount(Append(up[n], reply)) =
         IF IsAck(reply) THEN AckCount(up[n]) + 1 ELSE AckCount(up[n])
  BY <1>3, AckCountAppend DEF TypeOK
<1>8. \A x \in Node : down'[x] = down[x] \/ (down[x] # <<>> /\ down'[x] = Tail(down[x]))
  BY DEF ReceiveAndReply, TypeOK
<1>9. QED
  BY <1>3, <1>5, <1>6, <1>7, <1>8

LEMMA NextAck == TypeOK /\ AckInv /\ [Next]_vars => AckInv'
<1> SUFFICES ASSUME TypeOK, NextFollowsMatch, SinglesAfterFirst, RepliesCovered,
                    [Next]_vars
             PROVE  NextFollowsMatch' /\ SinglesAfterFirst' /\ RepliesCovered'
  BY DEF AckInv
<1>t. TypeOK'
  BY NextTypeOK
<1>s. /\ Hub \in Server /\ Hub \notin Node
      /\ \A n \in Node : n \in Server /\ n # Hub
  BY HubAssumption DEF Server
<1>n. \A x \in Node : /\ matchIndex[x] \in Nat /\ Promised(x) \in Nat
                      /\ AckCount(up[x]) \in Nat
                      /\ Len(entries[x]) \in Nat /\ putErrors \in Nat
  BY AckInvTypes
<1>m. ASSUME UNCHANGED <<matchIndex, nextIndex>> PROVE NextFollowsMatch'
  BY <1>m DEF NextFollowsMatch
<1>u. ASSUME UNCHANGED <<matchIndex, nextIndex, up, down, entries, putErrors>>
      PROVE  NextFollowsMatch' /\ SinglesAfterFirst' /\ RepliesCovered'
  BY <1>u DEF NextFollowsMatch, SinglesAfterFirst, RepliesCovered, Promised
<1>1. ASSUME NEW n \in Node, HandshakeAccepted(n)
      PROVE  NextFollowsMatch' /\ SinglesAfterFirst' /\ RepliesCovered'
  <2> DEFINE block == <<[node |-> n, term |-> 0]>>
  <2>1. /\ block \in Seq(Entry) /\ currentTerm[Hub] \in Nat
        /\ AppendCfgLog(Hub, block, currentTerm[Hub])
    BY <1>1, <1>s DEF HandshakeAccepted, Entry, TypeOK
  <2> HIDE DEF block
  <2>2. /\ entries'[Hub] \in Seq(Entry) /\ putErrors' >= putErrors /\ putErrors' \in Nat
        /\ \A x \in Node : entries'[x] = entries[x]
    BY <1>s, <2>1, AppendCfgLogEffect
  <2>3. /\ BroadCastAppendEntries(Proxys \cup {n}, entries'[Hub])
        /\ Proxys \cup {n} \in SUBSET Node /\ UNCHANGED <<matchIndex, nextIndex, up>>
    BY <1>1 DEF HandshakeAccepted, Proxys
  <2>4. SinglesAfterFirst'
    BY <2>2, <2>3, SinglesBroadCast
  <2>5. \A x \in Node : /\ Promised(x)' <= Promised(x)
                        /\ Len(entries'[x]) + putErrors' >= Len(entries[x]) + putErrors
    BY <1>n, <2>2, <2>3 DEF Promised
  <2>6. RepliesCovered'
    BY <1>t, <2>5, CoveredKept
  <2>7. QED
    BY <1>m, <2>3, <2>4, <2>6
<1>2. ASSUME SendAppendEntriesCallback
      PROVE  NextFollowsMatch' /\ SinglesAfterFirst' /\ RepliesCovered'
  <2>1. /\ entries[Hub] \in Seq(Entry) /\ Proxys \in SUBSET Node
        /\ BroadCastAppendEntries(Proxys, entries[Hub])
        /\ UNCHANGED <<matchIndex, nextIndex, up, entries, putErrors>>
    BY <1>2, <1>s DEF SendAppendEntriesCallback, Proxys, TypeOK, serverVars, proxyVars
  <2>2. SinglesAfterFirst'
    BY <2>1, SinglesBroadCast
  <2>3. QED
    BY <1>m, <2>1, <2>2 DEF RepliesCovered, Promised
<1>3. ASSUME NEW n \in Node, down[n] # <<>>,
             NEW success \in BOOLEAN, NEW isheartbeat \in BOOLEAN,
             ReceiveAndReply(n, Head(down[n]), success, isheartbeat),
             ~success \/ isheartbeat,
             UNCHANGED <<matchIndex, nextIndex, entries, putErrors>>
      PROVE  NextFollowsMatch' /\ SinglesAfterFirst' /\ RepliesCovered'
  <2>1. /\ \A x \in Node \ {n} : up'[x] = up[x]
        /\ AckCount(up'[n]) = AckCount(up[n])
        /\ \A x \in Node : down'[x] = down[x] \/ (down[x] # <<>> /\ down'[x] = Tail(down[x]))
    BY <1>3, ReceiveAndReplyCount
  <2>2. SinglesAfterFirst'
    BY <1>3, <1>n, <2>1, SinglesKept
  <2>3. \A x \in Node : Promised(x)' = Promised(x)
    BY <1>3, <2>1 DEF Promised
  <2>4. RepliesCovered'
    BY <1>3, <2>3 DEF RepliesCovered
  <2>5. QED
    BY <1>3, <1>m, <2>2, <2>4
<1>4. ASSUME NEW n \in Node, RejectAppendEntries(n) \/ AcceptHeartbeat(n)
      PROVE  NextFollowsMatch' /\ SinglesAfterFirst' /\ RepliesCovered'
  BY <1>3, <1>4 DEF RejectAppendEntries, AcceptHeartbeat, FreshTime, proxyVars, histVars
<1>5. ASSUME NEW n \in Node, AcceptEntries(n)
      PROVE  NextFollowsMatch' /\ SinglesAfterFirst' /\ RepliesCovered'
  <2> DEFINE m == Head(down[n])
  <2>1. /\ down[n] # <<>> /\ m.entries # <<>>
        /\ AppendCfgLog(n, m.entries, NewTerm(n, m))
        /\ ReceiveAndReply(n, m, TRUE, FALSE)
        /\ UNCHANGED <<matchIndex, nextIndex>>
    BY <1>5 DEF AcceptEntries, proxyVars
  <2>2. m.entries \in Seq(Entry) /\ NewTerm(n, m) \in Nat
    BY <1>s, <2>1, DownHead DEF NewTerm, TypeOK
  <2>3. Len(m.entries) \in Nat \ {0} /\ (Len(m.entries) = 1 => matchIndex[n] > 0)
    <3>1. down[n] \in Seq(AppendEntriesQMsg)
      BY DEF TypeOK
    <3>2. 1 \in DOMAIN down[n] /\ m = down[n][1]
      BY <2>1, <3>1
    <3>3. QED
      BY <2>1, <2>2, <3>2, EmptySeq DEF SinglesAfterFirst
  <2>4. /\ \A x \in Node \ {n} : up'[x] = up[x]
        /\ AckCount(up'[n]) = AckCount(up[n]) \/ AckCount(up'[n]) = AckCount(up[n]) + 1
        /\ \A x \in Node : down'[x] = down[x] \/ (down[x] # <<>> /\ down'[x] = Tail(down[x]))
    BY <2>1, ReceiveAndReplyCount
  <2> HIDE DEF m
  <2>5. /\ putErrors' \in Nat /\ putErrors' >= putErrors
        /\ \A x \in Server \ {n} : entries'[x] = entries[x]
        /\ Len(entries'[n]) + putErrors' = Len(entries[n]) + putErrors + Len(m.entries)
    BY <1>s, <2>1, <2>2, AppendCfgLogEffect
  <2>6. SinglesAfterFirst'
    BY <1>n, <2>1, <2>4, SinglesKept
  <2>7. ASSUME NEW x \in Node, Promised(x)' > 0
        PROVE  Promised(x)' < Len(entries'[x]) + putErrors'
    <3>1. CASE x = n
      <4>1. /\ Promised(n)' = Promised(n) \/ Promised(n)' = Promised(n) + 1
            /\ matchIndex[n] > 0 => Promised(n) > 0
        BY <1>n, <2>1, <2>4 DEF Promised
      <4>2. Promised(n) > 0 => Promised(n) < Len(entries[n]) + putErrors
        BY DEF RepliesCovered
      <4> DEFINE p == Promised(n)
                 l == Len(entries[n]) + putErrors
                 b == Len(m.entries)
      <4>3. /\ p \in Nat /\ l \in Nat /\ b \in Nat \ {0}
            /\ p > 0 => p < l
            /\ b = 1 => p > 0
            /\ Promised(n)' = p \/ Promised(n)' = p + 1
            /\ Len(entries'[n]) + putErrors' = l + b
            /\ Promised(n)' > 0
        BY <1>n, <2>3, <2>5, <2>7, <3>1, <4>1, <4>2
      <4> HIDE DEF p, l, b
      <4>4. Promised(n)' < Len(entries'[n]) + putErrors'
        BY <4>3
      <4>5. QED
        BY <3>1, <4>4
    <3>2. CASE x # n
      <4>1. Promised(x)' = Promised(x) /\ entries'[x] = entries[x]
        BY <1>s, <2>1, <2>4, <2>5, <3>2 DEF Promised
      <4>2. Promised(x) > 0 => Promised(x) < Len(entries[x]) + putErrors
        BY DEF RepliesCovered
      <4>3. QED
        BY <1>n, <2>5, <2>7, <4>1, <4>2
    <3>3. QED
      BY <3>1, <3>2
  <2>8. RepliesCovered'
    BY <2>7 DEF RepliesCovered
  <2>9. QED
    BY <1>m, <2>1, <2>6, <2>8
<1>6. ASSUME NEW n \in Node, StepDown(n)
      PROVE  NextFollowsMatch' /\ SinglesAfterFirst' /\ RepliesCovered'
  <2>1. /\ up[n] # <<>> /\ up' = [up EXCEPT ![n] = Tail(up[n])]
        /\ UNCHANGED <<matchIndex, nextIndex, down, entries, putErrors>>
    BY <1>6 DEF StepDown, proxyVars, histVars
  <2>2. AckCount(Tail(up[n])) <= AckCount(up[n])
    <3>1. up[n] \in Seq(AppendEntriesRMsg) /\ Tail(up[n]) \in Seq(AppendEntriesRMsg)
      BY <2>1, UpHead DEF TypeOK
    <3>2. AckCount(Tail(up[n])) \in Nat
      BY <3>1, AckCountType
    <3>3. QED
      BY <2>1, <3>1, <3>2, AckCountTail
  <2>3. \A x \in Node : /\ Promised(x)' <= Promised(x)
                        /\ Len(entries'[x]) + putErrors' >= Len(entries[x]) + putErrors
    <3>1. AckCount(up'[n]) <= AckCount(up[n]) /\ \A x \in Node \ {n} : up'[x] = up[x]
      BY <2>1, <2>2 DEF TypeOK
    <3>2. \A x \in Node : AckCount(up'[x]) <= AckCount(up[x]) /\ AckCount(up'[x]) \in Nat
      <4>1. \A x \in Node : AckCount(up'[x]) \in Nat
        BY <1>t, AckCountType DEF TypeOK
      <4>2. QED
        BY <1>n, <3>1, <4>1
    <3>3. QED
      BY <1>n, <2>1, <3>2 DEF Promised
  <2>4. RepliesCovered'
    BY <1>t, <2>3, CoveredKept
  <2>5. QED
    BY <1>m, <2>1, <2>4 DEF SinglesAfterFirst
<1>7. ASSUME NEW n \in Node, HandleAppendEntriesR(n)
      PROVE  NextFollowsMatch' /\ SinglesAfterFirst' /\ RepliesCovered'
  <2>1. /\ up[n] # <<>> /\ up' = [up EXCEPT ![n] = Tail(up[n])]
        /\ UNCHANGED <<down, entries, putErrors>>
        /\ IF IsAck(Head(up[n]))
           THEN /\ matchIndex' = [matchIndex EXCEPT ![n] = matchIndex[n] + 1]
                /\ nextIndex' = [nextIndex EXCEPT ![n] = nextIndex[n] + 1]
           ELSE matchIndex' = matchIndex /\ nextIndex' = nextIndex
    BY <1>7 DEF HandleAppendEntriesR, IncrIndexes, histVars
  <2>2. AckCount(up[n]) = IF IsAck(Head(up[n])) THEN AckCount(Tail(up[n])) + 1
                                                ELSE AckCount(Tail(up[n]))
    BY <2>1, AckCountTail DEF TypeOK
  <2>3. AckCount(Tail(up[n])) \in Nat
    BY <2>1, UpHead, AckCountType
  <2>i. ASSUME NEW x \in Node
        PROVE  \/ matchIndex'[x] = matchIndex[x] /\ nextIndex'[x] = nextIndex[x]
               \/ matchIndex'[x] = matchIndex[x] + 1 /\ nextIndex'[x] = nextIndex[x] + 1
    <3>1. matchIndex \in [Node -> Nat] /\ nextIndex \in [Node -> Nat \ {0}]
      BY DEF TypeOK
    <3>2. CASE IsAck(Head(up[n]))
      BY <2>1, <3>1, <3>2
    <3>3. CASE ~IsAck(Head(up[n]))
      BY <2>1, <3>3
    <3>4. QED
      BY <3>2, <3>3
  <2>4. NextFollowsMatch'
    BY <1>n, <2>i DEF NextFollowsMatch
  <2>5. \A x \in Node : matchIndex'[x] \in Nat /\ matchIndex'[x] >= matchIndex[x]
    BY <1>n, <2>i
  <2>6. SinglesAfterFirst'
    BY <2>1, <2>5, SinglesKept
  <2>7. ASSUME NEW x \in Node PROVE Promised(x)' = Promised(x)
    <3>1. CASE x # n
      BY <2>1, <3>1 DEF Promised, TypeOK
    <3>2. CASE x = n
      <4>1. /\ up'[n] = Tail(up[n])
            /\ matchIndex'[n] = IF IsAck(Head(up[n])) THEN matchIndex[n] + 1 ELSE matchIndex[n]
        BY <2>1 DEF TypeOK
      <4>2. matchIndex'[n] + AckCount(up'[n]) = matchIndex[n] + AckCount(up[n])
        BY <1>n, <2>2, <2>3, <4>1
      <4>3. QED
        BY <3>2, <4>2 DEF Promised
    <3>3. QED
      BY <3>1, <3>2
  <2>8. RepliesCovered'
    BY <2>1, <2>7 DEF RepliesCovered
  <2>9. QED
    BY <2>4, <2>6, <2>8
<1>8. ASSUME NEW n \in Node, CrashNode(n)
      PROVE  NextFollowsMatch' /\ SinglesAfterFirst' /\ RepliesCovered'
  <2>1. /\ down' = [down EXCEPT ![n] = <<>>]
        /\ UNCHANGED <<matchIndex, nextIndex, entries, putErrors>>
    BY <1>8 DEF CrashNode, proxyVars, histVars
  <2>2. PICK k \in 0..Len(up[n]) : up' = [up EXCEPT ![n] = SubSeq(up[n], 1, k)]
    BY <1>8 DEF CrashNode
  <2>3. AckCount(SubSeq(up[n], 1, k)) <= AckCount(up[n])
    BY AckCountPrefix DEF TypeOK
  <2>4. SinglesAfterFirst'
    <3>1. \A x \in Node : down'[x] = down[x] \/ down'[x] = <<>>
      BY <2>1 DEF TypeOK
    <3>2. QED
      BY <1>n, <2>1, <3>1, SinglesKept
  <2>5. \A x \in Node : /\ Promised(x)' <= Promised(x)
                        /\ Len(entries'[x]) + putErrors' >= Len(entries[x]) + putErrors
    <3>1. AckCount(up'[n]) <= AckCount(up[n]) /\ \A x \in Node \ {n} : up'[x] = up[x]
      BY <2>2, <2>3 DEF TypeOK
    <3>2. \A x \in Node : AckCount(up'[x]) <= AckCount(up[x]) /\ AckCount(up'[x]) \in Nat
      <4>1. \A x \in Node : AckCount(up'[x]) \in Nat
        BY <1>t, AckCountType DEF TypeOK
      <4>2. QED
        BY <1>n, <3>1, <4>1
    <3>3. ASSUME NEW x \in Node PROVE Promised(x)' <= Promised(x)
      <4>1. /\ matchIndex'[x] = matchIndex[x] /\ matchIndex[x] \in Nat
            /\ AckCount(up[x]) \in Nat /\ AckCount(up'[x]) \in Nat
            /\ AckCount(up'[x]) <= AckCount(up[x])
        BY <1>n, <2>1, <3>2
      <4>2. QED
        BY ONLY <4>1 DEF Promised
    <3>4. \A x \in Node : Len(entries'[x]) + putErrors' >= Len(entries[x]) + putErrors
      BY <1>n, <2>1
    <3>5. QED
      BY <3>3, <3>4
  <2>6. RepliesCovered'
    BY <1>t, <2>5, CoveredKept
  <2>7. QED
    BY <1>m, <2>1, <2>4, <2>6
<1>9. ASSUME CrashHub
      PROVE  NextFollowsMatch' /\ SinglesAfterFirst' /\ RepliesCovered'
  <2>1. /\ up' = [n \in Node |-> <<>>]
        /\ UNCHANGED <<matchIndex, nextIndex, down, entries, putErrors>>
    BY <1>9 DEF CrashHub, proxyVars, histVars
  <2>2. \A x \in Node : AckCount(up'[x]) = 0
    BY <2>1, AckCountEmpty
  <2>3. \A x \in Node : /\ Promised(x)' <= Promised(x)
                        /\ Len(entries'[x]) + putErrors' >= Len(entries[x]) + putErrors
    BY <1>n, <2>1, <2>2 DEF Promised
  <2>4. RepliesCovered'
    BY <1>t, <2>3, CoveredKept
  <2>5. QED
    BY <1>m, <2>1, <2>4 DEF SinglesAfterFirst
<1>10. ASSUME NEW n \in Node,
              ConnectToPeer(n) \/ HeartBeatTimeoutCallback(n) \/ HandshakeRefused(n)
       PROVE  NextFollowsMatch' /\ SinglesAfterFirst' /\ RepliesCovered'
  BY <1>10, <1>u DEF ConnectToPeer, StartTimer, HeartBeatTimeoutCallback, BecomeCandidate,
                     HandshakeRefused,
     serverVars, proxyVars, netVars, histVars
<1>11. CASE UNCHANGED vars
  BY <1>11, <1>u DEF vars, serverVars, proxyVars, netVars, histVars
<1>12. QED
  BY <1>1, <1>2, <1>4, <1>5, <1>6, <1>7, <1>8, <1>9, <1>10, <1>11
  DEF Next, NodeStep, HubStep

\* For any cluster: what the Hub counts as acknowledged is in the node's log,
\* up to the writes leveldb refused, although replies are only counted and a
\* node that crashes loses the ones it had on the way.
THEOREM AcknowledgedIsStored == Spec => []AckedIsStored
<1>1. Init => AckInv
  BY AckCountEmpty DEF Init, AckInv, NextFollowsMatch, SinglesAfterFirst,
     RepliesCovered, Promised
<1>2. TypeOK /\ AckInv /\ [Next]_vars => AckInv'
  BY NextAck
<1>3. TypeOK /\ AckInv => AckedIsStored
  <2> SUFFICES ASSUME TypeOK, AckInv, NEW n \in Node, matchIndex[n] > 0
               PROVE  matchIndex[n] < Len(entries[n]) + putErrors
    BY DEF AckedIsStored
  <2>1. /\ matchIndex[n] \in Nat /\ AckCount(up[n]) \in Nat
        /\ Len(entries[n]) \in Nat /\ putErrors \in Nat
    BY AckInvTypes
  <2>2. Promised(n) = matchIndex[n] + AckCount(up[n])
    BY DEF Promised
  <2>3. Promised(n) > 0 => Promised(n) < Len(entries[n]) + putErrors
    BY DEF AckInv, RepliesCovered
  <2>4. QED
    BY <2>1, <2>2, <2>3
<1>4. QED
  BY <1>1, <1>2, <1>3, TypeCorrect, PTL DEF Spec
=============================================================================
