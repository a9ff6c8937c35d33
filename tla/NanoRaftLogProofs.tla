-------------------------- MODULE NanoRaftLogProofs --------------------------
(***************************************************************************)
(* What a node's log and its commit index hold, and that NanoRaft          *)
(* implements ConfigLog while it is paced, for any set of nodes and any    *)
(* bounds.                                                                 *)
(***************************************************************************)
EXTENDS NanoRaftPaced, NanoRaftProofs

-----------------------------------------------------------------------------
(* Who is sent something, and in which term.                               *)

\* Messages go to running proxies only.
SentToProxys == \A n \in Node : down[n] # <<>> => alive[n] /\ conn[n] = "tied"

\* No message is of a later term than the Hub's, and no acknowledgement either,
\* so that StepDown never swallows one.
TermsSent ==
    \A n \in Node :
        /\ \A i \in DOMAIN down[n] : down[n][i].term <= currentTerm[Hub]
        /\ \A i \in DOMAIN up[n] : IsAck(up[n][i]) => up[n][i].term <= currentTerm[Hub]

\* Unless a write failed, the Hub has logged itself and its proxies, each once.
LogIsProxys ==
    putErrors = 0 =>
        /\ Len(entries[Hub]) = Cardinality(Proxys) + 1
        /\ {entries[Hub][i].node : i \in DOMAIN entries[Hub]} = Proxys \cup {Hub}

SendInv == SentToProxys /\ TermsSent /\ LogIsProxys

-----------------------------------------------------------------------------
(* What a step does to a queue.                                            *)

\* q is what is left of p when its head is taken or its end is lost.
Fewer(q, p) == \/ q = p \/ q = <<>>
               \/ p # <<>> /\ q = Tail(p)
               \/ \E k \in 0..Len(p) : q = SubSeq(p, 1, k)

\* What is left stands in the same order, one place or none further on.
LEMMA FewerShifts ==
    ASSUME NEW S, NEW p \in Seq(S), NEW q, Fewer(q, p)
    PROVE  \E d \in Nat : \A i \in DOMAIN q : /\ i \in Nat /\ i + d \in DOMAIN p
                                              /\ q[i] = p[i + d]
<1>1. CASE q = p
  <2>1. \A i \in DOMAIN q : i \in Nat /\ i + 0 \in DOMAIN p /\ q[i] = p[i + 0]
    BY <1>1
  <2>2. QED
    BY <2>1
<1>2. CASE q = <<>>
  <2>1. \A i \in DOMAIN q : i \in Nat /\ i + 0 \in DOMAIN p /\ q[i] = p[i + 0]
    BY <1>2
  <2>2. QED
    BY <2>1
<1>3. CASE p # <<>> /\ q = Tail(p)
  <2>1. \A i \in DOMAIN q : i \in Nat /\ i + 1 \in DOMAIN p /\ q[i] = p[i + 1]
    BY <1>3
  <2>2. QED
    BY <2>1
<1>4. ASSUME NEW k \in 0..Len(p), q = SubSeq(p, 1, k)
      PROVE  \E d \in Nat : \A i \in DOMAIN q : /\ i \in Nat /\ i + d \in DOMAIN p
                                                /\ q[i] = p[i + d]
  <2>1. \A i \in DOMAIN q : i \in Nat /\ i + 0 \in DOMAIN p /\ q[i] = p[i + 0]
    BY <1>4
  <2>2. QED
    BY <2>1
<1>5. QED
  BY <1>1, <1>2, <1>3, <1>4 DEF Fewer

LEMMA DownShifts ==
    ASSUME TypeOK, NEW n \in Node, Fewer(down'[n], down[n])
    PROVE  \E d \in Nat : \A i \in DOMAIN down'[n] : /\ i \in Nat /\ i + d \in DOMAIN down[n]
                                                  /\ down'[n][i] = down[n][i + d]
<1> DEFINE p == down[n]
           q == down'[n]
<1>1. p \in Seq(AppendEntriesQMsg) /\ Fewer(q, p)
  BY DEF TypeOK
<1> HIDE DEF p, q
<1>2. \E d \in Nat : \A i \in DOMAIN q : i \in Nat /\ i + d \in DOMAIN p /\ q[i] = p[i + d]
  BY <1>1, FewerShifts
<1>3. QED
  BY <1>2, Zenon DEF p, q

LEMMA UpShifts ==
    ASSUME TypeOK, NEW n \in Node, Fewer(up'[n], up[n])
    PROVE  \E d \in Nat : \A i \in DOMAIN up'[n] : /\ i \in Nat /\ i + d \in DOMAIN up[n]
                                                  /\ up'[n][i] = up[n][i + d]
<1> DEFINE p == up[n]
           q == up'[n]
<1>1. p \in Seq(AppendEntriesRMsg) /\ Fewer(q, p)
  BY DEF TypeOK
<1> HIDE DEF p, q
<1>2. \E d \in Nat : \A i \in DOMAIN q : i \in Nat /\ i + d \in DOMAIN p /\ q[i] = p[i + d]
  BY <1>1, FewerShifts
<1>3. QED
  BY <1>2, Zenon DEF p, q

\* The elements of a queue one longer.
LEMMA AppendedAt ==
    ASSUME NEW S, NEW p \in Seq(S), NEW e \in S
    PROVE  /\ Len(p) \in Nat /\ DOMAIN p = 1..Len(p)
           /\ DOMAIN Append(p, e) = 1..(Len(p) + 1)
           /\ \A i \in DOMAIN p : i < Len(p) + 1 /\ Append(p, e)[i] = p[i]
           /\ Append(p, e)[Len(p) + 1] = e
           /\ \A i \in DOMAIN Append(p, e) : i \in DOMAIN p \/ i = Len(p) + 1
  OBVIOUS

\* Who is sent what by a broadcast.
LEMMA BroadCastSends ==
    ASSUME TypeOK, NEW proxys \in SUBSET Node, NEW log \in Seq(Entry),
           BroadCastAppendEntries(proxys, log), NEW n \in Node
    PROVE  /\ down[n] \in Seq(AppendEntriesQMsg)
           /\ SendAppendEntries(n, log) \in AppendEntriesQMsg
           /\ \/ down'[n] = down[n]
              \/ /\ n \in proxys /\ alive[n]
                 /\ down'[n] = Append(down[n], SendAppendEntries(n, log))
                 /\ n \in resent' \/ EntriesFor(n, log) = <<>> \/ ~Unanswered(n)
           /\ n \in resent => n \in resent'
<1>1. SendAppendEntries(n, log) \in AppendEntriesQMsg
  BY SendAppendEntriesType
<1>2. down[n] \in Seq(AppendEntriesQMsg)
  BY DEF TypeOK
<1>3. QED
  BY <1>1, <1>2 DEF BroadCastAppendEntries

-----------------------------------------------------------------------------
(* SendInv is inductive.                                                   *)

\* Taking messages and acknowledgements keeps TermsSent.
LEMMA TermsKept ==
    ASSUME TypeOK, TermsSent, NEW n \in Node,
           currentTerm'[Hub] \in Nat, currentTerm'[Hub] >= currentTerm[Hub]
    PROVE  /\ Fewer(down'[n], down[n]) =>
                 \A i \in DOMAIN down'[n] : down'[n][i].term <= currentTerm'[Hub]
           /\ Fewer(up'[n], up[n]) =>
                 \A i \in DOMAIN up'[n] :
                    IsAck(up'[n][i]) => up'[n][i].term <= currentTerm'[Hub]
<1>1. /\ down[n] \in Seq(AppendEntriesQMsg) /\ up[n] \in Seq(AppendEntriesRMsg)
      /\ currentTerm[Hub] \in Nat
  BY DEF TypeOK, Server
<1>2. ASSUME NEW i \in DOMAIN down[n] PROVE down[n][i].term \in Nat
  <2>1. down[n][i] \in AppendEntriesQMsg
    BY <1>1
  <2>2. QED
    BY <2>1 DEF AppendEntriesQMsg
<1>3. ASSUME NEW i \in DOMAIN up[n] PROVE up[n][i].term \in Nat
  <2>1. up[n][i] \in AppendEntriesRMsg
    BY <1>1
  <2>2. QED
    BY <2>1 DEF AppendEntriesRMsg
<1>4. /\ \A i \in DOMAIN down[n] : down[n][i].term <= currentTerm'[Hub]
      /\ \A i \in DOMAIN up[n] : IsAck(up[n][i]) => up[n][i].term <= currentTerm'[Hub]
  BY <1>1, <1>2, <1>3 DEF TermsSent
<1>5. ASSUME Fewer(down'[n], down[n]), NEW i \in DOMAIN down'[n]
      PROVE  down'[n][i].term <= currentTerm'[Hub]
  BY <1>4, <1>5, DownShifts
<1>6. ASSUME Fewer(up'[n], up[n]), NEW i \in DOMAIN up'[n], IsAck(up'[n][i])
      PROVE  up'[n][i].term <= currentTerm'[Hub]
  BY <1>4, <1>6, UpShifts
<1>7. QED
  BY <1>5, <1>6

\* A broadcast sends in the Hub's term, to running proxies.
LEMMA SendBroadCast ==
    ASSUME TypeOK, SentToProxys, TermsSent,
           NEW proxys \in SUBSET Node, NEW log \in Seq(Entry),
           BroadCastAppendEntries(proxys, log),
           \A n \in proxys : conn'[n] = "tied",
           \A n \in Node : conn[n] = "tied" => conn'[n] = "tied",
           UNCHANGED <<currentTerm, alive, up>>
    PROVE  SentToProxys' /\ TermsSent'
<1>1. ASSUME NEW n \in Node, down'[n] # <<>> PROVE alive'[n] /\ conn'[n] = "tied"
  <2>1. down'[n] = down[n] \/ (n \in proxys /\ alive[n])
    BY BroadCastSends
  <2>2. QED
    BY <1>1, <2>1 DEF SentToProxys
<1>2. ASSUME NEW n \in Node, NEW i \in DOMAIN down'[n]
      PROVE  down'[n][i].term <= currentTerm[Hub]
  <2> DEFINE e == SendAppendEntries(n, log)
  <2>1. /\ down[n] \in Seq(AppendEntriesQMsg) /\ e \in AppendEntriesQMsg
        /\ down'[n] = down[n] \/ down'[n] = Append(down[n], e)
    BY BroadCastSends
  <2>2. e.term = currentTerm[Hub] /\ currentTerm[Hub] \in Nat
    BY DEF SendAppendEntries, TypeOK, Server
  <2>3. \A j \in DOMAIN down[n] : down[n][j].term <= currentTerm[Hub]
    BY DEF TermsSent
  <2> HIDE DEF e
  <2>4. CASE down'[n] = down[n]
    BY <1>2, <2>3, <2>4
  <2>5. CASE down'[n] = Append(down[n], e)
    <3>1. \/ i \in DOMAIN down[n] /\ down'[n][i] = down[n][i]
          \/ down'[n][i] = e
      BY <1>2, <2>1, <2>5, AppendedAt
    <3>2. QED
      BY <2>2, <2>3, <3>1
  <2>6. QED
    BY <2>1, <2>4, <2>5
<1>3. QED
  BY <1>1, <1>2 DEF SentToProxys, TermsSent

\* Nobody's connection becomes another's, and the log stays.
LEMMA LogIsProxysKept ==
    ASSUME LogIsProxys, Proxys' = Proxys, entries'[Hub] = entries[Hub],
           putErrors' = 0 => putErrors = 0
    PROVE  LogIsProxys'
  BY DEF LogIsProxys

\* Storing a block without a failed write puts all of it, with the storing
\* server's term, at the end of the log.
LEMMA AppendCfgLogWhole ==
    ASSUME TypeOK, NEW s \in Server, NEW block \in Seq(Entry), NEW term \in Nat,
           AppendCfgLog(s, block, term), putErrors' = putErrors
    PROVE  /\ entries'[s] = entries[s] \o Restamp(block, term)
           /\ entries'[s] \in Seq(Entry)
           /\ Len(entries'[s]) = Len(entries[s]) + Len(block)
           /\ \A i \in 1..Len(entries[s]) : entries'[s][i] = entries[s][i]
           /\ \A i \in 1..Len(block) : entries'[s][Len(entries[s]) + i].node = block[i].node
<1>1. PICK stored \in Stored(block) :
         /\ putErrors' = putErrors + (Len(block) - Len(stored))
         /\ entries' = [entries EXCEPT ![s] = @ \o Restamp(stored, term)]
  BY DEF AppendCfgLog
<1>2. /\ stored \in Seq(Entry) /\ Len(stored) \in Nat /\ Len(block) \in Nat
      /\ putErrors \in Nat /\ entries[s] \in Seq(Entry)
  BY StoredType DEF TypeOK
<1>3. Len(stored) = Len(block)
  BY <1>1, <1>2
<1>4. stored = block
  <2>1. CASE stored = <<>>
    BY <1>3, <2>1, EmptySeq
  <2>2. ASSUME NEW i \in DOMAIN block, stored = <<block[i]>> PROVE stored = block
    <3>1. Len(block) = 1 /\ i = 1
      BY <1>2, <1>3, <2>2
    <3>2. QED
      BY <2>2, <3>1
  <2>3. QED
    BY <2>1, <2>2 DEF Stored
<1> DEFINE r == Restamp(block, term)
           log == entries[s]
<1>5. /\ r \in Seq(Entry) /\ Len(r) = Len(block) /\ log \in Seq(Entry)
      /\ \A i \in 1..Len(block) : r[i].node = block[i].node
  BY <1>2, RestampType
<1>6. entries'[s] = log \o r
  BY <1>1, <1>4 DEF TypeOK
<1> HIDE DEF r, log
<1>7. /\ log \o r \in Seq(Entry)
      /\ Len(log \o r) = Len(log) + Len(r)
      /\ \A i \in 1..Len(log) + Len(r) :
            (log \o r)[i] = IF i <= Len(log) THEN log[i] ELSE r[i - Len(log)]
  <2>1. log \in Seq(Entry) /\ r \in Seq(Entry)
    BY <1>5
  <2>2. QED
    BY ONLY <2>1, ConcatProperties
<1>l. Len(log) \in Nat
  BY <1>5
<1>8. \A i \in 1..Len(log) : (log \o r)[i] = log[i]
  BY <1>2, <1>5, <1>7, <1>l
<1>9. ASSUME NEW i \in 1..Len(block) PROVE (log \o r)[Len(log) + i] = r[i]
  <2>1. /\ Len(log) + i \in 1..Len(log) + Len(r) /\ ~(Len(log) + i <= Len(log))
        /\ (Len(log) + i) - Len(log) = i
    BY <1>2, <1>5, <1>l
  <2>2. QED
    BY <1>7, <2>1
<1>10. QED
  BY <1>5, <1>6, <1>7, <1>8, <1>9 DEF r, log

\* A node that is accepted joins the proxies and the log.
LEMMA LogIsProxysJoin ==
    ASSUME TypeOK, LogIsProxys, NEW n \in Node, HandshakeAccepted(n), putErrors' = 0
    PROVE  /\ putErrors = 0
           /\ entries'[Hub] \in Seq(Entry)
           /\ Len(entries'[Hub]) = Len(entries[Hub]) + 1
           /\ \A i \in 1..Len(entries[Hub]) : entries'[Hub][i] = entries[Hub][i]
           /\ entries'[Hub][Len(entries[Hub]) + 1].node = n
           /\ Proxys' = Proxys \cup {n} /\ n \notin Proxys
           /\ LogIsProxys'
<1> DEFINE block == <<[node |-> n, term |-> 0]>>
<1>1. /\ block \in Seq(Entry) /\ Len(block) = 1 /\ block[1].node = n
      /\ currentTerm[Hub] \in Nat /\ Hub \in Server
      /\ AppendCfgLog(Hub, block, currentTerm[Hub])
  BY DEF HandshakeAccepted, Entry, TypeOK, Server
<1> HIDE DEF block
<1>2. putErrors = 0
  <2>1. putErrors' >= putErrors /\ putErrors \in Nat
    BY <1>1, AppendCfgLogEffect DEF TypeOK
  <2>2. QED
    BY <2>1
<1>3. /\ entries'[Hub] \in Seq(Entry)
      /\ Len(entries'[Hub]) = Len(entries[Hub]) + 1
      /\ \A i \in 1..Len(entries[Hub]) : entries'[Hub][i] = entries[Hub][i]
      /\ entries'[Hub][Len(entries[Hub]) + 1].node = n
  <2>1. /\ entries'[Hub] \in Seq(Entry)
        /\ Len(entries'[Hub]) = Len(entries[Hub]) + Len(block)
        /\ \A i \in 1..Len(entries[Hub]) : entries'[Hub][i] = entries[Hub][i]
        /\ \A i \in 1..Len(block) : entries'[Hub][Len(entries[Hub]) + i].node = block[i].node
    BY <1>1, <1>2, AppendCfgLogWhole
  <2>2. 1 \in 1..Len(block)
    BY <1>1
  <2>3. QED
    BY <1>1, <2>1, <2>2
<1>4. Proxys' = Proxys \cup {n} /\ n \notin Proxys
  BY DEF HandshakeAccepted, Proxys, TypeOK
<1>5. IsFiniteSet(Proxys)
  <2>1. Proxys \in SUBSET Node
    BY DEF Proxys
  <2>2. QED
    BY <2>1, NodeAssumption, FS_Subset
<1>6. Cardinality(Proxys') = Cardinality(Proxys) + 1
  BY <1>4, <1>5, FS_AddElement
<1>7. Len(entries[Hub]) \in Nat /\ DOMAIN entries[Hub] = 1..Len(entries[Hub])
  BY <1>1 DEF TypeOK
<1>8. DOMAIN entries'[Hub] = DOMAIN entries[Hub] \cup {Len(entries[Hub]) + 1}
  BY <1>3, <1>7
<1>9. {entries'[Hub][i].node : i \in DOMAIN entries'[Hub]}
        = {entries[Hub][i].node : i \in DOMAIN entries[Hub]} \cup {n}
  <2> DEFINE last == Len(entries[Hub]) + 1
  <2>1. /\ \A i \in DOMAIN entries[Hub] : entries'[Hub][i].node = entries[Hub][i].node
        /\ entries'[Hub][last].node = n
    BY <1>3, <1>7
  <2>2. DOMAIN entries'[Hub] = DOMAIN entries[Hub] \cup {last}
    BY <1>8
  <2> HIDE DEF last
  <2>3. QED
    BY ONLY <2>1, <2>2
<1>10. LogIsProxys'
  <2>1. Len(entries'[Hub]) = Cardinality(Proxys') + 1
    BY <1>2, <1>3, <1>5, <1>6, FS_CardinalityType DEF LogIsProxys
  <2>2. {entries'[Hub][i].node : i \in DOMAIN entries'[Hub]} = Proxys' \cup {Hub}
    BY <1>2, <1>4, <1>9 DEF LogIsProxys
  <2>3. QED
    BY <2>1, <2>2 DEF LogIsProxys
<1>11. QED
  BY <1>2, <1>3, <1>4, <1>10

\* What answering a message does to the queues: only the answering node's
\* change, and an acknowledgement bears the message's term.
LEMMA ReceiveAndReplyQueues ==
    ASSUME TypeOK, NEW n \in Node, down[n] # <<>>,
           NEW success \in BOOLEAN, NEW isheartbeat \in BOOLEAN,
           ReceiveAndReply(n, Head(down[n]), success, isheartbeat),
           success => ~Stale(n, Head(down[n]))
    PROVE  /\ \A x \in Node \ {n} : down'[x] = down[x] /\ up'[x] = up[x]
           /\ down'[n] = Tail(down[n])
           /\ currentTerm'[Hub] = currentTerm[Hub]
           /\ \/ up'[n] = up[n] /\ ~alive[Hub]
              \/ /\ alive[Hub]
                 /\ \E r \in AppendEntriesRMsg :
                      /\ up'[n] = Append(up[n], r)
                      /\ IsAck(r) <=> success /\ ~isheartbeat
                      /\ success => r.term = Head(down[n]).term
<1> DEFINE m == Head(down[n])
           reply == [term |-> NewTerm(n, m), success |-> success,
                     isheartbeat |-> isheartbeat]
<1>1. m.term \in Nat /\ n \in Server /\ Hub \in Server /\ n # Hub
  BY DownHead, HubAssumption DEF Server
<1>2. NewTerm(n, m) \in Nat /\ (success => NewTerm(n, m) = m.term)
  <2>1. currentTerm[n] \in Nat
    BY <1>1 DEF TypeOK
  <2> HIDE DEF m
  <2>2. QED
    BY <1>1, <2>1 DEF NewTerm, Stale, m
<1>3. /\ reply \in AppendEntriesRMsg /\ (IsAck(reply) <=> success /\ ~isheartbeat)
      /\ success => reply.term = m.term
  BY <1>2 DEF AppendEntriesRMsg, IsAck
<1>4. /\ up' = IF alive[Hub] THEN [up EXCEPT ![n] = Append(up[n], reply)] ELSE up
      /\ down' = [down EXCEPT ![n] = Tail(down[n])]
      /\ currentTerm' = [currentTerm EXCEPT ![n] = NewTerm(n, m)]
  BY DEF ReceiveAndReply
<1> HIDE DEF reply, m
<1>5. /\ \A x \in Node \ {n} : down'[x] = down[x] /\ up'[x] = up[x]
      /\ down'[n] = Tail(down[n])
      /\ up'[n] = IF alive[Hub] THEN Append(up[n], reply) ELSE up[n]
  BY <1>4 DEF TypeOK
<1>6. currentTerm'[Hub] = currentTerm[Hub]
  BY <1>1, <1>4 DEF TypeOK
<1>7. QED
  BY <1>3, <1>5, <1>6 DEF m

LEMMA NextSend == TypeOK /\ SendInv /\ [Next]_vars => SendInv'
<1> SUFFICES ASSUME TypeOK, SentToProxys, TermsSent, LogIsProxys, [Next]_vars
             PROVE  SentToProxys' /\ TermsSent' /\ LogIsProxys'
  BY DEF SendInv
<1>s. /\ Hub \in Server /\ Hub \notin Node /\ currentTerm[Hub] \in Nat
      /\ \A n \in Node : n \in Server /\ n # Hub
  BY HubAssumption DEF Server, TypeOK
<1>u. ASSUME \A x \in Node : Fewer(down'[x], down[x]) /\ Fewer(up'[x], up[x]),
             currentTerm'[Hub] \in Nat, currentTerm'[Hub] >= currentTerm[Hub]
      PROVE  TermsSent'
  <2>1. ASSUME NEW x \in Node
        PROVE  /\ \A i \in DOMAIN down'[x] : down'[x][i].term <= currentTerm'[Hub]
               /\ \A i \in DOMAIN up'[x] :
                     IsAck(up'[x][i]) => up'[x][i].term <= currentTerm'[Hub]
    BY <1>u, TermsKept
  <2>2. QED
    BY <2>1 DEF TermsSent
<1>1. ASSUME NEW n \in Node, HandshakeAccepted(n)
      PROVE  SentToProxys' /\ TermsSent' /\ LogIsProxys'
  <2> DEFINE block == <<[node |-> n, term |-> 0]>>
  <2>1. /\ block \in Seq(Entry) /\ AppendCfgLog(Hub, block, currentTerm[Hub])
    BY <1>1, <1>s DEF HandshakeAccepted, Entry, TypeOK
  <2> HIDE DEF block
  <2>2. entries'[Hub] \in Seq(Entry)
    BY <1>s, <2>1, AppendCfgLogEffect
  <2>3. /\ BroadCastAppendEntries(Proxys \cup {n}, entries'[Hub])
        /\ Proxys \cup {n} \in SUBSET Node
        /\ \A x \in Proxys \cup {n} : conn'[x] = "tied"
        /\ \A x \in Node : conn[x] = "tied" => conn'[x] = "tied"
        /\ UNCHANGED <<currentTerm, alive, up>>
    BY <1>1 DEF HandshakeAccepted, Proxys, TypeOK
  <2>4. SentToProxys' /\ TermsSent'
    BY <2>2, <2>3, SendBroadCast
  <2>5. LogIsProxys'
    <3>1. CASE putErrors' = 0
      BY <1>1, <3>1, LogIsProxysJoin
    <3>2. CASE putErrors' # 0
      BY <3>2 DEF LogIsProxys
    <3>3. QED
      BY <3>1, <3>2
  <2>6. QED
    BY <2>4, <2>5
<1>2. ASSUME SendAppendEntriesCallback
      PROVE  SentToProxys' /\ TermsSent' /\ LogIsProxys'
  <2>1. /\ entries[Hub] \in Seq(Entry) /\ Proxys \in SUBSET Node
        /\ BroadCastAppendEntries(Proxys, entries[Hub])
        /\ \A x \in Proxys : conn'[x] = "tied"
        /\ UNCHANGED <<currentTerm, alive, up, conn, entries, putErrors>>
    BY <1>2, <1>s DEF SendAppendEntriesCallback, Proxys, TypeOK, serverVars, proxyVars
  <2>2. SentToProxys' /\ TermsSent'
    BY <2>1, SendBroadCast
  <2>3. Proxys' = Proxys
    BY <2>1 DEF Proxys
  <2>4. QED
    BY <2>1, <2>2, <2>3, LogIsProxysKept
<1>3. ASSUME NEW n \in Node, down[n] # <<>>,
             NEW success \in BOOLEAN, NEW isheartbeat \in BOOLEAN,
             ReceiveAndReply(n, Head(down[n]), success, isheartbeat),
             success => ~Stale(n, Head(down[n])),
             UNCHANGED <<alive, conn>>, entries'[Hub] = entries[Hub],
             putErrors' = 0 => putErrors = 0
      PROVE  SentToProxys' /\ TermsSent' /\ LogIsProxys'
  <2>1. /\ \A x \in Node \ {n} : down'[x] = down[x] /\ up'[x] = up[x]
        /\ down'[n] = Tail(down[n])
        /\ currentTerm'[Hub] = currentTerm[Hub]
        /\ \/ up'[n] = up[n]
           \/ \E r \in AppendEntriesRMsg :
                 /\ up'[n] = Append(up[n], r)
                 /\ IsAck(r) <=> success /\ ~isheartbeat
                 /\ success => r.term = Head(down[n]).term
    BY <1>3, ReceiveAndReplyQueues
  <2>2. SentToProxys'
    BY <1>3, <2>1 DEF SentToProxys
  <2>3. ASSUME NEW x \in Node
        PROVE  /\ \A i \in DOMAIN down'[x] : down'[x][i].term <= currentTerm'[Hub]
               /\ \A i \in DOMAIN up'[x] :
                     IsAck(up'[x][i]) => up'[x][i].term <= currentTerm'[Hub]
    <3>1. Fewer(down'[x], down[x])
      BY <1>3, <2>1 DEF Fewer
    <3>2. /\ \A i \in DOMAIN down'[x] : down'[x][i].term <= currentTerm'[Hub]
          /\ Fewer(up'[x], up[x]) =>
                \A i \in DOMAIN up'[x] :
                   IsAck(up'[x][i]) => up'[x][i].term <= currentTerm'[Hub]
      BY <1>s, <2>1, <3>1, TermsKept
    <3>3. CASE up'[x] = up[x]
      BY <3>2, <3>3 DEF Fewer
    <3>4. CASE x = n /\ up'[n] # up[n]
      <4>1. PICK r \in AppendEntriesRMsg :
                 /\ up'[n] = Append(up[n], r)
                 /\ IsAck(r) <=> success /\ ~isheartbeat
                 /\ success => r.term = Head(down[n]).term
        BY <2>1, <3>4
      <4>2. up[n] \in Seq(AppendEntriesRMsg) /\ down[n] \in Seq(AppendEntriesQMsg)
        BY DEF TypeOK
      <4>3. Head(down[n]).term <= currentTerm[Hub]
        <5>1. 1 \in DOMAIN down[n] /\ Head(down[n]) = down[n][1]
          BY <1>3, <4>2
        <5>2. QED
          BY <5>1 DEF TermsSent
      <4>4. \A i \in DOMAIN up[n] : IsAck(up[n][i]) => up[n][i].term <= currentTerm[Hub]
        BY DEF TermsSent
      <4>5. \A i \in DOMAIN up'[n] : \/ i \in DOMAIN up[n] /\ up'[n][i] = up[n][i]
                                     \/ up'[n][i] = r
        BY <4>1, <4>2, AppendedAt
      <4>6. QED
        BY <2>1, <3>2, <3>4, <4>1, <4>3, <4>4, <4>5
    <3>5. QED
      BY <2>1, <3>2, <3>3, <3>4
  <2>4. TermsSent'
    BY <2>3 DEF TermsSent
  <2>5. Proxys' = Proxys
    BY <1>3 DEF Proxys
  <2>6. QED
    BY <1>3, <2>2, <2>4, <2>5, LogIsProxysKept
<1>4. ASSUME NEW n \in Node, RejectAppendEntries(n) \/ AcceptHeartbeat(n)
      PROVE  SentToProxys' /\ TermsSent' /\ LogIsProxys'
  BY <1>3, <1>4 DEF RejectAppendEntries, AcceptHeartbeat, FreshTime, proxyVars, histVars
<1>5. ASSUME NEW n \in Node, AcceptEntries(n)
      PROVE  SentToProxys' /\ TermsSent' /\ LogIsProxys'
  <2> DEFINE m == Head(down[n])
  <2>1. /\ down[n] # <<>> /\ ~Stale(n, m)
        /\ AppendCfgLog(n, m.entries, NewTerm(n, m))
        /\ ReceiveAndReply(n, m, TRUE, FALSE)
        /\ UNCHANGED <<alive, conn>>
    BY <1>5 DEF AcceptEntries, proxyVars
  <2>2. m.entries \in Seq(Entry) /\ NewTerm(n, m) \in Nat
    BY <1>s, <2>1, DownHead DEF NewTerm, TypeOK
  <2>3. entries'[Hub] = entries[Hub] /\ putErrors' >= putErrors /\ putErrors \in Nat
    <3> HIDE DEF m
    <3>1. QED
      BY <1>s, <2>1, <2>2, AppendCfgLogEffect DEF TypeOK
  <2>4. putErrors' = 0 => putErrors = 0
    BY <2>3
  <2>5. QED
    BY <1>3, <2>1, <2>3, <2>4
<1>6. ASSUME NEW n \in Node, StepDown(n)
      PROVE  SentToProxys' /\ TermsSent' /\ LogIsProxys'
  <2>1. /\ currentTerm[Hub] < Head(up[n]).term
        /\ currentTerm' = [currentTerm EXCEPT ![Hub] = Head(up[n]).term]
        /\ up[n] # <<>> /\ up' = [up EXCEPT ![n] = Tail(up[n])]
        /\ UNCHANGED <<down, alive, conn, entries, putErrors>>
    BY <1>6 DEF StepDown, proxyVars, histVars
  <2>2. Head(up[n]).term \in Nat
    BY <2>1, UpHead
  <2>3. currentTerm'[Hub] \in Nat /\ currentTerm'[Hub] >= currentTerm[Hub]
    BY <1>s, <2>1, <2>2 DEF TypeOK
  <2>4. \A x \in Node : Fewer(down'[x], down[x]) /\ Fewer(up'[x], up[x])
    BY <2>1 DEF TypeOK, Fewer
  <2>5. TermsSent'
    BY <1>u, <2>3, <2>4
  <2>6. SentToProxys' /\ Proxys' = Proxys
    BY <2>1 DEF SentToProxys, Proxys
  <2>7. QED
    BY <2>1, <2>5, <2>6, LogIsProxysKept
<1>7. ASSUME NEW n \in Node, HandleAppendEntriesR(n)
      PROVE  SentToProxys' /\ TermsSent' /\ LogIsProxys'
  <2>1. /\ up[n] # <<>> /\ up' = [up EXCEPT ![n] = Tail(up[n])]
        /\ UNCHANGED <<currentTerm, down, alive, conn, entries, putErrors>>
    BY <1>7 DEF HandleAppendEntriesR, histVars
  <2>2. \A x \in Node : Fewer(down'[x], down[x]) /\ Fewer(up'[x], up[x])
    BY <2>1 DEF TypeOK, Fewer
  <2>3. TermsSent'
    BY <1>s, <1>u, <2>1, <2>2
  <2>4. SentToProxys' /\ Proxys' = Proxys
    BY <2>1 DEF SentToProxys, Proxys
  <2>5. QED
    BY <2>1, <2>3, <2>4, LogIsProxysKept
<1>8. ASSUME NEW n \in Node, CrashNode(n)
      PROVE  SentToProxys' /\ TermsSent' /\ LogIsProxys'
  <2>1. /\ down' = [down EXCEPT ![n] = <<>>] /\ alive' = [alive EXCEPT ![n] = FALSE]
        /\ UNCHANGED <<currentTerm, conn, entries, putErrors>>
    BY <1>8 DEF CrashNode, proxyVars, histVars
  <2>2. PICK k \in 0..Len(up[n]) : up' = [up EXCEPT ![n] = SubSeq(up[n], 1, k)]
    BY <1>8 DEF CrashNode
  <2>3. \A x \in Node : Fewer(down'[x], down[x])
    BY <2>1 DEF TypeOK, Fewer
  <2>4. \A x \in Node : Fewer(up'[x], up[x])
    BY <2>2 DEF TypeOK, Fewer
  <2>5. TermsSent'
    BY <1>s, <1>u, <2>1, <2>3, <2>4
  <2>6. SentToProxys'
    BY <1>s, <2>1 DEF SentToProxys, TypeOK
  <2>7. Proxys' = Proxys
    BY <2>1 DEF Proxys
  <2>8. QED
    BY <2>1, <2>5, <2>6, <2>7, LogIsProxysKept
<1>9. ASSUME CrashHub
      PROVE  SentToProxys' /\ TermsSent' /\ LogIsProxys'
  <2>1. /\ up' = [x \in Node |-> <<>>] /\ alive' = [alive EXCEPT ![Hub] = FALSE]
        /\ UNCHANGED <<currentTerm, down, conn, entries, putErrors>>
    BY <1>9 DEF CrashHub, proxyVars, histVars
  <2>2. \A x \in Node : Fewer(down'[x], down[x]) /\ Fewer(up'[x], up[x])
    BY <2>1 DEF Fewer
  <2>3. TermsSent'
    BY <1>s, <1>u, <2>1, <2>2
  <2>4. SentToProxys'
    BY <1>s, <2>1 DEF SentToProxys, TypeOK
  <2>5. Proxys' = Proxys
    BY <2>1 DEF Proxys
  <2>6. QED
    BY <2>1, <2>3, <2>4, <2>5, LogIsProxysKept
<1>10. ASSUME NEW n \in Node, ConnectToPeer(n) \/ HandshakeRefused(n)
       PROVE  SentToProxys' /\ TermsSent' /\ LogIsProxys'
  <2>1. /\ UNCHANGED <<currentTerm, down, up, alive, entries, putErrors>>
        /\ conn[n] # "tied"
        /\ conn' = [conn EXCEPT ![n] = "handshake"] \/ conn' = [conn EXCEPT ![n] = "refused"]
    BY <1>10 DEF ConnectToPeer, HandshakeRefused, serverVars, netVars, histVars
  <2>2. SentToProxys'
    BY <2>1 DEF SentToProxys, TypeOK
  <2>3. TermsSent'
    BY <2>1 DEF TermsSent
  <2>4. Proxys' = Proxys
    BY <2>1 DEF Proxys, TypeOK
  <2>5. QED
    BY <2>1, <2>2, <2>3, <2>4, LogIsProxysKept
<1>11. ASSUME NEW n \in Node, HeartBeatTimeoutCallback(n)
       PROVE  SentToProxys' /\ TermsSent' /\ LogIsProxys'
  <2>1. /\ UNCHANGED <<down, up, alive, conn, entries, putErrors>>
        /\ currentTerm'[Hub] = currentTerm[Hub]
    BY <1>11, <1>s DEF HeartBeatTimeoutCallback, BecomeCandidate, TypeOK,
       proxyVars, netVars, histVars
  <2>2. QED
    BY <2>1 DEF SentToProxys, TermsSent, LogIsProxys, Proxys
<1>12. CASE UNCHANGED vars
  BY <1>12 DEF vars, serverVars, proxyVars, netVars, histVars,
     SentToProxys, TermsSent, LogIsProxys, Proxys
<1>13. QED
  BY <1>1, <1>2, <1>4, <1>5, <1>6, <1>7, <1>8, <1>9, <1>10, <1>11, <1>12
  DEF Next, NodeStep, HubStep

-----------------------------------------------------------------------------
(* A node's log.                                                           *)

\* The entries a node holds after p acknowledgements: the first is for two.
Size(p) == IF p = 0 THEN 0 ELSE p + 1

\* One log is a prefix of another, but for the terms.
IdsPrefix(short, log) ==
    /\ Len(short) <= Len(log)
    /\ \A i \in 1..Len(short) : short[i].node = log[i].node

\* A block of entries is the part of a log that a prefix of it lacks next.
Fits(short, log, block) ==
    /\ Len(block) = IF Len(short) = 0 THEN 2 ELSE 1
    /\ Len(short) + Len(block) <= Len(log)
    /\ \A j \in 1..Len(block) : block[j].node = log[Len(short) + j].node

InFlightFits(n) ==
    \A i \in DOMAIN down[n] :
        down[n][i].entries # <<>> => Fits(entries[n], entries[Hub], down[n][i].entries)

OneInFlight(n) ==
    \A i, j \in DOMAIN down[n] :
        down[n][i].entries # <<>> /\ down[n][j].entries # <<>> => i = j

\* While both run, the log is as long as its acknowledgements say.
AckedExactly(n) == alive[n] /\ alive[Hub] => Len(entries[n]) = Size(Promised(n))

NodeLog(n) == /\ InFlightFits(n) /\ OneInFlight(n) /\ AckedExactly(n)
              /\ IdsPrefix(entries[n], entries[Hub])

LogInv == \A n \in Node : putErrors = 0 /\ n \notin resent => NodeLog(n)

\* A longer log of the Hub has the same prefixes, and the same block is next.
LEMMA PrefixLonger ==
    ASSUME NEW short \in Seq(Entry), NEW log \in Seq(Entry), NEW longer \in Seq(Entry),
           IdsPrefix(short, log), IdsPrefix(log, longer)
    PROVE  IdsPrefix(short, longer)
<1>1. Len(short) \in Nat /\ Len(log) \in Nat /\ Len(longer) \in Nat
  OBVIOUS
<1>2. QED
  BY <1>1 DEF IdsPrefix

LEMMA FitsLonger ==
    ASSUME NEW short \in Seq(Entry), NEW log \in Seq(Entry), NEW longer \in Seq(Entry),
           NEW block \in Seq(Entry),
           Fits(short, log, block), IdsPrefix(log, longer)
    PROVE  Fits(short, longer, block)
<1>1. Len(short) \in Nat /\ Len(log) \in Nat /\ Len(longer) \in Nat /\ Len(block) \in Nat
  OBVIOUS
<1>2. /\ Len(block) = IF Len(short) = 0 THEN 2 ELSE 1
      /\ Len(short) + Len(block) <= Len(longer)
  BY <1>1 DEF Fits, IdsPrefix
<1>3. ASSUME NEW j \in 1..Len(block)
      PROVE  block[j].node = longer[Len(short) + j].node
  <2>1. Len(short) + j \in 1..Len(log)
    BY <1>1 DEF Fits
  <2>2. QED
    BY <2>1 DEF Fits, IdsPrefix
<1>4. QED
  BY <1>2, <1>3 DEF Fits

\* A prefix extended by what it lacks next is a prefix.
LEMMA PrefixExtended ==
    ASSUME NEW short \in Seq(Entry), NEW log \in Seq(Entry), NEW block \in Seq(Entry),
           NEW new \in Seq(Entry),
           Fits(short, log, block), IdsPrefix(short, log),
           Len(new) = Len(short) + Len(block),
           \A i \in 1..Len(short) : new[i] = short[i],
           \A i \in 1..Len(block) : new[Len(short) + i].node = block[i].node
    PROVE  IdsPrefix(new, log)
<1>1. Len(short) \in Nat /\ Len(log) \in Nat /\ Len(new) \in Nat /\ Len(block) \in Nat
  OBVIOUS
<1>2. ASSUME NEW i \in 1..Len(new) PROVE new[i].node = log[i].node
  <2>1. CASE i <= Len(short)
    <3>1. i \in 1..Len(short)
      BY <1>1, <2>1
    <3>2. QED
      BY <3>1 DEF IdsPrefix
  <2>2. CASE ~(i <= Len(short))
    <3>1. i - Len(short) \in 1..Len(block) /\ Len(short) + (i - Len(short)) = i
      BY <1>1, <2>2
    <3>2. QED
      BY <3>1 DEF Fits
  <2>3. QED
    BY <2>1, <2>2
<1>3. QED
  BY <1>1, <1>2 DEF Fits, IdsPrefix

\* What the Hub sends next is what the node lacks next, once all that was
\* sent before is counted.
LEMMA EntriesForFits ==
    ASSUME TypeOK, NextFollowsMatch, NEW n \in Node, NEW log \in Seq(Entry),
           EntriesFor(n, log) # <<>>, Len(entries[n]) = Size(matchIndex[n])
    PROVE  Fits(entries[n], log, EntriesFor(n, log))
<1>1. /\ matchIndex[n] \in Nat /\ nextIndex[n] = matchIndex[n] + 1 /\ Len(log) \in Nat
      /\ Len(entries[n]) \in Nat
  BY AckInvTypes DEF NextFollowsMatch
<1>2. ~(LastEntryIndex(log) < nextIndex[n])
  BY DEF EntriesFor
<1>3. Len(log) - 1 >= nextIndex[n]
  BY <1>1, <1>2 DEF LastEntryIndex
<1>4. CASE matchIndex[n] = 0
  <2> DEFINE block == <<log[1], log[2]>>
  <2>1. EntriesFor(n, log) = block /\ Len(entries[n]) = 0
    BY <1>1, <1>2, <1>4 DEF EntriesFor, Size
  <2>2. Len(block) = 2 /\ block[1] = log[0 + 1] /\ block[2] = log[0 + 2]
    OBVIOUS
  <2> HIDE DEF block
  <2>3. \A j \in 1..2 : j = 1 \/ j = 2
    OBVIOUS
  <2>4. \A j \in 1..Len(block) : block[j].node = log[0 + j].node
    BY <2>2, <2>3
  <2>5. QED
    BY <1>1, <1>3, <1>4, <2>1, <2>2, <2>4 DEF Fits
<1>5. CASE matchIndex[n] # 0
  <2> DEFINE block == <<log[nextIndex[n] + 1]>>
  <2>1. EntriesFor(n, log) = block /\ Len(entries[n]) = nextIndex[n] /\ nextIndex[n] > 1
    BY <1>1, <1>2, <1>5 DEF EntriesFor, Size
  <2>2. Len(block) = 1 /\ block[1] = log[nextIndex[n] + 1]
    OBVIOUS
  <2> HIDE DEF block
  <2>3. \A j \in 1..Len(block) : block[j].node = log[nextIndex[n] + j].node
    BY <2>2
  <2>4. QED
    BY <1>1, <1>3, <1>5, <2>1, <2>2, <2>3 DEF Fits
<1>6. QED
  BY <1>4, <1>5

\* The entries of a message on its way.
LEMMA DownEntries ==
    ASSUME TypeOK, NEW n \in Node, NEW i \in DOMAIN down[n]
    PROVE  /\ i \in Nat /\ down[n][i] \in AppendEntriesQMsg
           /\ down[n][i].entries \in Seq(Entry) /\ Len(down[n][i].entries) \in Nat
           /\ down[n][i].prelogindex \in Nat /\ down[n][i].leadercommit \in Nat
<1>1. down[n] \in Seq(AppendEntriesQMsg)
  BY DEF TypeOK
<1>2. i \in Nat /\ down[n][i] \in AppendEntriesQMsg
  BY <1>1
<1>3. QED
  BY <1>2 DEF AppendEntriesQMsg

\* A step that only takes messages and lets the Hub's log grow keeps NodeLog.
LEMMA NodeLogKept ==
    ASSUME TypeOK, TypeOK', NEW x \in Node, NodeLog(x),
           Fewer(down'[x], down[x]), entries'[x] = entries[x],
           IdsPrefix(entries[Hub], entries'[Hub]),
           alive'[x] /\ alive'[Hub] => /\ alive[x] /\ alive[Hub]
                                      /\ Promised(x)' = Promised(x)
    PROVE  NodeLog(x)'
<1>1. /\ entries[x] \in Seq(Entry) /\ entries[Hub] \in Seq(Entry)
      /\ entries'[Hub] \in Seq(Entry)
  BY DEF TypeOK, Server
<1>2. PICK d \in Nat : \A i \in DOMAIN down'[x] : /\ i \in Nat /\ i + d \in DOMAIN down[x]
                                                /\ down'[x][i] = down[x][i + d]
  BY DownShifts
<1>3. ASSUME NEW i \in DOMAIN down'[x], down'[x][i].entries # <<>>
      PROVE  Fits(entries'[x], entries'[Hub], down'[x][i].entries)
  <2>1. i + d \in DOMAIN down[x] /\ down'[x][i] = down[x][i + d]
    BY <1>2
  <2>2. /\ down[x][i + d].entries \in Seq(Entry)
        /\ Fits(entries[x], entries[Hub], down[x][i + d].entries)
    BY <1>3, <2>1, DownEntries DEF NodeLog, InFlightFits
  <2>3. Fits(entries[x], entries'[Hub], down[x][i + d].entries)
    BY <1>1, <2>2, FitsLonger
  <2>4. QED
    BY <2>1, <2>3
<1>4. ASSUME NEW i \in DOMAIN down'[x], NEW j \in DOMAIN down'[x],
             down'[x][i].entries # <<>>, down'[x][j].entries # <<>>
      PROVE  i = j
  <2>1. i + d = j + d
    BY <1>2, <1>4 DEF NodeLog, OneInFlight
  <2>2. i \in Nat /\ j \in Nat
    BY <1>2
  <2>3. QED
    BY <2>1, <2>2
<1>5. IdsPrefix(entries'[x], entries'[Hub])
  BY <1>1, PrefixLonger DEF NodeLog
<1>6. AckedExactly(x)'
  BY DEF NodeLog, AckedExactly
<1>7. InFlightFits(x)' /\ OneInFlight(x)'
  BY <1>3, <1>4 DEF InFlightFits, OneInFlight
<1>8. QED
  BY <1>5, <1>6, <1>7 DEF NodeLog

\* A broadcast that does not repeat an unanswered entry keeps NodeLog.
LEMMA NodeLogBroadCast ==
    ASSUME TypeOK, TypeOK', NextFollowsMatch, NEW x \in Node, NodeLog(x), alive[Hub],
           NEW proxys \in SUBSET Node, BroadCastAppendEntries(proxys, entries'[Hub]),
           x \notin resent', entries'[x] = entries[x],
           IdsPrefix(entries[Hub], entries'[Hub]), UNCHANGED <<alive, matchIndex, up>>
    PROVE  NodeLog(x)'
<1> DEFINE log == entries'[Hub]
           e == SendAppendEntries(x, log)
<1>1. entries[x] \in Seq(Entry) /\ entries[Hub] \in Seq(Entry) /\ log \in Seq(Entry)
  BY DEF TypeOK, Server
<1>2. /\ down[x] \in Seq(AppendEntriesQMsg) /\ e \in AppendEntriesQMsg
      /\ \/ down'[x] = down[x]
         \/ /\ alive[x] /\ down'[x] = Append(down[x], e)
            /\ EntriesFor(x, log) = <<>> \/ ~Unanswered(x)
  BY <1>1, BroadCastSends
<1>3. Promised(x)' = Promised(x)
  BY DEF Promised
<1>4. CASE down'[x] = down[x]
  <2>1. Fewer(down'[x], down[x])
    BY <1>4 DEF Fewer
  <2>2. QED
    BY <1>3, <2>1, NodeLogKept
<1>5. CASE /\ alive[x] /\ down'[x] = Append(down[x], e)
           /\ EntriesFor(x, log) = <<>> \/ ~Unanswered(x)
  <2>1. e.entries = EntriesFor(x, log)
    BY DEF SendAppendEntries
  <2>2. ASSUME EntriesFor(x, log) # <<>> PROVE Fits(entries[x], log, e.entries)
    <3>1. Acks(up[x]) = {}
      BY <1>5, <2>2 DEF Acks, Unanswered
    <3>2. AckCount(up[x]) = 0
      BY <3>1, FS_EmptySet DEF AckCount
    <3>3. Promised(x) = matchIndex[x]
      BY <3>2, AckInvTypes DEF Promised
    <3>4. Len(entries[x]) = Size(matchIndex[x])
      BY <1>5, <3>3 DEF NodeLog, AckedExactly
    <3>5. QED
      BY <1>1, <2>1, <2>2, <3>4, EntriesForFits
  <2>3. ASSUME EntriesFor(x, log) # <<>>, NEW i \in DOMAIN down[x]
        PROVE  down[x][i].entries = <<>>
    BY <1>5, <2>3 DEF Unanswered
  <2> HIDE DEF e, log
  <2>4. /\ Len(down[x]) \in Nat
        /\ \A i \in DOMAIN down'[x] : \/ i \in DOMAIN down[x] /\ down'[x][i] = down[x][i]
                                      \/ i = Len(down[x]) + 1 /\ down'[x][i] = e
    BY <1>2, <1>5, AppendedAt
  <2>5. ASSUME NEW i \in DOMAIN down'[x], down'[x][i].entries # <<>>
        PROVE  Fits(entries'[x], log, down'[x][i].entries)
    <3>1. CASE i \in DOMAIN down[x] /\ down'[x][i] = down[x][i]
      <4>1. /\ down[x][i].entries \in Seq(Entry)
            /\ Fits(entries[x], entries[Hub], down[x][i].entries)
        BY <2>5, <3>1, DownEntries DEF NodeLog, InFlightFits
      <4>2. Fits(entries[x], log, down[x][i].entries)
        BY <1>1, <4>1, FitsLonger DEF log
      <4>3. QED
        BY <3>1, <4>2
    <3>2. CASE down'[x][i] = e
      BY <2>1, <2>2, <2>5, <3>2
    <3>3. QED
      BY <2>4, <3>1, <3>2
  <2>6. ASSUME NEW i \in DOMAIN down'[x], NEW j \in DOMAIN down'[x],
               down'[x][i].entries # <<>>, down'[x][j].entries # <<>>
        PROVE  i = j
    <3>1. CASE EntriesFor(x, log) = <<>>
      <4>1. /\ i \in DOMAIN down[x] /\ down'[x][i] = down[x][i]
            /\ j \in DOMAIN down[x] /\ down'[x][j] = down[x][j]
        BY <2>1, <2>4, <2>6, <3>1
      <4>2. QED
        BY <2>6, <4>1 DEF NodeLog, OneInFlight
    <3>2. CASE EntriesFor(x, log) # <<>>
      <4>1. i = Len(down[x]) + 1 /\ j = Len(down[x]) + 1
        BY <2>3, <2>4, <2>6, <3>2
      <4>2. QED
        BY <4>1
    <3>3. QED
      BY <3>1, <3>2
  <2>7. IdsPrefix(entries'[x], entries'[Hub])
    BY <1>1, PrefixLonger DEF NodeLog, log
  <2>8. AckedExactly(x)'
    BY <1>3 DEF NodeLog, AckedExactly
  <2>9. InFlightFits(x)' /\ OneInFlight(x)'
    BY <2>5, <2>6 DEF InFlightFits, OneInFlight, log
  <2>10. QED
    BY <2>7, <2>8, <2>9 DEF NodeLog
<1>6. QED
  BY <1>2, <1>4, <1>5

LEMMA PrefixRefl == ASSUME NEW log \in Seq(Entry) PROVE IdsPrefix(log, log)
<1>1. Len(log) \in Nat
  OBVIOUS
<1>2. QED
  BY <1>1 DEF IdsPrefix

\* Taking a reply counts it, if it is an acknowledgement, once.
LEMMA ReplyCounted ==
    ASSUME TypeOK, NEW n \in Node, HandleAppendEntriesR(n), NEW x \in Node
    PROVE  Promised(x)' = Promised(x)
<1>1. /\ up[n] # <<>> /\ up' = [up EXCEPT ![n] = Tail(up[n])]
      /\ IF IsAck(Head(up[n]))
         THEN matchIndex' = [matchIndex EXCEPT ![n] = matchIndex[n] + 1]
         ELSE matchIndex' = matchIndex
  BY DEF HandleAppendEntriesR, IncrIndexes
<1>2. CASE x # n
  BY <1>1, <1>2 DEF Promised, TypeOK
<1>3. CASE x = n
  <2>1. AckCount(up[n]) = IF IsAck(Head(up[n])) THEN AckCount(Tail(up[n])) + 1
                                                ELSE AckCount(Tail(up[n]))
    BY <1>1, AckCountTail DEF TypeOK
  <2>2. AckCount(Tail(up[n])) \in Nat /\ matchIndex[n] \in Nat
    BY <1>1, UpHead, AckCountType, AckInvTypes
  <2>3. /\ up'[n] = Tail(up[n])
        /\ matchIndex'[n] = IF IsAck(Head(up[n])) THEN matchIndex[n] + 1 ELSE matchIndex[n]
    BY <1>1 DEF TypeOK
  <2>4. matchIndex'[n] + AckCount(up'[n]) = matchIndex[n] + AckCount(up[n])
    BY <2>1, <2>2, <2>3
  <2>5. QED
    BY <1>3, <2>4 DEF Promised
<1>4. QED
  BY <1>2, <1>3

\* A node that takes a block it lacks next holds a longer prefix, and has
\* acknowledged exactly that.
LEMMA NodeLogAccept ==
    ASSUME TypeOK, TypeOK', NEW n \in Node, AcceptEntries(n), NodeLog(n),
           putErrors' = 0, putErrors = 0
    PROVE  NodeLog(n)'
<1> DEFINE m == Head(down[n])
           b == m.entries
<1>s. n \in Server /\ Hub \in Server /\ n # Hub
  BY HubAssumption DEF Server
<1>1. /\ down[n] # <<>> /\ b # <<>> /\ ~Stale(n, m)
      /\ AppendCfgLog(n, b, NewTerm(n, m))
      /\ ReceiveAndReply(n, m, TRUE, FALSE)
      /\ UNCHANGED <<alive, matchIndex>>
  BY DEF AcceptEntries, proxyVars
<1>2. b \in Seq(Entry) /\ NewTerm(n, m) \in Nat /\ down[n] \in Seq(AppendEntriesQMsg)
  BY <1>1, <1>s, DownHead DEF NewTerm, TypeOK
<1>3. 1 \in DOMAIN down[n] /\ m = down[n][1]
  BY <1>1, <1>2
<1>4. Fits(entries[n], entries[Hub], b)
  BY <1>1, <1>3 DEF NodeLog, InFlightFits
<1>5. /\ down'[n] = Tail(down[n])
      /\ \/ up'[n] = up[n] /\ ~alive[Hub]
         \/ \E r \in AppendEntriesRMsg : up'[n] = Append(up[n], r) /\ IsAck(r)
  BY <1>1, ReceiveAndReplyQueues
<1>6. ASSUME NEW i \in DOMAIN down'[n] PROVE down'[n][i].entries = <<>>
  <2>1. i \in Nat /\ i + 1 \in DOMAIN down[n] /\ down'[n][i] = down[n][i + 1] /\ i + 1 # 1
    BY <1>1, <1>2, <1>5
  <2>2. QED
    BY <1>1, <1>3, <2>1 DEF NodeLog, OneInFlight
<1>7. InFlightFits(n)' /\ OneInFlight(n)'
  BY <1>6 DEF InFlightFits, OneInFlight
<1> HIDE DEF m, b
<1>8. /\ entries'[n] \in Seq(Entry)
      /\ Len(entries'[n]) = Len(entries[n]) + Len(b)
      /\ \A i \in 1..Len(entries[n]) : entries'[n][i] = entries[n][i]
      /\ \A i \in 1..Len(b) : entries'[n][Len(entries[n]) + i].node = b[i].node
      /\ entries'[Hub] = entries[Hub]
  BY <1>1, <1>2, <1>s, AppendCfgLogWhole, AppendCfgLogEffect
<1>9. IdsPrefix(entries'[n], entries'[Hub])
  <2>1. entries[n] \in Seq(Entry) /\ entries[Hub] \in Seq(Entry)
    BY <1>s DEF TypeOK
  <2>2. IdsPrefix(entries[n], entries[Hub])
    BY DEF NodeLog
  <2>3. IdsPrefix(entries'[n], entries[Hub])
    BY <1>2, <1>4, <1>8, <2>1, <2>2, PrefixExtended
  <2>4. QED
    BY <1>8, <2>3
<1>10. AckedExactly(n)'
  <2> SUFFICES ASSUME alive[n], alive[Hub] PROVE Len(entries'[n]) = Size(Promised(n)')
    BY <1>1 DEF AckedExactly
  <2>1. AckCount(up'[n]) = AckCount(up[n]) + 1
    <3>1. PICK r \in AppendEntriesRMsg : up'[n] = Append(up[n], r) /\ IsAck(r)
      BY <1>5
    <3>2. AckCount(Append(up[n], r)) = AckCount(up[n]) + 1
      BY <3>1, AckCountAppend DEF TypeOK
    <3>3. QED
      BY <3>1, <3>2
  <2>2. Promised(n) \in Nat /\ Promised(n)' = Promised(n) + 1
    BY <1>1, <2>1, AckInvTypes DEF Promised
  <2>3. Len(entries[n]) = Size(Promised(n))
    BY DEF NodeLog, AckedExactly
  <2>4. Len(b) = IF Len(entries[n]) = 0 THEN 2 ELSE 1
    BY <1>4 DEF Fits
  <2>5. QED
    BY <1>8, <2>2, <2>3, <2>4 DEF Size
<1>11. QED
  BY <1>7, <1>9, <1>10 DEF NodeLog

LEMMA NextLog == TypeOK /\ AckInv /\ SendInv /\ LogInv /\ [Next]_vars => LogInv'
<1> SUFFICES ASSUME TypeOK, NextFollowsMatch, SendInv, LogInv, [Next]_vars,
                    NEW x \in Node, putErrors' = 0, x \notin resent'
             PROVE  NodeLog(x)'
  BY DEF LogInv, AckInv
<1>t. TypeOK'
  BY NextTypeOK
<1>s. /\ Hub \in Server /\ Hub \notin Node /\ putErrors \in Nat
      /\ \A n \in Node : n \in Server /\ n # Hub
      /\ entries[Hub] \in Seq(Entry) /\ IdsPrefix(entries[Hub], entries[Hub])
  BY HubAssumption, PrefixRefl DEF Server, TypeOK
<1>l. ASSUME putErrors = 0, x \notin resent PROVE NodeLog(x)
  BY <1>l DEF LogInv
<1>k. ASSUME Fewer(down'[x], down[x]), entries'[x] = entries[x], entries'[Hub] = entries[Hub],
             putErrors' = putErrors, resent' = resent,
             alive'[x] /\ alive'[Hub] => /\ alive[x] /\ alive[Hub]
                                        /\ Promised(x)' = Promised(x)
      PROVE  NodeLog(x)'
  BY <1>k, <1>l, <1>s, <1>t, NodeLogKept
<1>1. ASSUME NEW n \in Node, HandshakeAccepted(n) PROVE NodeLog(x)'
  <2>1. /\ putErrors = 0
        /\ entries'[Hub] \in Seq(Entry) /\ Len(entries'[Hub]) = Len(entries[Hub]) + 1
        /\ \A i \in 1..Len(entries[Hub]) : entries'[Hub][i] = entries[Hub][i]
    BY <1>1, LogIsProxysJoin DEF SendInv
  <2>2. IdsPrefix(entries[Hub], entries'[Hub])
    BY <1>s, <2>1 DEF IdsPrefix
  <2>3. entries'[x] = entries[x]
    BY <1>1, <1>s DEF HandshakeAccepted, AppendCfgLog, TypeOK
  <2>4. /\ BroadCastAppendEntries(Proxys \cup {n}, entries'[Hub]) /\ alive[Hub]
        /\ Proxys \cup {n} \in SUBSET Node /\ UNCHANGED <<alive, matchIndex, up>>
    BY <1>1 DEF HandshakeAccepted, Proxys
  <2>5. x \notin resent
    BY <2>1, <2>4, BroadCastSends
  <2>6. QED
    BY <1>l, <1>t, <2>1, <2>2, <2>3, <2>4, <2>5, NodeLogBroadCast
<1>2. ASSUME SendAppendEntriesCallback PROVE NodeLog(x)'
  <2>1. /\ BroadCastAppendEntries(Proxys, entries[Hub]) /\ alive[Hub]
        /\ Proxys \in SUBSET Node
        /\ UNCHANGED <<alive, matchIndex, up, entries, putErrors>>
    BY <1>2 DEF SendAppendEntriesCallback, Proxys, serverVars, proxyVars
  <2>2. x \notin resent
    BY <1>s, <2>1, BroadCastSends
  <2>3. QED
    BY <1>l, <1>s, <1>t, <2>1, <2>2, NodeLogBroadCast
<1>3. ASSUME NEW n \in Node, down[n] # <<>>,
             NEW success \in BOOLEAN, NEW isheartbeat \in BOOLEAN,
             ReceiveAndReply(n, Head(down[n]), success, isheartbeat),
             ~success \/ isheartbeat,
             UNCHANGED <<alive, matchIndex, entries, putErrors, resent>>
      PROVE  NodeLog(x)'
  <2>1. /\ \A y \in Node \ {n} : up'[y] = up[y]
        /\ AckCount(up'[n]) = AckCount(up[n])
        /\ \A y \in Node : down'[y] = down[y] \/ (down[y] # <<>> /\ down'[y] = Tail(down[y]))
    BY <1>3, ReceiveAndReplyCount
  <2>2. Promised(x)' = Promised(x)
    BY <1>3, <2>1 DEF Promised
  <2>3. Fewer(down'[x], down[x])
    BY <2>1 DEF Fewer
  <2>4. QED
    BY <1>3, <1>k, <2>2, <2>3
<1>4. ASSUME NEW n \in Node, RejectAppendEntries(n) \/ AcceptHeartbeat(n)
      PROVE  NodeLog(x)'
  BY <1>3, <1>4 DEF RejectAppendEntries, AcceptHeartbeat, FreshTime, proxyVars, histVars
<1>5. ASSUME NEW n \in Node, AcceptEntries(n) PROVE NodeLog(x)'
  <2> DEFINE m == Head(down[n])
  <2>1. /\ down[n] # <<>> /\ ~Stale(n, m)
        /\ AppendCfgLog(n, m.entries, NewTerm(n, m))
        /\ ReceiveAndReply(n, m, TRUE, FALSE)
        /\ UNCHANGED <<alive, matchIndex, resent>>
    BY <1>5 DEF AcceptEntries, proxyVars
  <2>2. m.entries \in Seq(Entry) /\ NewTerm(n, m) \in Nat
    BY <1>s, <2>1, DownHead DEF NewTerm, TypeOK
  <2>3. putErrors = 0 /\ \A y \in Server \ {n} : entries'[y] = entries[y]
    <3> HIDE DEF m
    <3>1. putErrors' >= putErrors /\ \A y \in Server \ {n} : entries'[y] = entries[y]
      BY <1>s, <2>1, <2>2, AppendCfgLogEffect
    <3>2. QED
      BY <1>s, <3>1
  <2>4. CASE x = n
    BY <1>5, <1>l, <1>t, <2>1, <2>3, <2>4, NodeLogAccept
  <2>5. CASE x # n
    <3>1. down'[x] = down[x] /\ up'[x] = up[x]
      BY <2>1, <2>5, ReceiveAndReplyQueues
    <3>2. Fewer(down'[x], down[x]) /\ Promised(x)' = Promised(x)
      BY <2>1, <3>1 DEF Fewer, Promised
    <3>3. QED
      BY <1>k, <1>s, <2>1, <2>3, <2>5, <3>2
  <2>6. QED
    BY <2>4, <2>5
<1>6. ASSUME NEW n \in Node, StepDown(n) PROVE NodeLog(x)'
  <2>1. /\ currentTerm[Hub] < Head(up[n]).term
        /\ up[n] # <<>> /\ up' = [up EXCEPT ![n] = Tail(up[n])]
        /\ UNCHANGED <<matchIndex, down, alive, entries, putErrors, resent>>
    BY <1>6 DEF StepDown, proxyVars, histVars
  <2>2. up[n] \in Seq(AppendEntriesRMsg) /\ currentTerm[Hub] \in Nat
    BY <1>s DEF TypeOK
  <2>3. ~IsAck(Head(up[n]))
    <3>1. 1 \in DOMAIN up[n] /\ Head(up[n]) = up[n][1] /\ Head(up[n]).term \in Nat
      BY <2>1, <2>2, UpHead
    <3>2. IsAck(up[n][1]) => up[n][1].term <= currentTerm[Hub]
      BY <3>1 DEF SendInv, TermsSent
    <3>3. QED
      BY <2>1, <2>2, <3>1, <3>2
  <2>4. AckCount(Tail(up[n])) = AckCount(up[n])
    BY <2>1, <2>2, <2>3, AckCountTail
  <2>5. Promised(x)' = Promised(x)
    BY <2>1, <2>4 DEF Promised, TypeOK
  <2>6. QED
    BY <1>k, <2>1, <2>5 DEF Fewer
<1>7. ASSUME NEW n \in Node, HandleAppendEntriesR(n) PROVE NodeLog(x)'
  <2>1. UNCHANGED <<down, alive, entries, putErrors, resent>>
    BY <1>7 DEF HandleAppendEntriesR, histVars
  <2>2. Promised(x)' = Promised(x)
    BY <1>7, ReplyCounted
  <2>3. QED
    BY <1>k, <2>1, <2>2 DEF Fewer
<1>8. ASSUME NEW n \in Node, CrashNode(n) PROVE NodeLog(x)'
  <2>1. /\ down' = [down EXCEPT ![n] = <<>>] /\ alive' = [alive EXCEPT ![n] = FALSE]
        /\ UNCHANGED <<matchIndex, entries, putErrors, resent>>
    BY <1>8 DEF CrashNode, proxyVars, histVars
  <2>2. x # n => up'[x] = up[x]
    BY <1>8 DEF CrashNode, TypeOK
  <2>3. Fewer(down'[x], down[x])
    BY <2>1 DEF TypeOK, Fewer
  <2>4. alive'[x] /\ alive'[Hub] => x # n /\ alive[x] /\ alive[Hub]
    BY <1>s, <2>1 DEF TypeOK
  <2>5. x # n => Promised(x)' = Promised(x)
    BY <2>1, <2>2 DEF Promised
  <2>6. QED
    BY <1>k, <2>1, <2>3, <2>4, <2>5
<1>9. ASSUME CrashHub PROVE NodeLog(x)'
  <2>1. /\ ~alive'[Hub] /\ UNCHANGED <<matchIndex, down, entries, putErrors, resent>>
    BY <1>9, <1>s DEF CrashHub, proxyVars, histVars, TypeOK
  <2>2. QED
    BY <1>k, <2>1 DEF Fewer
<1>10. ASSUME NEW n \in Node,
              ConnectToPeer(n) \/ HandshakeRefused(n) \/ HeartBeatTimeoutCallback(n)
       PROVE  NodeLog(x)'
  <2>1. UNCHANGED <<matchIndex, up, down, alive, entries, putErrors, resent>>
    BY <1>10 DEF ConnectToPeer, HandshakeRefused, HeartBeatTimeoutCallback,
       serverVars, proxyVars, netVars, histVars
  <2>2. QED
    BY <1>k, <2>1 DEF Fewer, Promised
<1>11. CASE UNCHANGED vars
  <2>1. UNCHANGED <<matchIndex, up, down, alive, entries, putErrors, resent>>
    BY <1>11 DEF vars, serverVars, proxyVars, netVars, histVars
  <2>2. QED
    BY <1>k, <2>1 DEF Fewer, Promised
<1>12. QED
  BY <1>1, <1>2, <1>4, <1>5, <1>6, <1>7, <1>8, <1>9, <1>10, <1>11
  DEF Next, NodeStep, HubStep

\* Prefixes as LogPrefix states them.
LEMMA PrefixIsSubSeq ==
    ASSUME NEW short \in Seq(Entry), NEW log \in Seq(Entry), IdsPrefix(short, log)
    PROVE  Ids(short) = SubSeq(Ids(log), 1, Len(short))
<1>1. /\ Len(short) \in Nat /\ Len(log) \in Nat /\ Len(short) <= Len(log)
      /\ DOMAIN short = 1..Len(short) /\ DOMAIN log = 1..Len(log)
      /\ \A i \in 1..Len(short) : short[i].node = log[i].node
  BY DEF IdsPrefix
<1> DEFINE ids == Ids(log)
<1>2. ids = [i \in 1..Len(log) |-> log[i].node]
  BY <1>1 DEF Ids
<1>3. ASSUME NEW i \in 1..Len(log) PROVE log[i].node \in Server
  <2>1. log[i] \in Entry
    OBVIOUS
  <2>2. QED
    BY <2>1 DEF Entry
<1>4. ids \in [1..Len(log) -> Server]
  BY <1>2, <1>3
<1>5. ids \in Seq(Server) /\ Len(ids) = Len(log)
  BY <1>1, <1>4, SeqDef
<1> DEFINE sub == SubSeq(ids, 1, Len(short))
<1>6. /\ DOMAIN sub = 1..Len(short) /\ \A i \in 1..Len(short) : sub[i] = ids[i]
      /\ sub \in Seq(Server) /\ Len(sub) = Len(short)
  <2> HIDE DEF ids
  <2>1. QED
    BY <1>1, <1>5
<1>7. \A i \in 1..Len(short) : ids[i] = short[i].node
  BY <1>1, <1>2
<1>8. Ids(short) = [i \in 1..Len(short) |-> short[i].node]
  BY <1>1 DEF Ids
<1> HIDE DEF sub, ids
<1>9. sub = [i \in 1..Len(short) |-> sub[i]]
  BY <1>6
<1>10. QED
  BY <1>6, <1>7, <1>8, <1>9 DEF sub, ids

\* SendInv and LogInv hold in every reachable state.
LEMMA LogInvariant == Spec => [](SendInv /\ LogInv /\ AckInv)
<1>1. Init => SendInv
  <2> SUFFICES ASSUME Init PROVE SendInv
    OBVIOUS
  <2>1. Proxys = {}
    BY DEF Init, Proxys
  <2>2. putErrors = 0 => entries[Hub] = <<[node |-> Hub, term |-> 0]>>
    BY InitLogs
  <2>3. putErrors = 0 => Len(entries[Hub]) = Cardinality(Proxys) + 1
    <3>1. Len(<<[node |-> Hub, term |-> 0]>>) = 1 /\ Cardinality(Proxys) = 0
      BY <2>1, FS_EmptySet
    <3>2. QED
      BY <2>2, <3>1
  <2>4. putErrors = 0 => {entries[Hub][i].node : i \in DOMAIN entries[Hub]} = Proxys \cup {Hub}
    <3>1. putErrors = 0 => DOMAIN entries[Hub] = {1} /\ entries[Hub][1].node = Hub
      BY <2>2
    <3>2. QED
      BY <2>1, <3>1
  <2>5. SentToProxys /\ TermsSent
    BY DEF Init, SentToProxys, TermsSent
  <2>6. QED
    BY <2>3, <2>4, <2>5 DEF SendInv, LogIsProxys
<1>2. Init => LogInv
  <2> SUFFICES ASSUME Init, NEW n \in Node PROVE NodeLog(n)
    BY DEF LogInv
  <2>1. /\ down[n] = <<>> /\ up[n] = <<>> /\ entries[n] = <<>> /\ matchIndex[n] = 0
        /\ entries[Hub] \in Seq(Entry)
    BY InitLogs DEF Init, Server
  <2>2. Promised(n) = 0
    BY <2>1, AckCountEmpty DEF Promised
  <2>3. InFlightFits(n) /\ OneInFlight(n)
    BY <2>1 DEF InFlightFits, OneInFlight
  <2>4. AckedExactly(n)
    BY <2>1, <2>2 DEF AckedExactly, Size
  <2>5. IdsPrefix(entries[n], entries[Hub])
    BY <2>1 DEF IdsPrefix
  <2>6. QED
    BY <2>3, <2>4, <2>5 DEF NodeLog
<1>3. Init => AckInv
  BY AckCountEmpty DEF Init, AckInv, NextFollowsMatch, SinglesAfterFirst,
     RepliesCovered, Promised
<1>4. QED
  BY <1>1, <1>2, <1>3, NextAck, NextSend, NextLog, TypeCorrect, PTL DEF Spec

\* For any cluster: unless a write failed or an entry was sent again before it
\* was answered, a node's log is a prefix of the Hub's, although the node
\* appends every block at its end and the Hub only counts replies.
THEOREM LogsArePrefixes == Spec => []LogPrefix
<1>1. TypeOK /\ LogInv => LogPrefix
  <2> SUFFICES ASSUME TypeOK, LogInv, putErrors = 0, NEW n \in Node \ resent
               PROVE  /\ Len(entries[n]) <= Len(entries[Hub])
                      /\ Ids(entries[n]) = SubSeq(Ids(entries[Hub]), 1, Len(entries[n]))
    BY DEF LogPrefix
  <2>1. entries[n] \in Seq(Entry) /\ entries[Hub] \in Seq(Entry)
    BY DEF TypeOK, Server
  <2>2. IdsPrefix(entries[n], entries[Hub])
    BY DEF LogInv, NodeLog
  <2>3. QED
    BY <2>1, <2>2, PrefixIsSubSeq DEF IdsPrefix
<1>2. QED
  BY <1>1, LogInvariant, TypeCorrect, PTL

-----------------------------------------------------------------------------
(* A node's commit index.                                                  *)

\* The last index a message is about, as the receiver reckons it, and the
\* commit index it may give the receiver.
LastNew(m) == m.prelogindex + Len(m.entries)
Told(m) == IF m.leadercommit < LastNew(m) THEN m.leadercommit ELSE LastNew(m)

\* No message to n from now on is about a smaller index than this.
ReachOf(match, last) ==
    IF match = 0 THEN IF last >= 2 THEN 2 ELSE last
    ELSE IF last > match THEN match + 1 ELSE match
Reach(n) == ReachOf(matchIndex[n], LastEntryIndex(entries[Hub]))

\* The Hub commits nothing that no proxy has acknowledged.
SomeoneAcked ==
    commitIndex[Hub] > 0 => \E n \in Proxys : matchIndex[n] >= commitIndex[Hub]

\* What a message, or a message before it, has told a node is within what any
\* later message is about.
ToldInOrder(n) ==
    /\ commitIndex[n] <= Reach(n)
    /\ \A i \in DOMAIN down[n] : /\ commitIndex[n] <= LastNew(down[n][i])
                                 /\ Told(down[n][i]) <= Reach(n)
    /\ \A i, j \in DOMAIN down[n] : i < j => Told(down[n][i]) <= LastNew(down[n][j])

ToldInv == SomeoneAcked /\ (putErrors = 0 => \A n \in Node : ToldInOrder(n))

LEMMA ReachGrows ==
    ASSUME NEW match \in Nat, NEW last \in Nat, NEW match2 \in {match, match + 1},
           NEW last2 \in Nat, last2 >= last
    PROVE  /\ ReachOf(match, last) \in Nat /\ ReachOf(match2, last2) \in Nat
           /\ ReachOf(match, last) <= ReachOf(match2, last2)
  BY DEF ReachOf

LEMMA LastGrows ==
    ASSUME NEW log \in Seq(Entry), NEW longer \in Seq(Entry), Len(longer) >= Len(log)
    PROVE  /\ LastEntryIndex(log) \in Nat /\ LastEntryIndex(longer) \in Nat
           /\ LastEntryIndex(longer) >= LastEntryIndex(log)
<1>1. Len(log) \in Nat /\ Len(longer) \in Nat
  OBVIOUS
<1>2. (log = <<>> <=> Len(log) = 0) /\ (longer = <<>> <=> Len(longer) = 0)
  BY EmptySeq
<1>3. QED
  BY <1>1, <1>2 DEF LastEntryIndex

LEMMA ToldType ==
    ASSUME TypeOK, NEW n \in Node, NEW i \in DOMAIN down[n]
    PROVE  /\ LastNew(down[n][i]) \in Nat /\ Told(down[n][i]) \in Nat
           /\ Told(down[n][i]) <= LastNew(down[n][i])
           /\ i \in Nat
<1> DEFINE m == down[n][i]
<1>1. m.prelogindex \in Nat /\ m.leadercommit \in Nat /\ Len(m.entries) \in Nat /\ i \in Nat
  BY DownEntries
<1> HIDE DEF m
<1>2. LastNew(m) \in Nat /\ Told(m) \in Nat /\ Told(m) <= LastNew(m)
  BY <1>1 DEF LastNew, Told
<1>3. QED
  BY <1>1, <1>2 DEF m

\* A new message is about no smaller an index than Reach, and tells no more,
\* as long as nothing is committed while the only proxy has only the Hub's
\* entry to come.
LEMMA SendWithinReach ==
    ASSUME TypeOK, NextFollowsMatch, NEW n \in Node, NEW log \in Seq(Entry),
           matchIndex[n] = 0 /\ LastEntryIndex(log) = 1 => commitIndex[Hub] = 0
    PROVE  LET m     == SendAppendEntries(n, log)
               reach == ReachOf(matchIndex[n], LastEntryIndex(log))
           IN  /\ LastNew(m) \in Nat /\ reach \in Nat /\ Told(m) \in Nat
               /\ LastNew(m) >= reach /\ Told(m) <= reach
<1> DEFINE m == SendAppendEntries(n, log)
           k == matchIndex[n]
           last == LastEntryIndex(log)
           c == commitIndex[Hub]
           l == Len(EntriesFor(n, log))
<1>1. k \in Nat /\ nextIndex[n] = k + 1 /\ last \in Nat /\ c \in Nat
  <2>1. Len(log) >= Len(log)
    OBVIOUS
  <2>2. QED
    BY <2>1, AckInvTypes, LastGrows DEF NextFollowsMatch, TypeOK, Server
<1>2. m.prelogindex = k /\ m.leadercommit = c /\ Len(m.entries) = l
  BY <1>1 DEF SendAppendEntries
<1>3. l = IF last < k + 1 THEN 0 ELSE IF k + 1 = 1 THEN 2 ELSE 1
  BY <1>1 DEF EntriesFor
<1>4. k = 0 /\ last = 1 => c = 0
  OBVIOUS
<1> HIDE DEF m, k, last, c, l
<1>5. LastNew(m) = k + l
  BY <1>2 DEF LastNew
<1>6. Told(m) = IF c < k + l THEN c ELSE k + l
  BY <1>2, <1>5 DEF Told
<1>7. /\ LastNew(m) \in Nat /\ ReachOf(k, last) \in Nat /\ Told(m) \in Nat
      /\ LastNew(m) >= ReachOf(k, last) /\ Told(m) <= ReachOf(k, last)
  BY <1>1, <1>3, <1>4, <1>5, <1>6 DEF ReachOf
<1>8. QED
  BY <1>7 DEF m, k, last

\* A step that only takes messages and counts replies keeps ToldInOrder, if
\* it leaves the commit index where those messages allow.
LEMMA ToldKept ==
    ASSUME TypeOK, NEW x \in Node, ToldInOrder(x), Fewer(down'[x], down[x]),
           Reach(x) \in Nat, Reach(x)' \in Nat, Reach(x) <= Reach(x)',
           commitIndex'[x] \in Nat, commitIndex'[x] <= Reach(x),
           \A i \in DOMAIN down'[x] : commitIndex'[x] <= LastNew(down'[x][i])
    PROVE  ToldInOrder(x)'
<1>1. PICK d \in Nat : \A i \in DOMAIN down'[x] : /\ i \in Nat /\ i + d \in DOMAIN down[x]
                                                /\ down'[x][i] = down[x][i + d]
  BY DownShifts
<1>2. ASSUME NEW i \in DOMAIN down'[x] PROVE Told(down'[x][i]) <= Reach(x)'
  <2>1. i + d \in DOMAIN down[x] /\ down'[x][i] = down[x][i + d]
    BY <1>1
  <2>2. Told(down[x][i + d]) <= Reach(x) /\ Told(down[x][i + d]) \in Nat
    BY <2>1, ToldType DEF ToldInOrder
  <2>3. QED
    BY <2>1, <2>2
<1>3. ASSUME NEW i \in DOMAIN down'[x], NEW j \in DOMAIN down'[x], i < j
      PROVE  Told(down'[x][i]) <= LastNew(down'[x][j])
  <2>1. /\ i + d \in DOMAIN down[x] /\ down'[x][i] = down[x][i + d]
        /\ j + d \in DOMAIN down[x] /\ down'[x][j] = down[x][j + d]
        /\ i + d < j + d
    BY <1>1, <1>3
  <2>2. Told(down[x][i + d]) <= LastNew(down[x][j + d])
    BY <2>1 DEF ToldInOrder
  <2>3. QED
    BY <2>1, <2>2
<1>4. commitIndex'[x] <= Reach(x)'
  OBVIOUS
<1>5. QED
  BY <1>2, <1>3, <1>4 DEF ToldInOrder

\* A broadcast keeps ToldInOrder.
LEMMA ToldBroadCast ==
    ASSUME TypeOK, TypeOK', NextFollowsMatch, LogIsProxys', SomeoneAcked', putErrors' = 0,
           NEW x \in Node, ToldInOrder(x),
           BroadCastAppendEntries(Proxys', entries'[Hub]),
           Len(entries'[Hub]) >= Len(entries[Hub]),
           UNCHANGED <<commitIndex, matchIndex>>
    PROVE  ToldInOrder(x)'
<1> DEFINE log == entries'[Hub]
           m == SendAppendEntries(x, log)
<1>1. /\ entries[Hub] \in Seq(Entry) /\ log \in Seq(Entry) /\ matchIndex[x] \in Nat
      /\ commitIndex[Hub] \in Nat /\ commitIndex[x] \in Nat
      /\ Proxys' \in SUBSET Node
  BY DEF TypeOK, Server, Proxys
<1>2. /\ Reach(x) \in Nat /\ Reach(x)' \in Nat /\ Reach(x) <= Reach(x)'
      /\ Reach(x)' = ReachOf(matchIndex[x], LastEntryIndex(log))
  <2>1. /\ LastEntryIndex(entries[Hub]) \in Nat /\ LastEntryIndex(log) \in Nat
        /\ LastEntryIndex(log) >= LastEntryIndex(entries[Hub])
    BY <1>1, LastGrows
  <2>2. QED
    BY <1>1, <2>1, ReachGrows DEF Reach
<1>3. /\ down[x] \in Seq(AppendEntriesQMsg) /\ m \in AppendEntriesQMsg
      /\ \/ down'[x] = down[x]
         \/ x \in Proxys' /\ down'[x] = Append(down[x], m)
  BY <1>1, BroadCastSends
<1>4. CASE down'[x] = down[x]
  <2>1. Fewer(down'[x], down[x])
    BY <1>4 DEF Fewer
  <2>2. QED
    BY <1>1, <1>2, <1>4, <2>1, ToldKept DEF ToldInOrder
<1>5. CASE x \in Proxys' /\ down'[x] = Append(down[x], m)
  <2>1. ASSUME matchIndex[x] = 0, LastEntryIndex(log) = 1 PROVE commitIndex[Hub] = 0
    <3>1. Len(log) = 2
      BY <1>1, <2>1 DEF LastEntryIndex
    <3>2. IsFiniteSet(Proxys') /\ Cardinality(Proxys') \in Nat
      BY <1>1, NodeAssumption, FS_Subset, FS_CardinalityType
    <3>3. Cardinality(Proxys') = 1
      BY <3>1, <3>2 DEF LogIsProxys
    <3>4. \A y \in Proxys' : y = x
      BY <1>5, <3>2, <3>3, FS_Singleton
    <3>5. QED
      BY <1>1, <2>1, <3>4 DEF SomeoneAcked
  <2>2. /\ LastNew(m) \in Nat /\ Told(m) \in Nat
        /\ LastNew(m) >= Reach(x)' /\ Told(m) <= Reach(x)'
    BY <1>1, <1>2, <2>1, SendWithinReach
  <2> HIDE DEF m, log
  <2>3. /\ Len(down[x]) \in Nat /\ DOMAIN down[x] = 1..Len(down[x])
        /\ \A i \in DOMAIN down'[x] : \/ i \in DOMAIN down[x] /\ down'[x][i] = down[x][i]
                                      \/ i = Len(down[x]) + 1 /\ down'[x][i] = m
    BY <1>3, <1>5, AppendedAt
  <2>4. \A i \in DOMAIN down[x] : /\ Told(down[x][i]) \in Nat /\ Told(down[x][i]) <= Reach(x)
                                  /\ commitIndex[x] <= LastNew(down[x][i])
    BY ToldType DEF ToldInOrder
  <2>5. commitIndex[x] <= Reach(x)
    BY DEF ToldInOrder
  <2>6. ASSUME NEW i \in DOMAIN down'[x]
        PROVE  commitIndex[x] <= LastNew(down'[x][i]) /\ Told(down'[x][i]) <= Reach(x)'
    <3> DEFINE k == down'[x][i]
               r == Reach(x)
               t == Reach(x)'
    <3>1. CASE i \in DOMAIN down[x] /\ k = down[x][i]
      <4>1. Told(k) \in Nat /\ Told(k) <= r /\ commitIndex[x] <= LastNew(k)
        BY <2>4, <3>1
      <4> HIDE DEF k, r, t
      <4>2. r \in Nat /\ t \in Nat /\ r <= t
        BY <1>2 DEF r, t
      <4>3. Told(k) <= t
        BY ONLY <4>1, <4>2
      <4>4. QED
        BY <4>1, <4>3 DEF k, t
    <3>2. CASE k = m
      <4>1. r \in Nat /\ t \in Nat /\ r <= t /\ commitIndex[x] \in Nat /\ commitIndex[x] <= r
        BY <1>1, <1>2, <2>5
      <4>2. LastNew(k) \in Nat /\ LastNew(k) >= t /\ Told(k) <= t
        BY <2>2, <3>2
      <4> HIDE DEF k, r, t
      <4>3. commitIndex[x] <= LastNew(k)
        BY ONLY <4>1, <4>2
      <4>4. QED
        BY <4>2, <4>3 DEF k, t
    <3>3. QED
      BY <2>3, <3>1, <3>2
  <2>7. ASSUME NEW i \in DOMAIN down'[x], NEW j \in DOMAIN down'[x], i < j
        PROVE  Told(down'[x][i]) <= LastNew(down'[x][j])
    <3>1. i \in DOMAIN down[x] /\ down'[x][i] = down[x][i]
      BY <2>3, <2>7
    <3>2. CASE j \in DOMAIN down[x] /\ down'[x][j] = down[x][j]
      BY <2>7, <3>1, <3>2 DEF ToldInOrder
    <3>3. CASE down'[x][j] = m
      BY <1>2, <2>2, <2>4, <3>1, <3>3
    <3>4. QED
      BY <2>3, <3>2, <3>3
  <2>8. commitIndex[x] <= Reach(x)'
    BY <1>1, <1>2, <2>5
  <2>9. QED
    BY <2>6, <2>7, <2>8 DEF ToldInOrder
<1>6. QED
  BY <1>3, <1>4, <1>5

\* A node that answers a message moves its commit index up or not at all.
LEMMA ToldReceive ==
    ASSUME TypeOK, NEW n \in Node, down[n] # <<>>, NEW success, NEW isheartbeat,
           ReceiveAndReply(n, Head(down[n]), success, isheartbeat), ToldInOrder(n)
    PROVE  /\ commitIndex'[n] \in Nat /\ commitIndex'[n] >= commitIndex[n]
           /\ matchIndex' = matchIndex /\ entries'[Hub] = entries[Hub] => ToldInOrder(n)'
<1> DEFINE m == Head(down[n])
<1>1. down[n] \in Seq(AppendEntriesQMsg) /\ n \in Server /\ commitIndex[n] \in Nat
  BY DEF TypeOK, Server
<1>2. 1 \in DOMAIN down[n] /\ m = down[n][1]
  BY <1>1
<1>3. /\ LastNew(m) \in Nat /\ Told(m) \in Nat /\ m.leadercommit \in Nat
      /\ commitIndex[n] <= LastNew(m) /\ Told(m) <= Reach(n)
  BY <1>2, ToldType, DownEntries DEF ToldInOrder
<1>4. commitIndex'[n] = NewCommitIndex(n, m) /\ down'[n] = Tail(down[n])
  BY <1>1 DEF ReceiveAndReply, TypeOK
<1> HIDE DEF m
<1>5. /\ commitIndex'[n] = commitIndex[n] \/ commitIndex'[n] = Told(m)
      /\ commitIndex'[n] >= commitIndex[n]
  BY <1>1, <1>3, <1>4 DEF NewCommitIndex, Told, LastNew
<1>6. ASSUME matchIndex' = matchIndex, entries'[Hub] = entries[Hub]
      PROVE  ToldInOrder(n)'
  <2>1. Reach(n)' = Reach(n) /\ Reach(n) \in Nat
    <3>1. /\ Reach(n)' = Reach(n) /\ entries[Hub] \in Seq(Entry) /\ matchIndex[n] \in Nat
          /\ Len(entries[Hub]) >= Len(entries[Hub])
      BY <1>6 DEF Reach, TypeOK, Server
    <3>2. LastEntryIndex(entries[Hub]) \in Nat
      BY <3>1, LastGrows
    <3>3. QED
      BY <3>1, <3>2 DEF Reach, ReachOf
  <2>2. commitIndex'[n] \in Nat /\ commitIndex'[n] <= Reach(n)
    BY <1>1, <1>3, <1>5 DEF ToldInOrder
  <2>3. ASSUME NEW i \in DOMAIN down'[n] PROVE commitIndex'[n] <= LastNew(down'[n][i])
    <3>1. i \in Nat /\ i + 1 \in DOMAIN down[n] /\ down'[n][i] = down[n][i + 1] /\ 1 < i + 1
      BY <1>1, <1>4
    <3>2. Told(m) <= LastNew(down[n][i + 1]) /\ commitIndex[n] <= LastNew(down[n][i + 1])
      BY <1>2, <3>1 DEF ToldInOrder
    <3>3. QED
      BY <1>5, <3>1, <3>2
  <2>4. Fewer(down'[n], down[n])
    BY <1>4 DEF Fewer
  <2>5. QED
    BY <2>1, <2>2, <2>3, <2>4, ToldKept
<1>7. QED
  BY <1>1, <1>3, <1>5, <1>6

\* An index is committed by replies of a majority of the proxies.
LEMMA CommitNeedsHolders ==
    ASSUME TypeOK, NEW match, ChangeCommitIndex(match), commitIndex'[Hub] # commitIndex[Hub]
    PROVE  Cardinality(Holders(match, commitIndex[Hub] + 1)) >= (Cardinality(Proxys) \div 2) + 1
  BY DEF ChangeCommitIndex, TypeOK, Server

\* Counting a reply keeps SomeoneAcked.
LEMMA SomeoneAckedReply ==
    ASSUME TypeOK, SomeoneAcked, NEW n \in Node, HandleAppendEntriesR(n)
    PROVE  /\ SomeoneAcked'
           /\ commitIndex'[Hub] >= commitIndex[Hub]
           /\ \A x \in Node : /\ matchIndex'[x] \in {matchIndex[x], matchIndex[x] + 1}
                              /\ commitIndex'[x] = commitIndex[x]
<1>s. Hub \in Server /\ \A x \in Node : x \in Server /\ x # Hub
  BY HubAssumption DEF Server
<1>1. conn' = conn /\ ChangeCommitIndex(matchIndex')
  BY DEF HandleAppendEntriesR
<1>2. /\ commitIndex[Hub] \in Nat
      /\ commitIndex'[Hub] = commitIndex[Hub] \/ commitIndex'[Hub] = commitIndex[Hub] + 1
      /\ \A x \in Node : commitIndex'[x] = commitIndex[x]
  BY <1>s, <1>1, ChangeCommitIndexEffect DEF TypeOK
<1>3. /\ \A x \in Node : matchIndex[x] \in Nat
      /\ \A x \in Node : matchIndex'[x] \in {matchIndex[x], matchIndex[x] + 1}
  <2>1. \/ matchIndex' = matchIndex
        \/ matchIndex' = [matchIndex EXCEPT ![n] = matchIndex[n] + 1]
    BY DEF HandleAppendEntriesR, IncrIndexes
  <2>2. QED
    BY <2>1 DEF TypeOK
<1>4. Proxys' = Proxys /\ Proxys \in SUBSET Node
  BY <1>1 DEF Proxys
<1>5. IsFiniteSet(Proxys) /\ Cardinality(Proxys) \in Nat
  BY <1>4, NodeAssumption, FS_Subset, FS_CardinalityType
<1>6. CASE commitIndex'[Hub] = commitIndex[Hub]
  <2>1. ASSUME commitIndex[Hub] > 0
        PROVE  \E x \in Proxys : matchIndex'[x] >= commitIndex[Hub]
    <3>1. PICK x \in Proxys : matchIndex[x] >= commitIndex[Hub]
      BY <2>1 DEF SomeoneAcked
    <3>2. matchIndex'[x] >= commitIndex[Hub]
      BY <1>2, <1>3, <1>4, <3>1
    <3>3. QED
      BY <3>2
  <2>2. QED
    BY <1>2, <1>3, <1>4, <1>6, <2>1 DEF SomeoneAcked
<1>7. CASE commitIndex'[Hub] = commitIndex[Hub] + 1
  <2> DEFINE i == commitIndex[Hub] + 1
             h == Holders(matchIndex', i)
  <2>1. Cardinality(h) >= (Cardinality(Proxys) \div 2) + 1
    BY <1>1, <1>2, <1>7, CommitNeedsHolders
  <2>2. h \in SUBSET Proxys /\ \A x \in h : matchIndex'[x] >= i
    BY DEF Holders
  <2> HIDE DEF h
  <2>3. h # {}
    <3>1. Cardinality(h) >= 1
      <4> DEFINE c == Cardinality(Proxys)
      <4>1. c \in Nat /\ Cardinality(h) >= (c \div 2) + 1 /\ Cardinality(h) \in Nat
        BY <1>5, <2>1, <2>2, FS_Subset, FS_CardinalityType
      <4> HIDE DEF c
      <4>2. QED
        BY <4>1
    <3>2. QED
      BY <3>1, FS_EmptySet
  <2>4. QED
    BY <1>2, <1>3, <1>4, <1>7, <2>2, <2>3 DEF SomeoneAcked
<1>8. QED
  BY <1>2, <1>6, <1>7

LEMMA SomeoneAckedKept ==
    ASSUME SomeoneAcked, commitIndex'[Hub] = commitIndex[Hub], Proxys \subseteq Proxys',
           matchIndex' = matchIndex
    PROVE  SomeoneAcked'
  BY DEF SomeoneAcked

LEMMA NextTold ==
    TypeOK /\ AckInv /\ SendInv /\ ToldInv /\ [Next]_vars =>
        /\ ToldInv'
        /\ commitIndex'[Hub] >= commitIndex[Hub]
        /\ putErrors = 0 => \A n \in Node : commitIndex'[n] >= commitIndex[n]
<1> DEFINE Goal == /\ ToldInv'
                   /\ commitIndex'[Hub] >= commitIndex[Hub]
                   /\ putErrors = 0 => \A n \in Node : commitIndex'[n] >= commitIndex[n]
           Ordered == \A n \in Node : ToldInOrder(n)
<1> SUFFICES ASSUME TypeOK, NextFollowsMatch, SendInv, ToldInv, [Next]_vars PROVE Goal
  BY DEF AckInv
<1> HIDE DEF Goal
<1>t. TypeOK' /\ SendInv'
  BY NextTypeOK, NextSend
<1>s. /\ Hub \in Server /\ Hub \notin Node /\ commitIndex[Hub] \in Nat /\ putErrors \in Nat
      /\ entries[Hub] \in Seq(Entry) /\ entries'[Hub] \in Seq(Entry)
      /\ \A n \in Node : n \in Server /\ n # Hub /\ commitIndex[n] \in Nat
      /\ \A n \in Node : matchIndex[n] \in Nat
  BY <1>t, HubAssumption DEF Server, TypeOK
<1>a. SomeoneAcked /\ (putErrors = 0 => Ordered)
  BY DEF ToldInv
<1>r. ASSUME NEW x \in Node, matchIndex'[x] \in {matchIndex[x], matchIndex[x] + 1},
             entries'[Hub] = entries[Hub]
      PROVE  Reach(x) \in Nat /\ Reach(x)' \in Nat /\ Reach(x) <= Reach(x)'
  <2>1. Len(entries[Hub]) >= Len(entries[Hub])
    BY <1>s
  <2>2. LastEntryIndex(entries[Hub]) \in Nat
    BY <1>s, <2>1, LastGrows
  <2>3. QED
    BY <1>r, <1>s, <2>2, ReachGrows DEF Reach
<1>k. ASSUME NEW x \in Node, ToldInOrder(x), Fewer(down'[x], down[x]),
             commitIndex'[x] = commitIndex[x], entries'[Hub] = entries[Hub],
             matchIndex'[x] \in {matchIndex[x], matchIndex[x] + 1}
      PROVE  ToldInOrder(x)'
  <2>1. Reach(x) \in Nat /\ Reach(x)' \in Nat /\ Reach(x) <= Reach(x)'
    BY <1>k, <1>r
  <2>2. PICK d \in Nat : \A i \in DOMAIN down'[x] : /\ i \in Nat /\ i + d \in DOMAIN down[x]
                                                  /\ down'[x][i] = down[x][i + d]
    BY <1>k, DownShifts
  <2>3. \A i \in DOMAIN down'[x] : commitIndex'[x] <= LastNew(down'[x][i])
    BY <1>k, <2>2 DEF ToldInOrder
  <2>4. commitIndex'[x] \in Nat /\ commitIndex'[x] <= Reach(x)
    BY <1>k, <1>s DEF ToldInOrder
  <2>5. QED
    BY <1>k, <2>1, <2>3, <2>4, ToldKept
<1>u. ASSUME UNCHANGED <<commitIndex, matchIndex, entries, putErrors>>,
             Proxys' = Proxys, \A x \in Node : Fewer(down'[x], down[x])
      PROVE  Goal
  <2>1. SomeoneAcked'
    BY <1>a, <1>u, SomeoneAckedKept
  <2>2. putErrors' = 0 => \A x \in Node : ToldInOrder(x)'
    BY <1>a, <1>k, <1>u
  <2>3. QED
    BY <1>s, <1>u, <2>1, <2>2 DEF Goal, ToldInv
<1>b. ASSUME BroadCastAppendEntries(Proxys', entries'[Hub]),
             Len(entries'[Hub]) >= Len(entries[Hub]), Proxys \subseteq Proxys',
             UNCHANGED <<commitIndex, matchIndex>>, putErrors' = 0 => putErrors = 0
      PROVE  Goal
  <2>1. SomeoneAcked'
    BY <1>a, <1>b, SomeoneAckedKept
  <2>2. ASSUME putErrors' = 0, NEW x \in Node PROVE ToldInOrder(x)'
    BY <1>a, <1>b, <1>t, <2>1, <2>2, ToldBroadCast DEF SendInv
  <2>3. QED
    BY <1>b, <1>s, <2>1, <2>2 DEF Goal, ToldInv
<1>1. ASSUME NEW n \in Node, HandshakeAccepted(n) PROVE Goal
  <2> DEFINE block == <<[node |-> n, term |-> 0]>>
  <2>1. /\ block \in Seq(Entry) /\ currentTerm[Hub] \in Nat
        /\ AppendCfgLog(Hub, block, currentTerm[Hub])
    BY <1>1, <1>s DEF HandshakeAccepted, Entry, TypeOK
  <2> HIDE DEF block
  <2>2. putErrors' >= putErrors /\ Len(entries'[Hub]) >= Len(entries[Hub])
    BY <1>s, <2>1, AppendCfgLogEffect
  <2>3. putErrors' = 0 => putErrors = 0
    BY <1>s, <2>2
  <2>4. Proxys' = Proxys \cup {n}
    BY <1>1 DEF HandshakeAccepted, Proxys, TypeOK
  <2>5. /\ BroadCastAppendEntries(Proxys \cup {n}, entries'[Hub])
        /\ UNCHANGED <<commitIndex, matchIndex>>
    BY <1>1 DEF HandshakeAccepted
  <2>6. QED
    BY <1>b, <2>2, <2>3, <2>4, <2>5
<1>2. ASSUME SendAppendEntriesCallback PROVE Goal
  <2>1. /\ BroadCastAppendEntries(Proxys, entries[Hub]) /\ Proxys' = Proxys
        /\ UNCHANGED <<commitIndex, matchIndex, entries, putErrors>>
    BY <1>2 DEF SendAppendEntriesCallback, serverVars, proxyVars, Proxys
  <2>2. Len(entries'[Hub]) >= Len(entries[Hub])
    BY <1>s, <2>1
  <2>3. QED
    BY <1>b, <2>1, <2>2
<1>3. ASSUME NEW n \in Node, down[n] # <<>>, NEW success, NEW isheartbeat,
             ReceiveAndReply(n, Head(down[n]), success, isheartbeat),
             UNCHANGED <<conn, matchIndex>>, entries'[Hub] = entries[Hub],
             putErrors' = 0 => putErrors = 0
      PROVE  Goal
  <2>1. /\ commitIndex'[Hub] = commitIndex[Hub] /\ Proxys' = Proxys
        /\ \A x \in Node \ {n} : commitIndex'[x] = commitIndex[x] /\ down'[x] = down[x]
    BY <1>3, <1>s DEF ReceiveAndReply, TypeOK, Proxys
  <2>2. SomeoneAcked'
    BY <1>3, <1>a, <2>1, SomeoneAckedKept
  <2>3. ASSUME putErrors = 0, NEW x \in Node
        PROVE  ToldInOrder(x)' /\ commitIndex'[x] >= commitIndex[x]
    <3>1. ToldInOrder(x)
      BY <1>a, <2>3
    <3>2. CASE x = n
      BY <1>3, <3>1, <3>2, ToldReceive
    <3>3. CASE x # n
      <4>1. Fewer(down'[x], down[x])
        BY <2>1, <3>3 DEF Fewer
      <4>2. QED
        BY <1>3, <1>k, <1>s, <2>1, <3>1, <3>3, <4>1
    <3>4. QED
      BY <3>2, <3>3
  <2>4. QED
    BY <1>3, <1>s, <2>1, <2>2, <2>3 DEF Goal, ToldInv
<1>4. ASSUME NEW n \in Node, RejectAppendEntries(n) \/ AcceptHeartbeat(n) PROVE Goal
  BY <1>3, <1>4 DEF RejectAppendEntries, AcceptHeartbeat, proxyVars, histVars
<1>5. ASSUME NEW n \in Node, AcceptEntries(n) PROVE Goal
  <2> DEFINE m == Head(down[n])
  <2>1. /\ down[n] # <<>>
        /\ AppendCfgLog(n, m.entries, NewTerm(n, m))
        /\ ReceiveAndReply(n, m, TRUE, FALSE)
        /\ UNCHANGED <<conn, matchIndex>>
    BY <1>5 DEF AcceptEntries, proxyVars
  <2>2. m.entries \in Seq(Entry) /\ NewTerm(n, m) \in Nat
    BY <1>s, <2>1, DownHead DEF NewTerm, TypeOK
  <2>3. entries'[Hub] = entries[Hub] /\ putErrors' >= putErrors
    <3> HIDE DEF m
    <3>1. QED
      BY <1>s, <2>1, <2>2, AppendCfgLogEffect
  <2>4. putErrors' = 0 => putErrors = 0
    BY <1>s, <2>3
  <2>5. QED
    BY <1>3, <2>1, <2>3, <2>4
<1>6. ASSUME NEW n \in Node, HandleAppendEntriesR(n) PROVE Goal
  <2>1. UNCHANGED <<down, entries, putErrors>>
    BY <1>6 DEF HandleAppendEntriesR, histVars
  <2>2. /\ SomeoneAcked' /\ commitIndex'[Hub] >= commitIndex[Hub]
        /\ \A x \in Node : /\ matchIndex'[x] \in {matchIndex[x], matchIndex[x] + 1}
                           /\ commitIndex'[x] = commitIndex[x]
    BY <1>6, <1>a, SomeoneAckedReply
  <2>3. ASSUME putErrors' = 0, NEW x \in Node PROVE ToldInOrder(x)'
    <3>1. ToldInOrder(x) /\ Fewer(down'[x], down[x])
      BY <1>a, <2>1, <2>3 DEF Fewer
    <3>2. QED
      BY <1>k, <2>1, <2>2, <3>1
  <2>4. QED
    BY <1>s, <2>2, <2>3 DEF Goal, ToldInv
<1>7. ASSUME NEW n \in Node, CrashNode(n) PROVE Goal
  <2>1. /\ down' = [down EXCEPT ![n] = <<>>]
        /\ UNCHANGED <<commitIndex, matchIndex, conn, entries, putErrors>>
    BY <1>7 DEF CrashNode, proxyVars, histVars
  <2>2. \A x \in Node : Fewer(down'[x], down[x])
    BY <2>1 DEF TypeOK, Fewer
  <2>3. QED
    BY <1>u, <2>1, <2>2 DEF Proxys
<1>8. ASSUME NEW n \in Node,
             \/ ConnectToPeer(n) \/ HandshakeRefused(n)
             \/ HeartBeatTimeoutCallback(n) \/ StepDown(n)
      PROVE  Goal
  <2>1. UNCHANGED <<down, commitIndex, matchIndex, entries, putErrors>>
    BY <1>8 DEF ConnectToPeer, HandshakeRefused, HeartBeatTimeoutCallback, StepDown,
       serverVars, proxyVars, netVars, histVars
  <2>2. Proxys' = Proxys
    BY <1>8 DEF ConnectToPeer, HandshakeRefused, HeartBeatTimeoutCallback, StepDown,
       proxyVars, Proxys, TypeOK
  <2>3. QED
    BY <1>u, <2>1, <2>2 DEF Fewer
<1>9. ASSUME CrashHub \/ UNCHANGED vars PROVE Goal
  <2>1. UNCHANGED <<down, commitIndex, matchIndex, conn, entries, putErrors>>
    BY <1>9 DEF CrashHub, vars, serverVars, proxyVars, netVars, histVars
  <2>2. QED
    BY <1>u, <2>1 DEF Fewer, Proxys
<1>10. Goal
  BY <1>1, <1>2, <1>4, <1>5, <1>6, <1>7, <1>8, <1>9 DEF Next, NodeStep, HubStep
<1>11. QED
  BY <1>10 DEF Goal

\* ToldInv holds in every reachable state.
LEMMA ToldInvariant == Spec => []ToldInv
<1>1. Init => ToldInv
  <2> SUFFICES ASSUME Init, NEW n \in Node PROVE SomeoneAcked /\ ToldInOrder(n)
    BY DEF ToldInv, Init, SomeoneAcked, Server
  <2>1. /\ down[n] = <<>> /\ commitIndex[n] = 0 /\ commitIndex[Hub] = 0 /\ matchIndex[n] = 0
        /\ entries[Hub] = <<[node |-> Hub, term |-> 0]>> \/ entries[Hub] = <<>>
    BY InitLogs DEF Init, Server
  <2>2. LastEntryIndex(entries[Hub]) = 0
    <3> DEFINE e == [node |-> Hub, term |-> 0]
    <3>1. entries[Hub] = <<e>> \/ entries[Hub] = <<>>
      BY <2>1
    <3> HIDE DEF e
    <3>2. CASE entries[Hub] = <<e>>
      BY <3>2 DEF LastEntryIndex
    <3>3. CASE entries[Hub] = <<>>
      BY <3>3 DEF LastEntryIndex
    <3>4. QED
      BY <3>1, <3>2, <3>3
  <2>3. QED
    BY <2>1, <2>2 DEF SomeoneAcked, ToldInOrder, Reach, ReachOf
<1>2. TypeOK /\ AckInv /\ SendInv /\ ToldInv /\ [Next]_vars => ToldInv'
  BY NextTold
<1>3. QED
  BY <1>1, <1>2, LogInvariant, TypeCorrect, PTL DEF Spec

\* For any cluster: no step takes the Hub's commit index back, nor, unless a
\* write failed, a node's, although refused, stale and repeated messages all
\* update it and the first message overstates the index it is about.
THEOREM CommitIndexesGrow == Spec => CommitNeverRetreats
<1> DEFINE Grow == /\ commitIndex'[Hub] >= commitIndex[Hub]
                   /\ putErrors = 0 => \A n \in Node : commitIndex'[n] >= commitIndex[n]
<1>1. TypeOK /\ AckInv /\ SendInv /\ ToldInv /\ [Next]_vars => [Grow]_vars
  BY NextTold
<1>2. QED
  BY <1>1, ToldInvariant, LogInvariant, TypeCorrect, PTL DEF Spec, CommitNeverRetreats

-----------------------------------------------------------------------------
(* The refinement of ConfigLog.                                            *)

\* What the abstract log and the copies are.
LEMMA IdsOf ==
    ASSUME NEW log \in Seq(Entry)
    PROVE  /\ Ids(log) \in Seq(Server) /\ Len(Ids(log)) = Len(log) /\ Len(log) \in Nat
           /\ DOMAIN Ids(log) = 1..Len(log) /\ DOMAIN log = 1..Len(log)
           /\ \A i \in 1..Len(log) : Ids(log)[i] = log[i].node
<1>1. Len(log) \in Nat /\ DOMAIN log = 1..Len(log)
  OBVIOUS
<1>2. Ids(log) = [i \in 1..Len(log) |-> log[i].node]
  BY <1>1 DEF Ids
<1>3. ASSUME NEW i \in 1..Len(log) PROVE log[i].node \in Server
  <2>1. log[i] \in Entry
    OBVIOUS
  <2>2. QED
    BY <2>1 DEF Entry
<1>4. Ids(log) \in [1..Len(log) -> Server]
  BY <1>2, <1>3
<1>5. Ids(log) \in Seq(Server) /\ Len(Ids(log)) = Len(log)
  BY <1>1, <1>4, SeqDef
<1>6. QED
  BY <1>1, <1>2, <1>5

\* The cardinality that ConfigLog takes from FiniteSets is the same.
LEMMA SameCardinality == ASSUME NEW S PROVE Abstract!Cardinality(S) = Cardinality(S)
  BY DEF Abstract!Cardinality, Cardinality

PacedInv == /\ TypeOK /\ AckInv /\ SendInv /\ LogInv /\ ToldInv /\ CommitLearnedFromHub
            /\ putErrors = 0 /\ resent = {}

\* The members of the abstract log are the Hub and its proxies.
LEMMA MembersAre ==
    ASSUME PacedInv
    PROVE  Abstract!Members = Proxys \cup {Hub}
<1>1. entries[Hub] \in Seq(Entry)
  BY DEF PacedInv, TypeOK, Server
<1>2. /\ DOMAIN Ids(entries[Hub]) = DOMAIN entries[Hub]
      /\ \A i \in DOMAIN entries[Hub] : Ids(entries[Hub])[i] = entries[Hub][i].node
  BY <1>1, IdsOf
<1>3. {entries[Hub][i].node : i \in DOMAIN entries[Hub]} = Proxys \cup {Hub}
  BY DEF PacedInv, SendInv, LogIsProxys
<1>4. QED
  BY <1>2, <1>3 DEF Abstract!Members

\* A node that is accepted joins the abstract log.
LEMMA JoinRefines ==
    ASSUME PacedInv, NEW n \in Node, HandshakeAccepted(n), putErrors' = 0
    PROVE  Abstract!Join(n)
<1> DEFINE ids == Ids(entries[Hub])
<1>1. TypeOK /\ LogIsProxys /\ entries[Hub] \in Seq(Entry) /\ Hub \notin Node
  BY HubAssumption DEF PacedInv, SendInv, TypeOK, Server
<1>2. /\ entries'[Hub] \in Seq(Entry) /\ Len(entries'[Hub]) = Len(entries[Hub]) + 1
      /\ \A i \in 1..Len(entries[Hub]) : entries'[Hub][i] = entries[Hub][i]
      /\ entries'[Hub][Len(entries[Hub]) + 1].node = n /\ n \notin Proxys
  BY <1>1, LogIsProxysJoin
<1>3. n \notin Abstract!Members
  BY <1>1, <1>2, MembersAre
<1>4. /\ ids \in Seq(Server) /\ Len(ids) = Len(entries[Hub]) /\ Len(ids) \in Nat
      /\ \A i \in 1..Len(ids) : ids[i] = entries[Hub][i].node
  BY <1>1, IdsOf
<1>5. Ids(entries'[Hub]) = [i \in 1..Len(entries[Hub]) + 1 |-> entries'[Hub][i].node]
  <2>1. DOMAIN entries'[Hub] = 1..Len(entries[Hub]) + 1
    BY <1>2
  <2>2. QED
    BY <2>1 DEF Ids
<1> HIDE DEF ids
<1>6. Append(ids, n) = [i \in 1..Len(ids) + 1 |-> IF i = Len(ids) + 1 THEN n ELSE ids[i]]
  <2>1. n \in Server
    BY DEF Server
  <2> DEFINE new == Append(ids, n)
  <2>2. /\ new \in Seq(Server) /\ DOMAIN new = 1..Len(ids) + 1
        /\ \A i \in 1..Len(ids) : new[i] = ids[i]
        /\ new[Len(ids) + 1] = n
    BY <1>4, <2>1
  <2> HIDE DEF new
  <2>3. new = [i \in 1..Len(ids) + 1 |-> new[i]]
    BY <2>2
  <2>4. \A i \in 1..Len(ids) + 1 : new[i] = IF i = Len(ids) + 1 THEN n ELSE ids[i]
    BY <1>4, <2>2
  <2>5. QED
    BY <2>3, <2>4 DEF new
<1>7. \A i \in 1..Len(ids) + 1 :
          entries'[Hub][i].node = IF i = Len(ids) + 1 THEN n ELSE ids[i]
  BY <1>2, <1>4
<1>8. Ids(entries'[Hub]) = Append(ids, n)
  BY <1>4, <1>5, <1>6, <1>7
<1>9. UNCHANGED commitIndex /\ \A x \in Node : entries'[x] = entries[x]
  BY <1>1 DEF HandshakeAccepted, AppendCfgLog, TypeOK, Server
<1>10. QED
  BY <1>3, <1>8, <1>9 DEF Abstract!Join, ids

\* Whatever a node does with a message, its copy is a prefix, its old copy or
\* a longer one, and it knows as much as before or more.
LEMMA ReceiveRefines ==
    ASSUME PacedInv, PacedInv', NEW n \in Node, down[n] # <<>>, entries'[Hub] = entries[Hub],
           commitIndex' = [commitIndex EXCEPT ![n] = commitIndex'[n]],
           commitIndex'[n] >= commitIndex[n],
           \A x \in Node \ {n} : entries'[x] = entries[x],
           Len(entries'[n]) >= Len(entries[n])
    PROVE  Abstract!Receive(n)
<1> DEFINE log == entries[Hub]
           copy == [x \in Node |-> Ids(entries[x])]
           known == [x \in Node |-> commitIndex[x]]
           k == Len(entries'[n])
<1>1. /\ TypeOK /\ TypeOK' /\ n \in Server /\ Hub \in Server /\ n # Hub
  BY HubAssumption DEF PacedInv, Server
<1>2. /\ log \in Seq(Entry) /\ entries[n] \in Seq(Entry) /\ entries'[n] \in Seq(Entry)
      /\ commitIndex \in [Server -> Nat] /\ commitIndex'[n] \in Nat
  BY <1>1 DEF TypeOK
<1>3. n \in Abstract!Members
  BY MembersAre DEF PacedInv, SendInv, SentToProxys, Proxys
<1>4. IdsPrefix(entries'[n], log)
  BY DEF PacedInv, LogInv, NodeLog
<1>5. Ids(entries'[n]) = SubSeq(Ids(log), 1, k)
  BY <1>2, <1>4, PrefixIsSubSeq
<1>6. /\ Len(Ids(log)) = Len(log) /\ Len(Ids(entries[n])) = Len(entries[n])
      /\ Len(log) \in Nat /\ Len(entries[n]) \in Nat /\ k \in Nat
  BY <1>2, IdsOf
<1>7. k \in Len(copy[n])..Len(Ids(log))
  BY <1>4, <1>6 DEF IdsPrefix
<1>8. [x \in Node |-> Ids(entries'[x])] = [copy EXCEPT ![n] = SubSeq(Ids(log), 1, k)]
  BY <1>5
<1>9. commitIndex'[n] \in known[n]..commitIndex[Hub]
  <2>1. commitIndex'[n] <= commitIndex'[Hub] /\ commitIndex'[Hub] = commitIndex[Hub]
    BY <1>1, <1>2 DEF PacedInv, CommitLearnedFromHub
  <2>2. QED
    BY <1>1, <1>2, <2>1
<1>10. [x \in Node |-> commitIndex'[x]] = [known EXCEPT ![n] = commitIndex'[n]]
  <2>1. \A x \in Node \ {n} : commitIndex'[x] = commitIndex[x]
    BY <1>1, <1>2 DEF Server
  <2> DEFINE c == commitIndex'[n]
             new == [x \in Node |-> commitIndex'[x]]
  <2>2. \A x \in Node : new[x] = IF x = n THEN c ELSE commitIndex[x]
    BY <2>1
  <2> HIDE DEF c, new
  <2>3. [known EXCEPT ![n] = c] = [x \in Node |-> IF x = n THEN c ELSE commitIndex[x]]
    OBVIOUS
  <2>4. new = [x \in Node |-> new[x]]
    BY DEF new
  <2>5. QED
    BY <2>2, <2>3, <2>4 DEF c, new
<1>11. commitIndex'[Hub] = commitIndex[Hub]
  BY <1>1, <1>2
<1>12. QED
  BY <1>3, <1>7, <1>8, <1>9, <1>10, <1>11 DEF Abstract!Receive, Abstract!Prefix

\* An index the Hub commits is held by most members, the Hub among them.
LEMMA CommitRefines ==
    ASSUME PacedInv, PacedInv', NEW n \in Node, HandleAppendEntriesR(n),
           commitIndex'[Hub] # commitIndex[Hub]
    PROVE  Abstract!Commit
<1> DEFINE i == commitIndex[Hub] + 1
           h == Holders(matchIndex', i)
           holders == {x \in Abstract!Members \ {Hub} : i < Len(Ids(entries[x]))}
<1>1. /\ TypeOK /\ TypeOK' /\ Hub \in Server /\ Hub \notin Node
      /\ \A x \in Node : x \in Server
  BY HubAssumption DEF PacedInv, Server
<1>2. UNCHANGED entries /\ ChangeCommitIndex(matchIndex')
  BY DEF HandleAppendEntriesR
<1>3. /\ commitIndex'[Hub] = i /\ commitIndex[Hub] \in Nat
      /\ \A x \in Node : commitIndex'[x] = commitIndex[x]
  BY <1>1, <1>2, ChangeCommitIndexEffect DEF TypeOK
<1>4. Cardinality(h) >= (Cardinality(Proxys) \div 2) + 1
  BY <1>1, <1>2, CommitNeedsHolders
<1>5. Abstract!Members = Proxys \cup {Hub} /\ Proxys \in SUBSET Node /\ Hub \notin Proxys
  BY <1>1, MembersAre DEF Proxys
<1>6. IsFiniteSet(Proxys) /\ Cardinality(Proxys) \in Nat
  BY <1>5, NodeAssumption, FS_Subset, FS_CardinalityType
<1>7. ASSUME NEW x \in h
      PROVE  x \in Proxys /\ i < Len(Ids(entries[x])) /\ i < Len(Ids(entries[Hub]))
  <2>1. x \in Proxys /\ x \in Node /\ matchIndex'[x] >= i
    BY <1>5 DEF Holders
  <2>2. /\ matchIndex'[x] \in Nat /\ entries[x] \in Seq(Entry) /\ entries[Hub] \in Seq(Entry)
        /\ up'[x] \in Seq(AppendEntriesRMsg)
    BY <1>1, <2>1 DEF TypeOK
  <2>l. Len(entries[x]) \in Nat /\ Len(entries[Hub]) \in Nat
    BY <2>2
  <2>3. matchIndex'[x] < Len(entries[x])
    <3>1. AckCount(up'[x]) \in Nat
      BY <2>2, AckCountType
    <3>2. Promised(x)' = matchIndex'[x] + AckCount(up'[x])
      BY DEF Promised
    <3>3. Promised(x)' > 0 => Promised(x)' < Len(entries'[x]) + putErrors'
      BY <2>1 DEF PacedInv, AckInv, RepliesCovered
    <3>4. putErrors' = 0
      BY DEF PacedInv
    <3>5. QED
      BY <1>2, <1>3, <2>1, <2>2, <2>l, <3>1, <3>2, <3>3, <3>4
  <2>4. IdsPrefix(entries[x], entries[Hub])
    BY <2>1 DEF PacedInv, LogInv, NodeLog
  <2>5. QED
    BY <1>3, <2>1, <2>2, <2>l, <2>3, <2>4, IdsOf DEF IdsPrefix
<1> HIDE DEF h, holders
<1>8. /\ h \in SUBSET holders /\ holders \in SUBSET Proxys
  BY <1>1, <1>5, <1>7 DEF holders
<1>9. /\ IsFiniteSet(holders) /\ Cardinality(holders) \in Nat
      /\ IsFiniteSet(h) /\ Cardinality(h) \in Nat
      /\ Cardinality(h) <= Cardinality(holders)
  BY <1>6, <1>8, FS_Subset, FS_CardinalityType
<1>10. Cardinality(Abstract!Members) = Cardinality(Proxys) + 1
  BY <1>5, <1>6, FS_AddElement
<1>11. 2 * (Cardinality(holders) + 1) > Cardinality(Abstract!Members)
  <2> DEFINE p == Cardinality(Proxys)
             c == Cardinality(h)
             d == Cardinality(holders)
  <2>1. p \in Nat /\ c \in Nat /\ d \in Nat /\ c >= (p \div 2) + 1 /\ c <= d
    BY <1>4, <1>6, <1>9
  <2> HIDE DEF p, c, d
  <2>2. 2 * (d + 1) > p + 1
    BY <2>1
  <2>3. QED
    BY <1>10, <2>2 DEF p, d
<1>12. i < Len(Ids(entries[Hub]))
  <2>1. h # {}
    <3> DEFINE p == Cardinality(Proxys)
    <3>1. p \in Nat /\ Cardinality(h) >= (p \div 2) + 1 /\ Cardinality(h) \in Nat
      BY <1>4, <1>6, <1>9
    <3> HIDE DEF p
    <3>2. Cardinality(h) >= 1
      BY <3>1
    <3>3. QED
      BY <3>2, FS_EmptySet
  <2>2. QED
    BY <1>7, <2>1
<1>13. /\ [x \in Node |-> Ids(entries'[x])] = [x \in Node |-> Ids(entries[x])]
       /\ Ids(entries'[Hub]) = Ids(entries[Hub])
       /\ [x \in Node |-> commitIndex'[x]] = [x \in Node |-> commitIndex[x]]
  BY <1>2, <1>3
<1>14. holders = {x \in Abstract!Members \ {Hub} :
                     commitIndex[Hub] + 1 < Len([y \in Node |-> Ids(entries[y])][x])}
  BY <1>5 DEF holders
<1>15. /\ Abstract!Cardinality(holders) = Cardinality(holders)
       /\ Abstract!Cardinality(Abstract!Members) = Cardinality(Abstract!Members)
  BY SameCardinality
<1>16. QED
  BY <1>3, <1>11, <1>12, <1>13, <1>14, <1>15 DEF Abstract!Commit

\* Answering a message changes at the node the commit index only.
LEMMA ReceiveCommit ==
    ASSUME TypeOK, NEW n \in Node, NEW m, NEW success, NEW isheartbeat,
           ReceiveAndReply(n, m, success, isheartbeat)
    PROVE  commitIndex' = [commitIndex EXCEPT ![n] = commitIndex'[n]]
<1>1. commitIndex' = [commitIndex EXCEPT ![n] = NewCommitIndex(n, m)]
  BY DEF ReceiveAndReply
<1>2. commitIndex'[n] = NewCommitIndex(n, m)
  BY <1>1 DEF TypeOK, Server
<1>3. QED
  BY <1>1, <1>2

\* Every step of the paced system is a step of the configuration log.
LEMMA StepRefines ==
    ASSUME PacedInv, PacedInv', [PacedNext]_vars
    PROVE  [Abstract!Next]_(Abstract!vars)
<1> DEFINE Step == [Abstract!Next]_(Abstract!vars)
<1>1. [Next]_vars
  BY DEF PacedNext
<1>s. /\ TypeOK /\ TypeOK' /\ Hub \in Server /\ Hub \notin Node /\ putErrors' = 0
      /\ putErrors = 0 /\ \A n \in Node : n \in Server /\ n # Hub
      /\ \A n \in Node : Len(entries[n]) \in Nat
  BY HubAssumption DEF PacedInv, Server, TypeOK
<1>g. \A n \in Node : commitIndex'[n] >= commitIndex[n]
  BY <1>1, NextTold DEF PacedInv
<1>u. ASSUME UNCHANGED <<entries, commitIndex>> PROVE Step
  BY <1>u DEF Abstract!vars
<1>r. ASSUME NEW n \in Node, Abstract!Receive(n) PROVE Step
  BY <1>r DEF Abstract!Next
<1>2. ASSUME NEW n \in Node, HandshakeAccepted(n) PROVE Step
  <2>1. Abstract!Join(n)
    BY <1>2, <1>s, JoinRefines
  <2>2. QED
    BY <2>1 DEF Abstract!Next
<1>3. ASSUME NEW n \in Node, RejectAppendEntries(n) \/ AcceptHeartbeat(n) PROVE Step
  <2>1. down[n] # <<>> /\ entries' = entries
    BY <1>3 DEF RejectAppendEntries, AcceptHeartbeat
  <2>2. commitIndex' = [commitIndex EXCEPT ![n] = commitIndex'[n]]
    BY <1>3, <1>s, ReceiveCommit DEF RejectAppendEntries, AcceptHeartbeat
  <2>3. Abstract!Receive(n)
    BY <1>g, <1>s, <2>1, <2>2, ReceiveRefines
  <2>4. QED
    BY <1>r, <2>3
<1>4. ASSUME NEW n \in Node, AcceptEntries(n) PROVE Step
  <2> DEFINE m == Head(down[n])
  <2>1. /\ down[n] # <<>>
        /\ AppendCfgLog(n, m.entries, NewTerm(n, m))
        /\ ReceiveAndReply(n, m, TRUE, FALSE)
    BY <1>4 DEF AcceptEntries
  <2>2. m.entries \in Seq(Entry) /\ NewTerm(n, m) \in Nat
    BY <1>s, <2>1, DownHead DEF NewTerm, TypeOK
  <2>3. commitIndex' = [commitIndex EXCEPT ![n] = commitIndex'[n]]
    BY <1>s, <2>1, ReceiveCommit
  <2> HIDE DEF m
  <2>4. /\ \A x \in Server \ {n} : entries'[x] = entries[x]
        /\ Len(entries'[n]) >= Len(entries[n])
    BY <1>s, <2>1, <2>2, AppendCfgLogEffect
  <2>5. Abstract!Receive(n)
    BY <1>g, <1>s, <2>1, <2>3, <2>4, ReceiveRefines
  <2>6. QED
    BY <1>r, <2>5
<1>5. ASSUME NEW n \in Node, HandleAppendEntriesR(n) PROVE Step
  <2>1. CASE commitIndex'[Hub] # commitIndex[Hub]
    <3>1. Abstract!Commit
      BY <1>5, <2>1, CommitRefines
    <3>2. QED
      BY <3>1 DEF Abstract!Next
  <2>2. CASE commitIndex'[Hub] = commitIndex[Hub]
    <3>1. entries' = entries /\ ChangeCommitIndex(matchIndex')
      BY <1>5 DEF HandleAppendEntriesR
    <3>2. \A x \in Node : commitIndex'[x] = commitIndex[x]
      BY <1>s, <3>1, ChangeCommitIndexEffect
    <3>3. QED
      BY <2>2, <3>1, <3>2 DEF Abstract!vars
  <2>3. QED
    BY <2>1, <2>2
<1>6. ASSUME NEW n \in Node,
             \/ ConnectToPeer(n) \/ HandshakeRefused(n) \/ CrashNode(n)
             \/ HeartBeatTimeoutCallback(n) \/ StepDown(n)
      PROVE  Step
  BY <1>6, <1>u DEF ConnectToPeer, HandshakeRefused, CrashNode, HeartBeatTimeoutCallback,
     StepDown, serverVars
<1>7. ASSUME SendAppendEntriesCallback \/ CrashHub \/ UNCHANGED vars PROVE Step
  BY <1>7, <1>u DEF SendAppendEntriesCallback, CrashHub, vars, serverVars
<1> HIDE DEF Step
<1>8. Step
  BY <1>1, <1>2, <1>3, <1>4, <1>5, <1>6, <1>7 DEF Next, NodeStep, HubStep
<1>9. QED
  BY <1>8 DEF Step

\* For any cluster: while the Hub repeats no unanswered entry and leveldb
\* stores what it is given, every behaviour, with its timeouts, refusals,
\* step-down and crashes, is one of the configuration log: logs are prefixes
\* of one log, and an index is committed only when most members hold it.
THEOREM PacedImplements == PacedSpec => ImplementsConfigLog
<1>1. Init /\ putErrors = 0 => Abstract!Init
  <2> SUFFICES ASSUME Init, putErrors = 0 PROVE Abstract!Init
    OBVIOUS
  <2>1. /\ entries[Hub] = <<[node |-> Hub, term |-> 0]>> /\ commitIndex[Hub] = 0
        /\ \A n \in Node : entries[n] = <<>> /\ commitIndex[n] = 0
    BY InitLogs DEF Init, Server
  <2>2. Ids(<<>>) = <<>>
    BY DEF Ids
  <2>3. Ids(<<[node |-> Hub, term |-> 0]>>) = <<Hub>>
    BY DEF Ids
  <2>4. QED
    BY <2>1, <2>2, <2>3 DEF Abstract!Init
<1>2. PacedSpec => Spec
  <2>1. [PacedNext]_vars => [Next]_vars
    BY DEF PacedNext
  <2>2. QED
    BY <2>1, PTL DEF PacedSpec, PacedInit, Spec
<1>3. PacedSpec => [](putErrors = 0 /\ resent = {})
  <2>1. Init => resent = {}
    BY DEF Init
  <2>2. putErrors = 0 /\ resent = {} /\ [PacedNext]_vars => (putErrors = 0 /\ resent = {})'
    BY DEF PacedNext, vars, histVars
  <2>3. QED
    BY <2>1, <2>2, PTL DEF PacedSpec, PacedInit
<1>4. PacedSpec => []PacedInv
  <2>1. /\ TypeOK /\ SendInv /\ LogInv /\ AckInv /\ ToldInv /\ CommitLearnedFromHub
        /\ putErrors = 0 /\ resent = {}
        => PacedInv
    BY DEF PacedInv
  <2>2. QED
    BY <1>2, <1>3, <2>1, TypeCorrect, LogInvariant, ToldInvariant, CommitsComeFromHub, PTL
<1>5. PacedInv /\ PacedInv' /\ [PacedNext]_vars => [Abstract!Next]_(Abstract!vars)
  BY StepRefines
<1>6. QED
  BY <1>1, <1>4, <1>5, PTL DEF PacedSpec, PacedInit, ImplementsConfigLog, Abstract!Spec
=============================================================================
