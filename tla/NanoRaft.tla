------------------------------ MODULE NanoRaft ------------------------------
(***************************************************************************)
(* Replication of the configuration log, as nanoraft/RaftServer.cpp,       *)
(* mod/ModApi.hpp, net/Conn.cpp and easytimer/Timer.cpp implement it.      *)
(*                                                                         *)
(* The cluster is a star.  The server launched with "start" (Hub) makes    *)
(* itself leader, is the only one that accepts connections and the only    *)
(* one that runs the leader heartbeat timer.  Every server launched with   *)
(* "join" (Node) opens one TCP connection to it.  Elections are not        *)
(* implemented: a follower whose heartbeat timer fires only raises its     *)
(* own term.                                                               *)
(*                                                                         *)
(* Here every node joins once.  A node that comes back, and what the Hub   *)
(* then does to its table of connections, is module ConnTable.             *)
(*                                                                         *)
(* The deque m_stLogs_ has no writer (AppendLog is never called), so       *)
(* LogTermByIndex always answers -1: the loop of AppendEntriesQ that       *)
(* resolves conflicts (ModApi.hpp:209-223) leaves at its first iteration   *)
(* and DelLogsFromIndex is never reached.  handshake_r is only printed by  *)
(* its receiver, so the reply is not a message of the model.               *)
(***************************************************************************)
EXTENDS Integers, FiniteSets, Sequences

CONSTANTS
    Node,           \* the servers launched with "join"
    Hub,            \* the server launched with "start"
    MaxTerm,        \* bound: no heartbeat timer raises a term beyond it
    MaxInFlight,    \* bound: messages of one connection when the Hub ticks
    MaxPutErrors,   \* bound: failed writes of an entry to leveldb
    MaxDead         \* bound: servers that stop

ASSUME HubAssumption == Hub \notin Node
ASSUME NodeAssumption == IsFiniteSet(Node)
ASSUME BoundAssumption == /\ MaxTerm \in Nat
                          /\ MaxInFlight \in Nat
                          /\ MaxPutErrors \in Nat
                          /\ MaxDead \in Nat

VARIABLES
    currentTerm,    \* m_dwCurrentTerm_ of every server
    role,           \* m_stRole_ of every server
    entries,        \* m_stEntries_ of every server; index i is entries[s][i + 1]
    commitIndex,    \* m_dwCommitIndex_ of every server
    alive,          \* whether the process is running
    armed,          \* whether a node's one-shot FollowerHeartbeatTimer is set
    conn,           \* a node's connection, as the Hub has treated it so far
    nextIndex,      \* m_ulNextIndex_ of the Hub's proxy of a node
    matchIndex,     \* m_ulMatchIndex_ of the Hub's proxy of a node
    down,           \* appendentries_q on the way from the Hub to a node
    up,             \* appendentries_r on the way from a node to the Hub
    putErrors,      \* history: entries that leveldb refused to store
    resent          \* history: nodes sent an entry while one was unanswered

serverVars == <<currentTerm, role, entries, commitIndex, alive, armed>>
proxyVars  == <<conn, nextIndex, matchIndex>>
netVars    == <<down, up>>
histVars   == <<putErrors, resent>>
vars       == <<serverVars, proxyVars, netVars, histVars>>

Server == Node \cup {Hub}
Role   == {"Follower", "Candidate", "Leader"}
Conn   == {"none", "handshake", "tied", "refused"}
Entry  == [node : Server, term : Nat]

AppendEntriesQMsg ==
    [term : Nat, prelogindex : Nat, prelogterm : Nat, leadercommit : Nat,
     entries : Seq(Entry)]
AppendEntriesRMsg == [term : Nat, success : BOOLEAN, isheartbeat : BOOLEAN]

-----------------------------------------------------------------------------
(* Reading a log.                                                          *)

LastEntryIndex(log) == IF log = <<>> THEN 0 ELSE Len(log) - 1

EntryTermByIndex(log, i) == IF Len(log) < i + 1 THEN -1 ELSE log[i + 1].term

-----------------------------------------------------------------------------
(* What the Hub sends.                                                     *)

\* The nodes with a proxy in m_stProxys_.
Proxys == {n \in Node : conn[n] = "tied"}

\* Fault: entry 0 is not put in front of entry 1.
EntriesForWithoutFirst(n, log) ==
    IF LastEntryIndex(log) < nextIndex[n] THEN <<>> ELSE <<log[nextIndex[n] + 1]>>

\* The entries of the next message for a node: the entry at nextIndex, with
\* entry 0 in front of it in the message that starts a node's log.
EntriesFor(n, log) ==
    IF LastEntryIndex(log) < nextIndex[n] THEN <<>>
    ELSE IF nextIndex[n] = 1 THEN <<log[1], log[2]>>
    ELSE <<log[nextIndex[n] + 1]>>

\* Fault: the -1 of EntryTermByIndex goes into the message.
SendAppendEntriesUnchecked(n, log) ==
    [term |-> currentTerm[Hub], prelogindex |-> nextIndex[n] - 1,
     prelogterm |-> EntryTermByIndex(log, nextIndex[n] - 1),
     leadercommit |-> commitIndex[Hub], entries |-> EntriesFor(n, log)]

\* Fault: prelogindex is filled in only with entries, and is 0 in a heartbeat.
SendAppendEntriesBareHeartbeat(n, log) ==
    LET index == IF EntriesFor(n, log) = <<>> THEN 0 ELSE nextIndex[n] - 1
    IN  [term |-> currentTerm[Hub], prelogindex |-> index,
         prelogterm |-> IF log = <<>> THEN 0 ELSE EntryTermByIndex(log, index),
         leadercommit |-> commitIndex[Hub], entries |-> EntriesFor(n, log)]

SendAppendEntries(n, log) ==
    LET prelogterm == EntryTermByIndex(log, nextIndex[n] - 1)
    IN  [term         |-> currentTerm[Hub],
         prelogindex  |-> nextIndex[n] - 1,
         prelogterm   |-> IF prelogterm = -1 THEN 0 ELSE prelogterm,
         leadercommit |-> commitIndex[Hub],
         entries      |-> EntriesFor(n, log)]

\* Fault: heartbeats count as entries.
IsAckAnySuccess(r) == r.success

\* A reply that makes the Hub advance a node's indexes.
IsAck(r) == r.success /\ ~r.isheartbeat

\* An entry is on its way to n, or n's acknowledgement is on its way back.
Unanswered(n) == \/ \E i \in DOMAIN down[n] : down[n][i].entries # <<>>
                 \/ \E i \in DOMAIN up[n] : IsAck(up[n][i])

\* One message to each of the given proxies.  What is sent to a node that
\* has stopped is lost.  Nothing here asks whether the Hub is still leader.
BroadCastAppendEntries(proxys, log) ==
    LET live == {n \in proxys : alive[n]}
    IN  /\ down' = [n \in Node |->
                      IF n \in live THEN Append(down[n], SendAppendEntries(n, log))
                                    ELSE down[n]]
        /\ resent' = resent \cup {n \in live : EntriesFor(n, log) # <<>> /\ Unanswered(n)}

\* The outcomes of storing a message's (at most two) entries one by one: each
\* Put may fail, and then that entry is left out while the others are kept.
Stored(block) == {block, <<>>} \cup {<<block[i]>> : i \in DOMAIN block}

\* An entry is stored under the term of the server that stores it.
Restamp(block, term) == [i \in DOMAIN block |-> [node |-> block[i].node, term |-> term]]

AppendCfgLog(s, block, term) ==
    \E stored \in Stored(block) :
        /\ putErrors' = putErrors + (Len(block) - Len(stored))
        /\ putErrors' <= MaxPutErrors
        /\ entries' = [entries EXCEPT ![s] = @ \o Restamp(stored, term)]

-----------------------------------------------------------------------------
\* The Hub logs itself before it runs, if leveldb stores the entry.
Init ==
    /\ currentTerm = [s \in Server |-> 0]
    /\ role        = [s \in Server |-> IF s = Hub THEN "Leader" ELSE "Follower"]
    /\ \E stored \in Stored(<<[node |-> Hub, term |-> 0]>>) :
          /\ entries   = [s \in Server |-> IF s = Hub THEN stored ELSE <<>>]
          /\ putErrors = 1 - Len(stored)
    /\ putErrors <= MaxPutErrors
    /\ commitIndex = [s \in Server |-> 0]
    /\ alive       = [s \in Server |-> TRUE]
    /\ armed       = [n \in Node |-> FALSE]
    /\ conn        = [n \in Node |-> "none"]
    /\ nextIndex   = [n \in Node |-> 1]
    /\ matchIndex  = [n \in Node |-> 0]
    /\ down        = [n \in Node |-> <<>>]
    /\ up          = [n \in Node |-> <<>>]
    /\ resent      = {}

-----------------------------------------------------------------------------
(* Joining.                                                                *)

\* The one-shot timer of a follower is created set.
StartTimer(n) == armed' = [armed EXCEPT ![n] = TRUE]

\* A join process connects, sends handshake_q and starts its timer.
ConnectToPeer(n) ==
    /\ conn[n] = "none" /\ alive[n] /\ alive[Hub]
    /\ conn' = [conn EXCEPT ![n] = "handshake"]
    /\ StartTimer(n)
    /\ UNCHANGED <<currentTerm, role, entries, commitIndex, alive,
                   nextIndex, matchIndex, netVars, histVars>>

\* A Hub that is no longer leader answers result = false.
HandshakeRefused(n) ==
    /\ conn[n] = "handshake" /\ alive[Hub]
    /\ role[Hub] # "Leader"
    /\ conn' = [conn EXCEPT ![n] = "refused"]
    /\ UNCHANGED <<serverVars, nextIndex, matchIndex, netVars, histVars>>

\* The leader makes a proxy for the node, logs the node's configuration and
\* sends every proxy what it lacks.
HandshakeAccepted(n) ==
    /\ conn[n] = "handshake" /\ alive[Hub]
    /\ role[Hub] = "Leader"
    /\ conn' = [conn EXCEPT ![n] = "tied"]
    /\ AppendCfgLog(Hub, <<[node |-> n, term |-> 0]>>, currentTerm[Hub])
    /\ BroadCastAppendEntries(Proxys \cup {n}, entries'[Hub])
    /\ UNCHANGED <<currentTerm, role, commitIndex, alive, armed,
                   nextIndex, matchIndex, up>>

-----------------------------------------------------------------------------
(* Timers.                                                                 *)

\* The leader heartbeat timer, which nothing stops when the Hub steps down.
SendAppendEntriesCallback ==
    /\ alive[Hub]
    /\ \A n \in Proxys : Len(down[n]) + Len(up[n]) < MaxInFlight
    /\ BroadCastAppendEntries(Proxys, entries[Hub])
    /\ UNCHANGED <<serverVars, proxyVars, up, putErrors>>

\* A candidate raises its term, in memory only, and keeps its role.
BecomeCandidate(n) == currentTerm' = [currentTerm EXCEPT ![n] = @ + 1]

\* The follower heartbeat timer fires once; BroadCastRequestVote sends nothing.
HeartBeatTimeoutCallback(n) ==
    /\ alive[n] /\ armed[n]
    /\ currentTerm[n] < MaxTerm
    /\ armed' = [armed EXCEPT ![n] = FALSE]
    /\ BecomeCandidate(n)
    /\ UNCHANGED <<role, entries, commitIndex, alive, proxyVars, netVars, histVars>>

-----------------------------------------------------------------------------
(* AppendEntriesQ at a node.                                               *)

Stale(n, m) == currentTerm[n] > m.term

PrevMatches(n, m) ==
    m.prelogindex > 0 => EntryTermByIndex(entries[n], m.prelogindex) = m.prelogterm

\* Fault: the message's term is taken without comparing.
NewTermFromMessage(n, m) == m.term

NewTerm(n, m) == IF currentTerm[n] < m.term THEN m.term ELSE currentTerm[n]

\* A candidate of the same term, and any server of a lower one, follows.
NewRole(n, m) ==
    IF \/ role[n] = "Candidate" /\ currentTerm[n] = m.term
       \/ currentTerm[n] < m.term
    THEN "Follower" ELSE role[n]

\* Fault: without the minimum.
NewCommitIndexUnbounded(n, m) ==
    IF commitIndex[n] >= m.leadercommit THEN commitIndex[n]
    ELSE m.prelogindex + Len(m.entries)

\* Every path, the refusals too, ends in the update of the commit index.
NewCommitIndex(n, m) ==
    LET lastNew == m.prelogindex + Len(m.entries)
    IN  IF commitIndex[n] >= m.leadercommit THEN commitIndex[n]
        ELSE IF m.leadercommit < lastNew THEN m.leadercommit ELSE lastNew

ReceiveAndReply(n, m, success, isheartbeat) ==
    LET reply == [term |-> NewTerm(n, m), success |-> success,
                  isheartbeat |-> isheartbeat]
    IN  /\ down' = [down EXCEPT ![n] = Tail(@)]
        /\ currentTerm' = [currentTerm EXCEPT ![n] = NewTerm(n, m)]
        /\ role' = [role EXCEPT ![n] = NewRole(n, m)]
        /\ commitIndex' = [commitIndex EXCEPT ![n] = NewCommitIndex(n, m)]
        /\ up' = IF alive[Hub] THEN [up EXCEPT ![n] = Append(@, reply)] ELSE up

RejectAppendEntries(n) ==
    /\ alive[n] /\ down[n] # <<>>
    /\ LET m == Head(down[n])
       IN  /\ Stale(n, m) \/ ~PrevMatches(n, m)
           /\ ReceiveAndReply(n, m, FALSE, FALSE)
    /\ UNCHANGED <<entries, alive, armed, proxyVars, histVars>>

\* The timer is set again, whether or not it has fired.
FreshTime(n) == armed' = [armed EXCEPT ![n] = TRUE]

\* Only an accepted message without entries sets the node's timer again.
AcceptHeartbeat(n) ==
    /\ alive[n] /\ down[n] # <<>>
    /\ LET m == Head(down[n])
       IN  /\ ~Stale(n, m) /\ PrevMatches(n, m)
           /\ m.entries = <<>>
           /\ ReceiveAndReply(n, m, TRUE, TRUE)
    /\ FreshTime(n)
    /\ UNCHANGED <<entries, alive, proxyVars, histVars>>

\* The entries go to the end of the log, wherever the message meant them to
\* go, and are acknowledged even when leveldb did not store them.
AcceptEntries(n) ==
    /\ alive[n] /\ down[n] # <<>>
    /\ LET m == Head(down[n])
       IN  /\ ~Stale(n, m) /\ PrevMatches(n, m)
           /\ m.entries # <<>>
           /\ AppendCfgLog(n, m.entries, NewTerm(n, m))
           /\ ReceiveAndReply(n, m, TRUE, FALSE)
    /\ UNCHANGED <<alive, armed, proxyVars, resent>>

-----------------------------------------------------------------------------
(* AppendEntriesR at the Hub.                                              *)

\* Fault: the role is left alone.
BecomeFollowerNot(s) == role' = role

BecomeFollower(s) == role' = [role EXCEPT ![s] = "Follower"]

\* A reply from a higher term: persist the term, follow, and look no further.
StepDown(n) ==
    /\ alive[Hub] /\ up[n] # <<>>
    /\ currentTerm[Hub] < Head(up[n]).term
    /\ currentTerm' = [currentTerm EXCEPT ![Hub] = Head(up[n]).term]
    /\ BecomeFollower(Hub)
    /\ up' = [up EXCEPT ![n] = Tail(@)]
    /\ UNCHANGED <<entries, commitIndex, alive, armed, proxyVars, down, histVars>>

\* Fault: one index too far.
HoldersBeyond(match, i) == {n \in Proxys : match[n] > i}

\* The proxies that hold index i, among the ones the Hub counts.
Holders(match, i) == {n \in Proxys : match[n] >= i}

\* Fault: entries of any term are committed.
TermAtCommitNotCompared(same) == same

\* The comparison m_stEntries_[m_dwCommitIndex_ + 1]->term() == m_dwCurrentTerm_.
\* Past the end of the deque the element read is arbitrary: the comparison
\* goes either way (or the process dies, which is CrashHub).
TermAtCommitMatches(same) ==
    LET i == commitIndex[Hub] + 1
    IN  i < Len(entries[Hub]) => (same <=> entries[Hub][i + 1].term = currentTerm[Hub])

\* The quorum counts proxies only, and the Hub is not one of them.
ChangeCommitIndex(match) ==
    LET i == commitIndex[Hub] + 1
        iMostNum == (Cardinality(Proxys) \div 2) + 1
    IN  \E same \in BOOLEAN :
           /\ TermAtCommitMatches(same)
           /\ commitIndex' = [commitIndex EXCEPT ![Hub] =
                                IF Cardinality(Holders(match, i)) >= iMostNum /\ same
                                THEN i ELSE @]

\* One reply is one entry, whatever index it was for.
IncrIndexes(n) ==
    /\ matchIndex' = [matchIndex EXCEPT ![n] = @ + 1]
    /\ nextIndex'  = [nextIndex EXCEPT ![n] = @ + 1]

\* A failure changes no index (nextIndex is not taken back).
HandleAppendEntriesR(n) ==
    /\ alive[Hub] /\ up[n] # <<>>
    /\ currentTerm[Hub] >= Head(up[n]).term
    /\ IF IsAck(Head(up[n]))
       THEN IncrIndexes(n)
       ELSE UNCHANGED <<matchIndex, nextIndex>>
    /\ ChangeCommitIndex(matchIndex')
    /\ up' = [up EXCEPT ![n] = Tail(@)]
    /\ UNCHANGED <<currentTerm, role, entries, alive, armed, conn, down, histVars>>

-----------------------------------------------------------------------------
(* A process stops: it is killed, a wild read ends it, or the write of a   *)
(* new term to leveldb fails and SetAndPersistTerm calls exit(1).          *)

CrashNode(n) ==
    /\ alive[n] /\ conn[n] # "none"
    /\ Cardinality({s \in Server : ~alive[s]}) < MaxDead
    /\ alive' = [alive EXCEPT ![n] = FALSE]
    /\ armed' = [armed EXCEPT ![n] = FALSE]
    /\ down'  = [down EXCEPT ![n] = <<>>]
    /\ \E k \in 0..Len(up[n]) : up' = [up EXCEPT ![n] = SubSeq(@, 1, k)]
    /\ UNCHANGED <<currentTerm, role, entries, commitIndex, proxyVars, histVars>>

CrashHub ==
    /\ alive[Hub]
    /\ Cardinality({s \in Server : ~alive[s]}) < MaxDead
    /\ alive' = [alive EXCEPT ![Hub] = FALSE]
    /\ up' = [n \in Node |-> <<>>]
    /\ UNCHANGED <<currentTerm, role, entries, commitIndex, armed, proxyVars,
                   down, histVars>>

-----------------------------------------------------------------------------
NodeStep(n) == \/ ConnectToPeer(n)
               \/ HeartBeatTimeoutCallback(n)
               \/ RejectAppendEntries(n)
               \/ AcceptHeartbeat(n)
               \/ AcceptEntries(n)
               \/ CrashNode(n)

HubStep(n) == \/ HandshakeRefused(n)
              \/ HandshakeAccepted(n)
              \/ StepDown(n)
              \/ HandleAppendEntriesR(n)

Next == \/ \E n \in Node : NodeStep(n) \/ HubStep(n)
        \/ SendAppendEntriesCallback
        \/ CrashHub

Spec == Init /\ [][Next]_vars

\* The event loop of a running process serves every readable connection, and
\* the leader's timer is periodic.  Nothing is assumed of joining, of the
\* followers' timers, or of crashes.
Fairness ==
    /\ WF_vars(SendAppendEntriesCallback)
    /\ \A n \in Node :
          /\ WF_vars(HandshakeRefused(n) \/ HandshakeAccepted(n))
          /\ WF_vars(RejectAppendEntries(n) \/ AcceptHeartbeat(n) \/ AcceptEntries(n))
          /\ WF_vars(StepDown(n) \/ HandleAppendEntriesR(n))

LiveSpec == Spec /\ Fairness
-----------------------------------------------------------------------------
(* Properties.                                                             *)

\* Every variable has the shape the code gives it.
TypeOK ==
    /\ currentTerm \in [Server -> Nat]
    /\ role \in [Server -> Role]
    /\ entries \in [Server -> Seq(Entry)]
    /\ commitIndex \in [Server -> Nat]
    /\ alive \in [Server -> BOOLEAN]
    /\ armed \in [Node -> BOOLEAN]
    /\ conn \in [Node -> Conn]
    /\ nextIndex \in [Node -> Nat \ {0}]
    /\ matchIndex \in [Node -> Nat]
    /\ down \in [Node -> Seq(AppendEntriesQMsg)]
    /\ up \in [Node -> Seq(AppendEntriesRMsg)]
    /\ putErrors \in Nat
    /\ resent \subseteq Node

\* Proxy_IncrMatchIndex counts replies, not entries.  It never counts more
\* than the node's log holds, except for entries leveldb refused: the node
\* holds an entry at the index its proxy has reached.
AckedIsStored ==
    \A n \in Node : matchIndex[n] > 0 => matchIndex[n] < Len(entries[n]) + putErrors

\* Leadership is never handed on: the Hub leads in term 0 and in no other,
\* no node ever leads, and every entry of the Hub's log was made in term 0.
LeaderOnlyInTermZero ==
    /\ role[Hub] = "Leader" <=> currentTerm[Hub] = 0
    /\ \A n \in Node : role[n] # "Leader"
    /\ \A i \in DOMAIN entries[Hub] : entries[Hub][i].term = 0

\* A node's commit index comes from the Hub and is never ahead of the Hub's,
\* although refusals, stale messages and heartbeats all update it.
CommitLearnedFromHub == \A n \in Node : commitIndex[n] <= commitIndex[Hub]

\* Without its terms, which every server writes anew.
Ids(log) == [i \in DOMAIN log |-> log[i].node]

\* Unless a write failed, or an entry was sent again before it was answered,
\* a node's log is a prefix of the Hub's: no gap, no duplicate, no entry out
\* of order, whatever was refused, delayed or lost on the way.
LogPrefix ==
    putErrors = 0 =>
        \A n \in Node \ resent :
            /\ Len(entries[n]) <= Len(entries[Hub])
            /\ Ids(entries[n]) = SubSeq(Ids(entries[Hub]), 1, Len(entries[n]))

\* No step takes the Hub's commit index back, nor, unless a write failed, a
\* node's: refused, stale and repeated messages all update it.  (A Hub that
\* could not store a node's entry heartbeats that node about an index below
\* the one the node was first told.)
CommitNeverRetreats ==
    [][/\ commitIndex'[Hub] >= commitIndex[Hub]
       /\ putErrors = 0 => \A n \in Node : commitIndex'[n] >= commitIndex[n]]_vars

\* A Hub that has stepped down goes on sending and counting replies, but it
\* logs nothing and commits nothing that is in its log.
FrozenAfterStepDown ==
    [][role[Hub] # "Leader" =>
         /\ role'[Hub] # "Leader"
         /\ entries'[Hub] = entries[Hub]
         /\ commitIndex'[Hub] # commitIndex[Hub] =>
              commitIndex'[Hub] >= Len(entries[Hub])]_vars

\* A term one member has reached spreads to all: the heartbeats go on after a
\* refusal, the refusal makes the Hub step down to that term, and the Hub,
\* leader no more, still carries it to the others.
TermSpreads ==
    \A n, m \in Node : \A t \in 1..MaxTerm :
        (conn[n] = "tied" /\ conn[m] = "tied" /\ currentTerm[n] >= t)
            ~> (currentTerm[m] >= t \/ \E s \in {n, m, Hub} : ~alive[s])

\* While nobody's timer fires, nobody stops, every write succeeds and replies
\* are faster than the Hub's sends, every member ends with the Hub's log, all
\* of it committed, and knows so: heartbeats alone carry the last step.
CatchUp ==
    [](/\ resent = {} /\ putErrors = 0
       /\ \A s \in Server : currentTerm[s] = 0 /\ alive[s])
    => \A n \in Node :
          conn[n] = "tied" ~>
              /\ entries[n] = entries[Hub]
              /\ commitIndex[Hub] = LastEntryIndex(entries[Hub])
              /\ commitIndex[n] = commitIndex[Hub]

\* RaftServer.cpp:471: the index becomes committed when most proxies have
\* the entry at that index.
CommitQuorum ==
    [][LET i == commitIndex'[Hub]
           Has(n) == /\ i < Len(entries[n])
                     /\ entries[n][i + 1].node = entries[Hub][i + 1].node
       IN  (i # commitIndex[Hub] /\ i < Len(entries[Hub])) =>
               2 * Cardinality({n \in Proxys : Has(n)}) > Cardinality(Proxys)]_vars

\* ModApi.hpp:211: entry i of a message has index prelogindex + 1 + i, so that
\* the update of the commit index stays within the log of the node.
CommitWithinLog ==
    resent = {} /\ putErrors = 0 =>
        \A n \in Node : commitIndex[n] <= LastEntryIndex(entries[n])
=============================================================================
