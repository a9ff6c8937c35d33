------------------------------- MODULE Storage -------------------------------
(***************************************************************************)
(* What one server keeps in its two leveldb databases, over several lives  *)
(* of its process (RaftServer.cpp, main.cpp): entries_db maps the decimal  *)
(* text of an index to an entry, state_db holds the term.                  *)
(*                                                                         *)
(* A process launched with "start" or "join" opens the databases its       *)
(* predecessor left and begins with an empty log in memory: it writes over *)
(* the stored entries from index 0.  Only "restart" reads them, in the     *)
(* order of IndexComparator, and then ends.  Writes are synchronous, so a  *)
(* crash loses nothing that was written, and any write may fail.  A write  *)
(* comes before the change in memory, and the process may end in between.  *)
(*                                                                         *)
(* A stored entry is clean if a zero follows it in memory; LoadEntries     *)
(* reads any other one with the junk behind it (module Codec), which may   *)
(* make anything of it: it is Garbled here.                                *)
(***************************************************************************)
EXTENDS Integers, Sequences, FiniteSets, Functions

CONSTANTS
    Node,           \* nodeids that entries announce
    Base,           \* base of the text of an index (10)
    MaxLog,         \* bound: entries in the log of one life
    MaxTerm,        \* bound: terms
    MaxLives        \* bound: processes launched with start or join

ASSUME StorageBounds ==
    /\ Base \in Nat \ {0, 1} /\ MaxLog \in Nat /\ MaxTerm \in Nat /\ MaxLives \in Nat

\* std::to_string.
Digits[i \in Nat] == IF i < Base THEN <<i>> ELSE Digits[i \div Base] \o <<i % Base>>

Key(i) == Digits[i]

Term == 0..MaxTerm

\* A configuration entry.
Entry == [node : Node, term : Term]

\* What is read of an entry that junk follows.
Garbled == [node |-> "?", term |-> -1]

VARIABLES
    stage,          \* "off", "running", or "restarted": what the process is
    lives,          \* processes launched so far
    entries,        \* m_stEntries_
    pending,        \* the entry AppendCfgLog has written and not yet appended
    currentTerm,    \* m_dwCurrentTerm_
    proxys,         \* ids of m_stProxys_ that LoadEntries made
    stateDb,        \* the term in state_db; -1 when there is none
    entriesDb,      \* entries_db: stored entries by key
    lastLog         \* history: the log of the last process that was launched
                    \* with start or join, when it ended

vars == <<stage, lives, entries, pending, currentTerm, proxys, stateDb, entriesDb, lastLog>>

\* The log of this life: what is in memory, and behind it the entry that is
\* on disk only.
Log == entries \o pending

Stored == [entry : Entry, clean : BOOLEAN, life : 1..MaxLives]

Init ==
    /\ stage = "off" /\ lives = 0
    /\ entries = <<>> /\ pending = <<>> /\ currentTerm = 0 /\ proxys = {}
    /\ stateDb = -1 /\ entriesDb = <<>>
    /\ lastLog = <<>>

-----------------------------------------------------------------------------
(* leveldb.                                                                *)

Put(db, k, v) == [x \in DOMAIN db \cup {k} |-> IF x = k THEN v ELSE db[x]]

\* The number a key spells.
Number(k) == LET n[j \in 0..Len(k)] == IF j = 0 THEN 0 ELSE Base * n[j - 1] + k[j]
             IN  n[Len(k)]

\* Fault: keys are compared byte by byte, as leveldb does by default.
CompareBytewise(a, b) ==
    \E j \in 1..Len(b) :
        /\ \A h \in 1..(j - 1) : h <= Len(a) /\ a[h] = b[h]
        /\ j > Len(a) \/ a[j] < b[j]

\* IndexComparator: a comes before b.
Compare(a, b) == Number(a) < Number(b)

\* How many keys an iterator meets before k.
Rank(db, k) == Cardinality({x \in DOMAIN db : Compare(x, k)})

\* The n-th key an iterator meets.
KeyAt(db, n) == CHOOSE k \in DOMAIN db : Rank(db, k) = n - 1

\* The values in the order of an iterator.
Iterated(db) == [n \in 1..Cardinality(DOMAIN db) |-> db[KeyAt(db, n)]]

-----------------------------------------------------------------------------
(* A life.                                                                 *)

\* The process ends, in whatever way; memory is lost.
Ends ==
    /\ stage' = "off"
    /\ lastLog' = Log
    /\ entries' = <<>> /\ pending' = <<>> /\ currentTerm' = 0 /\ proxys' = {}

\* Fault: the index of the next but one entry is taken.
IndexBeyond == Len(entries) + 1

\* dwIndex of AppendCfgLog.
Index == Len(entries)

\* The process is in none of the calls that write.
Idle == stage = "running" /\ pending = <<>>

\* Fault: the entry is kept in memory also when it could not be written.
AppendCfgLogAnyway(n) ==
    /\ Idle /\ Len(entries) < MaxLog
    /\ LET e == [node |-> n, term |-> currentTerm]
       IN  /\ pending' = <<e>>
           /\ \/ \E c \in BOOLEAN : entriesDb' = Put(entriesDb, Key(Index),
                                                     [entry |-> e, clean |-> c, life |-> lives])
              \/ UNCHANGED entriesDb
    /\ UNCHANGED <<stage, lives, entries, currentTerm, proxys, stateDb, lastLog>>

\* The entry is written under the index behind the log in memory; if that
\* fails nothing changes.
AppendCfgLog(n) ==
    /\ Idle /\ Len(entries) < MaxLog
    /\ LET e == [node |-> n, term |-> currentTerm]
       IN  \/ /\ pending' = <<e>>
              /\ \E c \in BOOLEAN : entriesDb' = Put(entriesDb, Key(Index),
                                                     [entry |-> e, clean |-> c, life |-> lives])
           \/ UNCHANGED <<pending, entriesDb>>
    /\ UNCHANGED <<stage, lives, entries, currentTerm, proxys, stateDb, lastLog>>

\* AppendCfgLog goes on: what was written is appended to the log in memory.
PushBack ==
    /\ stage = "running" /\ pending # <<>>
    /\ entries' = Log /\ pending' = <<>>
    /\ UNCHANGED <<stage, lives, currentTerm, proxys, stateDb, entriesDb, lastLog>>

\* Fault: any term that a message holds is taken over.
IsNewTermAny(t) == t # currentTerm

\* The handlers call SetAndPersistTerm for a higher term only.
IsNewTerm(t) == t > currentTerm

\* The term is written first; a failure ends the process, and it may also
\* crash between the write and the change in memory.
SetAndPersistTerm(t) ==
    /\ Idle /\ IsNewTerm(t)
    /\ \/ /\ stateDb' = t /\ currentTerm' = t
          /\ UNCHANGED <<stage, entries, pending, proxys, lastLog>>
       \/ Ends /\ stateDb' \in {stateDb, t}
    /\ UNCHANGED <<lives, entriesDb>>

\* The term grows in memory only.
BecomeCandidate ==
    /\ Idle /\ currentTerm < MaxTerm
    /\ currentTerm' = currentTerm + 1
    /\ UNCHANGED <<stage, lives, entries, pending, proxys, stateDb, entriesDb, lastLog>>

\* Also between the write and the append of AppendCfgLog.
Crash == stage = "running" /\ Ends /\ UNCHANGED <<lives, stateDb, entriesDb>>

-----------------------------------------------------------------------------
(* The command line.                                                       *)

\* "start" and "join": the databases are opened as they are, the log in memory
\* is empty, the term 0.  (What "start" appends first is
\* the AppendCfgLog that follows.)
Launch ==
    /\ stage = "off" /\ lives < MaxLives
    /\ stage' = "running" /\ lives' = lives + 1
    /\ UNCHANGED <<entries, pending, currentTerm, proxys, stateDb, entriesDb, lastLog>>

Read(v) == IF v.clean THEN v.entry ELSE Garbled

\* "restart": LoadEntries.  A proxy is made for every configuration entry,
\* and for whatever nodes garbled ones name.  The term is not read.  (An
\* error of the iterator ends the process: nothing is left but the databases,
\* as if there had been no restart.)
LoadEntries ==
    /\ stage = "off" /\ lives > 0
    /\ stage' = "restarted"
    /\ LET vs    == Iterated(entriesDb)
           log   == [i \in DOMAIN vs |-> Read(vs[i])]
           named == {log[i].node : i \in {j \in DOMAIN log : log[j] # Garbled}}
       IN  /\ entries' = log
           /\ \E more \in SUBSET Node :
                 /\ more = {} \/ \E i \in DOMAIN log : log[i] = Garbled
                 /\ proxys' = named \cup more
    /\ UNCHANGED <<lives, pending, currentTerm, stateDb, entriesDb, lastLog>>

\* main returns after LoadEntries.
MainReturns ==
    /\ stage = "restarted" /\ stage' = "off"
    /\ entries' = <<>> /\ proxys' = {}
    /\ UNCHANGED <<lives, pending, currentTerm, stateDb, entriesDb, lastLog>>

-----------------------------------------------------------------------------
Next ==
    \/ Launch \/ Crash \/ LoadEntries \/ MainReturns
    \/ (\E n \in Node : AppendCfgLog(n)) \/ PushBack
    \/ \E t \in Term : SetAndPersistTerm(t)
    \/ BecomeCandidate

Spec == Init /\ [][Next]_vars

-----------------------------------------------------------------------------
(* Properties.                                                             *)

\* The databases hold terms and entries under keys that are texts of indexes.
TypeOK ==
    /\ stage \in {"off", "running", "restarted"} /\ lives \in 0..MaxLives
    /\ entries \in Seq(Entry \cup {Garbled}) /\ pending \in Seq(Entry)
    /\ Len(Log) <= MaxLog /\ Len(pending) <= 1
    /\ Garbled \in Range(entries) => stage = "restarted"
    /\ currentTerm \in Term /\ proxys \subseteq Node
    /\ stateDb \in Term \cup {-1}
    /\ DOMAIN entriesDb \subseteq {Key(i) : i \in 0..(MaxLog - 1)}
    /\ \A k \in DOMAIN entriesDb : entriesDb[k] \in Stored
    /\ lastLog \in Seq(Entry) /\ Len(lastLog) <= MaxLog

\* The keys of entries_db are the indexes from 0 without a hole, however many
\* writes failed and processes ended: the k-th entry LoadEntries meets is
\* the one of index k (RaftServer.cpp:388, 407-416, 511).
KeysContiguous ==
    \E n \in 0..MaxLog : DOMAIN entriesDb = {Key(i) : i \in 0..(n - 1)}

\* While a process runs, its log in memory is on disk, entry for entry; what
\* lies behind it, but for the entry being appended, was written by an
\* earlier process.
MemoryIsOnDisk ==
    stage = "running" =>
        \A i \in 0..(MaxLog - 1) :
            IF i < Len(Log)
            THEN Key(i) \in DOMAIN entriesDb /\ entriesDb[Key(i)].entry = Log[i + 1]
            ELSE Key(i) \in DOMAIN entriesDb => entriesDb[Key(i)].life < lives

\* The terms of a log never decrease, and the server's own term is not behind
\* them; a stored log may break this, where the entries of an older process
\* follow those of the last one (RaftServer.cpp:212, 278, 396).
TermsOrdered ==
    stage = "running" =>
        /\ \A i \in 1..Len(Log) : Log[i].term <= currentTerm
        /\ \A i, j \in 1..Len(Log) : i < j => Log[i].term <= Log[j].term

\* "restart" brings back the log of the last process, in its order, and with
\* it the entry that process had written and not yet appended when it ended
\* (RaftServer.cpp:407-410), followed by what older ones had stored behind it:
\* no entry is missing, and every entry that was stored clean is unchanged
\* (RaftServer.cpp:500-536).
RestartRestores ==
    stage = "restarted" =>
        /\ Len(entries) >= Len(lastLog)
        /\ lives = 1 => Len(entries) = Len(lastLog)
        /\ \A i \in 1..Len(lastLog) :
              entriesDb[Key(i - 1)].clean => entries[i] = lastLog[i] /\ lastLog[i].node \in proxys

===============================================================================
