------------------------------ MODULE ConfigLog ------------------------------
(***************************************************************************)
(* What the replication of nanoraft promises: one log of the servers that  *)
(* joined, of which every member holds a prefix, and of which a prefix     *)
(* that most members hold is committed.                                    *)
(***************************************************************************)
EXTENDS Integers, FiniteSets, Sequences

CONSTANTS Node, Hub

VARIABLES
    log,        \* the servers in the order they joined, the Hub first
    copy,       \* what each node holds of it
    committed,  \* the largest committed index, counted from 0
    known       \* the committed index each node has learned

vars == <<log, copy, committed, known>>

Prefix(k) == SubSeq(log, 1, k)

Members == {log[i] : i \in DOMAIN log}

Init == /\ log = <<Hub>>
        /\ copy = [n \in Node |-> <<>>]
        /\ committed = 0
        /\ known = [n \in Node |-> 0]

Join(n) == /\ n \notin Members
           /\ log' = Append(log, n)
           /\ UNCHANGED <<copy, committed, known>>

\* A member extends its copy of the log, or learns what is committed, or both.
Receive(n) == /\ n \in Members
              /\ \E k \in Len(copy[n])..Len(log) : copy' = [copy EXCEPT ![n] = Prefix(k)]
              /\ \E c \in known[n]..committed : known' = [known EXCEPT ![n] = c]
              /\ UNCHANGED <<log, committed>>

\* The next index is committed once most members hold it; the Hub always does.
Commit == /\ committed + 1 < Len(log)
          /\ LET holders == {n \in Members \ {Hub} : committed + 1 < Len(copy[n])}
             IN  2 * (Cardinality(holders) + 1) > Cardinality(Members)
          /\ committed' = committed + 1
          /\ UNCHANGED <<log, copy, known>>

Next == \/ \E n \in Node : Join(n) \/ Receive(n)
        \/ Commit

Spec == Init /\ [][Next]_vars
=============================================================================
