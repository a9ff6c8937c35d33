---------------------------- MODULE NanoRaftPaced ----------------------------
(***************************************************************************)
(* NanoRaft implements ConfigLog as long as the timing it relies on holds. *)
(***************************************************************************)
EXTENDS NanoRaft

\* The Hub sends a node nothing new before the node's last entry is answered
\* (answers take less than the 10 seconds between heartbeats, and nobody joins
\* meanwhile), and leveldb stores what it is given.
PacedNext == Next /\ resent' = {} /\ putErrors' = 0

PacedInit == Init /\ putErrors = 0

PacedSpec == PacedInit /\ [][PacedNext]_vars

\* A node's log without the terms is its copy of the configuration log.
Abstract == INSTANCE ConfigLog WITH
    log       <- Ids(entries[Hub]),
    copy      <- [n \in Node |-> Ids(entries[n])],
    committed <- commitIndex[Hub],
    known     <- [n \in Node |-> commitIndex[n]]

\* Every paced behaviour, with its timeouts, refusals, step-down and crashes,
\* is a behaviour of the configuration log: prefixes only, in order, and no
\* index committed that most of the cluster does not hold.
ImplementsConfigLog == Abstract!Spec
=============================================================================
