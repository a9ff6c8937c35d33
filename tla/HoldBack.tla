------------------------------- MODULE HoldBack -------------------------------
(***************************************************************************)
(* The hold-back queue of a redis subscription                             *)
(* (eventloop/RedisChannel.cpp, RedisSubMsgCallback): numbered messages    *)
(* are passed on in order, and one that comes early waits in a map.        *)
(*                                                                         *)
(* Redis promises neither order nor delivery, so any id may come at any    *)
(* time, again, or never.  HoldBackQueueMsgBy looks an id up with          *)
(* operator[], which inserts a null for an id the map does not have.       *)
(*                                                                         *)
(* The class is compiled into the server and nothing constructs it yet;    *)
(* the calls that would hand a message on (AddTimer) are commented out, so *)
(* "passed on" means that m_dwSeq_ has reached the id.                     *)
(***************************************************************************)
EXTENDS Integers, FiniteSets

CONSTANTS
    MaxId,          \* bound: ids published
    SeqSize         \* number of values of m_dwSeq_, a uint32_t (2^32)

\* The code is only meant for ids that m_dwSeq_ can count: at the last value
\* Seq() + 1 wraps to 0 and every old id looks early.
ASSUME MaxIdAssumption == MaxId \in Nat /\ SeqSize \in Nat /\ MaxId + 1 < SeqSize

Id == 1..MaxId

VARIABLES
    seq,            \* m_dwSeq_
    held,           \* keys of m_stHoldBackQueue_ that hold a message
    nulls,          \* keys of m_stHoldBackQueue_ that hold a null
    received        \* history: ids that came at least once

vars == <<seq, held, nulls, received>>

Init == seq = 0 /\ held = {} /\ nulls = {} /\ received = {}

\* Seq() + 1
NextSeq == (seq + 1) % SeqSize

IsHoldBackQueueEmpty == held \cup nulls = {}

\* Fault: the loop stops after one message.
DrainsToFirst(s, last) ==
    last = IF s + 1 \in held THEN s + 1 ELSE s

\* The loop of a message that came in order, whose id is s: held messages
\* follow it up to the first id that is missing.
DrainsTo(s, last) ==
    /\ last >= s
    /\ (s + 1)..last \subseteq held
    /\ last + 1 \notin held

\* Fault: the lookup goes one id too far.
MissingBeyond(last) == {last + 2}

\* The id at which the loop finds a null, and leaves one behind.
Missing(last) == {last + 1}

\* The loop runs while the map has keys, nulls included.
InOrder(id) ==
    /\ id = NextSeq
    /\ \E last \in id..MaxId :
          /\ DrainsTo(id, last)
          /\ seq' = last
          /\ held' = held \ (id..last)
          /\ nulls' = IF held' \cup nulls = {} THEN nulls ELSE nulls \cup Missing(last)

IsEarly(id) == NextSeq < id

Early(id) ==
    /\ IsEarly(id)
    /\ held' = held \cup {id}
    /\ nulls' = nulls \ {id}
    /\ seq' = seq

\* A message that came before is dropped.
Duplicate(id) == NextSeq > id /\ UNCHANGED <<seq, held, nulls>>

RedisSubMsgCallback(id) ==
    /\ InOrder(id) \/ Early(id) \/ Duplicate(id)
    /\ received' = received \cup {id}

Next == \E id \in Id : RedisSubMsgCallback(id)

Spec == Init /\ [][Next]_vars

-----------------------------------------------------------------------------
(* Properties.                                                             *)

\* The queue's variables have their types.
TypeOK ==
    /\ seq \in 0..MaxId
    /\ held \subseteq Id /\ nulls \subseteq 1..(MaxId + 1)
    /\ received \subseteq Id

\* However the ids come, every message received has been passed on or waits,
\* nothing was passed on that did not come, and no message waits for its
\* turn when its turn has come (RedisChannel.cpp:296-358).
PassedOrWaiting ==
    /\ received = 1..seq \cup held
    /\ \A id \in held : id > seq + 1

\* A null that a lookup left behind is never at the key of a message that is
\* still held or still to be held, so it is neither overwritten nor found
\* again by a later loop, and stays for good.
NullsBehind == \A id \in nulls : id <= seq + 1 /\ id \notin held

===============================================================================
