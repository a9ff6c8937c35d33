---------------------------- MODULE HoldBackProofs ----------------------------
(***************************************************************************)
(* Proofs about the hold-back queue, for any number of ids below the size  *)
(* of the sequence number.  The three invariants are inductive together:   *)
(* a message that comes in order may take the held ones after it only      *)
(* because none of them was due before, and a null stays behind only       *)
(* because the loop stops right above the sequence number.                 *)
(***************************************************************************)
EXTENDS HoldBack, TLAPS

Inv == TypeOK /\ PassedOrWaiting /\ NullsBehind

\* No id of the bound brings Seq() + 1 to the wrap of its uint32_t.
LEMMA NoWrap ==
    ASSUME TypeOK
    PROVE  NextSeq = seq + 1
<1>1. seq + 1 \in 0..(SeqSize - 1)
  BY MaxIdAssumption DEF TypeOK
<1>2. \A x \in 0..(SeqSize - 1) : x % SeqSize = x
  BY MaxIdAssumption, SMTT(30)
<1> QED
  BY <1>1, <1>2 DEF NextSeq

\* A message that comes in order, with the loop over the queue after it.
LEMMA InOrderKeepsInv ==
    ASSUME Inv, NEW id \in Id, InOrder(id), received' = received \cup {id}
    PROVE  Inv'
<1> USE MaxIdAssumption
<1>1. id = seq + 1
  BY NoWrap DEF Inv, InOrder
<1>2. PICK last \in id..MaxId :
          /\ DrainsTo(id, last)
          /\ seq' = last
          /\ held' = held \ (id..last)
          /\ nulls' = IF held' \cup nulls = {} THEN nulls ELSE nulls \cup Missing(last)
  BY DEF InOrder
<1>3. TypeOK'
  BY <1>1, <1>2 DEF Inv, TypeOK, Missing, Id
<1>4. held' \cup 1..last = held \cup 1..(seq + 1)
  BY <1>1, <1>2 DEF Inv, TypeOK, PassedOrWaiting, DrainsTo, Id
<1>5. received' = 1..seq' \cup held'
  BY <1>1, <1>2, <1>4 DEF Inv, TypeOK, PassedOrWaiting, Id
<1>6. \A k \in held' : k > seq' + 1
  BY <1>1, <1>2 DEF Inv, TypeOK, PassedOrWaiting, DrainsTo, Id
<1>7. \A k \in nulls' : k <= seq' + 1 /\ k \notin held'
  BY <1>1, <1>2, <1>6 DEF Inv, TypeOK, NullsBehind, Missing, Id
<1> QED
  BY <1>3, <1>5, <1>6, <1>7 DEF Inv, PassedOrWaiting, NullsBehind

\* A message that comes early.
LEMMA EarlyKeepsInv ==
    ASSUME Inv, NEW id \in Id, Early(id), received' = received \cup {id}
    PROVE  Inv'
<1> USE MaxIdAssumption
<1>1. id > seq + 1 /\ seq' = seq /\ held' = held \cup {id} /\ nulls' = nulls \ {id}
  BY NoWrap DEF Inv, Early, IsEarly, Id
<1>2. TypeOK'
  BY <1>1 DEF Inv, TypeOK, Id
<1>3. PassedOrWaiting'
  BY <1>1 DEF Inv, TypeOK, PassedOrWaiting, Id
<1>4. NullsBehind'
  BY <1>1 DEF Inv, TypeOK, NullsBehind, Id
<1> QED
  BY <1>2, <1>3, <1>4 DEF Inv

\* A message that came before.
LEMMA DuplicateKeepsInv ==
    ASSUME Inv, NEW id \in Id, Duplicate(id), received' = received \cup {id}
    PROVE  Inv'
<1> USE MaxIdAssumption
<1>1. id <= seq /\ UNCHANGED <<seq, held, nulls>>
  BY NoWrap DEF Inv, Duplicate, TypeOK, Id
<1>2. received' = received
  BY <1>1 DEF Inv, TypeOK, PassedOrWaiting, Id
<1> QED
  BY <1>1, <1>2 DEF Inv, TypeOK, PassedOrWaiting, NullsBehind

\* The hold-back queue keeps all three invariants (RedisChannel.cpp:296-358).
THEOREM QueueInvariant == Spec => []Inv
<1> USE MaxIdAssumption
<1>1. Init => Inv
  BY DEF Init, Inv, TypeOK, PassedOrWaiting, NullsBehind
<1>2. Inv /\ [Next]_vars => Inv'
  <2> SUFFICES ASSUME Inv, [Next]_vars PROVE Inv'
    OBVIOUS
  <2>1. CASE Next
    <3>1. PICK id \in Id : RedisSubMsgCallback(id)
      BY <2>1 DEF Next
    <3> QED
      BY <3>1, InOrderKeepsInv, EarlyKeepsInv, DuplicateKeepsInv DEF RedisSubMsgCallback
  <2>2. CASE UNCHANGED vars
    BY <2>2 DEF vars, Inv, TypeOK, PassedOrWaiting, NullsBehind
  <2> QED
    BY <2>1, <2>2
<1> QED
  BY <1>1, <1>2, PTL DEF Spec

\* However the ids come, the counter stays at an id that was published, and
\* nothing is held under any other key (RedisChannel.cpp:296-358).
THEOREM QueueTypeCorrect == Spec => []TypeOK
<1>1. Inv => TypeOK
  BY DEF Inv
<1> QED
  BY <1>1, QueueInvariant, PTL

\* In whatever order, and however often, the ids come: each one received was
\* passed on or waits, and none waits whose turn has come.
THEOREM NothingLostNothingStuck == Spec => []PassedOrWaiting
<1>1. Inv => PassedOrWaiting
  BY DEF Inv
<1> QED
  BY <1>1, QueueInvariant, PTL

\* A null that a lookup inserted never stands where a message is or will be.
THEOREM NullsStayBehind == Spec => []NullsBehind
<1>1. Inv => NullsBehind
  BY DEF Inv
<1> QED
  BY <1>1, QueueInvariant, PTL

===============================================================================
