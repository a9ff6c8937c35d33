---------------------------- MODULE StreamProofs ----------------------------
(***************************************************************************)
(* One connection, for any length of messages, any socket that takes a     *)
(* message whole, and any size of the buffers: EPOLLOUT at a node, the     *)
(* bound on the overrun of a receive, and that the connection, however it  *)
(* cuts the bytes, implements MessageLink.                                 *)
(***************************************************************************)
EXTENDS MCStream, TLAPS, SequenceTheorems, NaturalsInduction, WellFoundedInduction

-----------------------------------------------------------------------------
(* EPOLLOUT at a node.                                                     *)

\* NodeInterest is not inductive alone: the handshake is sent without setting
\* EPOLLOUT, which is right only because nothing was sent before it.
InterestInv ==
    /\ DOMAIN outBuf = End /\ DOMAIN wire = End /\ DOMAIN wantWrite = End
    /\ link # "up" => outBuf["node"] = <<>> /\ wire["node"] = <<>>
    /\ link = "up" => (wantWrite["node"] <=> outBuf["node"] # <<>>)

\* A handshake that meets an empty buffer and an empty socket goes out whole.
LEMMA HandshakeGoesOut ==
    ASSUME NEW f \in Frames(HandshakeQ), NEW over
    PROVE  QueueAndSend([out |-> <<>>, wire |-> <<>>, over |-> over], f).out = <<>>
<1> DEFINE body == [i \in 1..MaxBody |-> 0]
           len == Len(f)
<1>1. f = <<HandshakeQ, MaxBody>> \o body
      BY DEF Frames, Frame
<1>2. body \in Seq(Nat) /\ Len(body) = MaxBody
      BY CapAssumption
<1>3. <<HandshakeQ, MaxBody>> \in Seq(Nat) /\ Len(<<HandshakeQ, MaxBody>>) = 2
      BY CapAssumption DEF HandshakeQ
<1>4. f \in Seq(Nat) /\ len = 2 + MaxBody
  <2> HIDE DEF body
  <2> QED BY <1>1, <1>2, <1>3
<1>5. len < SockCap /\ len \in Nat /\ SockCap \in Nat
      BY <1>4, CapAssumption DEF HeaderLen
<1>6. AtMost(SockCap - 0, len) = len
      BY <1>5 DEF AtMost
<1>7. <<>> \o f = f
      BY <1>4
<1>8. SubSeq(f, len + 1, len) = <<>>
      BY <1>4, <1>5
<1>9. QueueAndSend([out |-> <<>>, wire |-> <<>>, over |-> over], f).out
         = SubSeq(<<>> \o f, AtMost(SockCap - Len(<<>>), Len(<<>> \o f)) + 1, Len(<<>> \o f))
      BY DEF QueueAndSend, Send
<1> QED BY <1>6, <1>7, <1>8, <1>9

\* What one end sends changes nothing at the other.
LEMMA SentFacts ==
    ASSUME NEW e \in End, NEW o, Sent(e, o), InterestInv
    PROVE  /\ DOMAIN outBuf' = End /\ DOMAIN wire' = End
           /\ outBuf'[e] = o.out
           /\ \A d \in End : d # e => outBuf'[d] = outBuf[d] /\ wire'[d] = wire[d]
BY DEF Sent, InterestInv

LEMMA InterestStep == InterestInv /\ [Next]_vars => InterestInv'
<1> SUFFICES ASSUME InterestInv, [Next]_vars PROVE InterestInv'
    OBVIOUS
<1>e. "node" \in End /\ "hub" \in End /\ "node" # "hub"
      BY DEF End
<1>1. CASE TryConnect
  <2>1. link # "up" /\ link' # "up" /\ UNCHANGED <<outBuf, wire>> /\ DOMAIN wantWrite' = DOMAIN wantWrite
        BY <1>1 DEF TryConnect
  <2> QED BY <2>1 DEF InterestInv
<1>2. CASE AcceptedCallback
  <2>1. link # "up" /\ DOMAIN wantWrite' = End /\ wantWrite'["node"] = FALSE
        BY <1>2, <1>e DEF AcceptedCallback, InterestInv
  <2>2. CASE link' = "up" /\ SendHandShakeQ
    <3>1. PICK f \in Frames(HandshakeQ) : Sent("node", QueueAndSend(Outgoing("node"), f))
          BY <2>2 DEF SendHandShakeQ
    <3>2. Outgoing("node") = [out |-> <<>>, wire |-> <<>>, over |-> FALSE]
          BY <2>1 DEF Outgoing, InterestInv
    <3>3. QueueAndSend(Outgoing("node"), f).out = <<>>
          BY <3>2, HandshakeGoesOut
    <3>4. DOMAIN outBuf' = End /\ DOMAIN wire' = End /\ outBuf'["node"] = <<>>
          BY <1>e, <3>1, <3>3, SentFacts
    <3> QED BY <2>1, <2>2, <3>4 DEF InterestInv
  <2>3. CASE link' = "failed" /\ UNCHANGED <<outBuf, wire, alive>>
        BY <2>1, <2>3 DEF InterestInv
  <2> QED BY <1>2, <2>2, <2>3 DEF AcceptedCallback
<1>3. ASSUME NEW e \in End, RecvCallback(e) PROVE InterestInv'
      BY <1>3 DEF RecvCallback, Free, InterestInv
<1>4. ASSUME NEW e \in End, HandleFrame(e) PROVE InterestInv'
  <2>1. /\ link = "up" /\ link' = "up"
        /\ wantWrite' = [wantWrite EXCEPT ![e] = (outBuf'[e] # <<>>)]
        BY <1>4 DEF HandleFrame, InterestAfter
  <2>2. PICK a \in Answered(Outgoing(e), inBuf[e][1]) : Sent(e, a.sent)
        BY <1>4 DEF HandleFrame
  <2>3. /\ DOMAIN outBuf' = End /\ DOMAIN wire' = End
        /\ \A d \in End : d # e => outBuf'[d] = outBuf[d]
        BY <2>2, SentFacts
  <2> QED BY <1>e, <2>1, <2>3 DEF InterestInv
<1>5. ASSUME NEW e \in End, SendCallback(e) PROVE InterestInv'
  <2>1. /\ link = "up" /\ link' = "up"
        /\ wantWrite' = [wantWrite EXCEPT ![e] = (outBuf'[e] # <<>>)]
        /\ Sent(e, Send(Outgoing(e)))
        BY <1>5 DEF SendCallback, Free
  <2>2. /\ DOMAIN outBuf' = End /\ DOMAIN wire' = End
        /\ \A d \in End : d # e => outBuf'[d] = outBuf[d]
        BY <2>1, SentFacts
  <2> QED BY <1>e, <2>1, <2>2 DEF InterestInv
<1>6. CASE SendAppendEntries
  <2>1. PICK f \in Frames(AppendEntriesQ) : Sent("hub", QueueAndSend(Outgoing("hub"), f))
        BY <1>6 DEF SendAppendEntries
  <2>2. link = "up" /\ UNCHANGED <<link, wantWrite>>
        BY <1>6 DEF SendAppendEntries, Free
  <2>3. DOMAIN outBuf' = End /\ DOMAIN wire' = End /\ outBuf'["node"] = outBuf["node"]
        BY <1>e, <2>1, SentFacts
  <2> QED BY <2>2, <2>3 DEF InterestInv
<1>7. CASE UNCHANGED vars
      BY <1>7 DEF InterestInv, vars
<1> QED BY <1>1, <1>2, <1>3, <1>4, <1>5, <1>6, <1>7 DEF Next

\* At a node EPOLLOUT is on exactly while bytes wait in the buffer, although
\* the handshake is sent without setting it (Conn.cpp:268, Mod.cpp:132-139,
\* Conn.cpp:179-191).
THEOREM NodeNeverStrandsNorSpins == Spec => []NodeInterest
<1>1. Init => InterestInv
      BY DEF Init, InterestInv, End
<1>2. InterestInv => NodeInterest
      BY DEF InterestInv, NodeInterest
<1> QED BY <1>1, <1>2, InterestStep, PTL DEF Spec

-----------------------------------------------------------------------------
(* The front of a sequence of bytes.                                       *)

LEMMA Assoc ==
    \A a, b, c \in Seq(Byte) : (a \o b) \o c = a \o (b \o c)
<1> SUFFICES ASSUME NEW a \in Seq(Byte), NEW b \in Seq(Byte), NEW c \in Seq(Byte)
             PROVE  (a \o b) \o c = a \o (b \o c)
    OBVIOUS
<1> QED BY ConcatAssociative

LEMMA Split ==
    ASSUME NEW s \in Seq(Byte), NEW n \in 0..Len(s)
    PROVE  /\ SubSeq(s, 1, n) \in Seq(Byte) /\ Len(SubSeq(s, 1, n)) = n
           /\ SubSeq(s, n + 1, Len(s)) \in Seq(Byte)
           /\ SubSeq(s, 1, n) \o SubSeq(s, n + 1, Len(s)) = s
<1>1. Len(s) \in Nat /\ n \in Nat /\ n <= Len(s)
      OBVIOUS
<1>2. \A i \in 1..Len(s) : s[i] \in Byte
      BY ElementOfSeq
<1>3. SubSeq(s, 1, n) \in Seq(Byte) /\ Len(SubSeq(s, 1, n)) = n
  <2>1. \A i \in 1..n : s[i] \in Byte
        BY <1>1, <1>2
  <2>2. /\ SubSeq(s, 1, n) \in Seq(Byte)
        /\ Len(SubSeq(s, 1, n)) = IF 1 <= n THEN n - 1 + 1 ELSE 0
        BY ONLY <1>1, <2>1, SubSeqProperties
  <2> QED BY <1>1, <2>2
<1>4. SubSeq(s, n + 1, Len(s)) \in Seq(Byte)
  <2>1. n + 1 \in Int /\ Len(s) \in Int /\ \A i \in (n + 1)..Len(s) : s[i] \in Byte
        BY <1>1, <1>2
  <2> QED BY ONLY <2>1, SubSeqProperties
<1>5. SubSeq(s, 1, n) \o SubSeq(s, n + 1, Len(s)) = SubSeq(s, 1, Len(s))
  <2>1. 1 \in 1..(Len(s) + 1) /\ n \in (1 - 1)..Len(s) /\ Len(s) \in n..Len(s) /\ s \in Seq(Byte)
        BY <1>1
  <2> QED BY ONLY <2>1, ConcatAdjacentSubSeq
<1>6. SubSeq(s, 1, Len(s)) = s
      BY SubSeqFull
<1> QED BY <1>3, <1>4, <1>5, <1>6

FirstOf(s) == [id |-> s[1], len |-> s[2]]

LEMMA RestShorter ==
    ASSUME NEW s \in Seq(Byte), Complete(s)
    PROVE  Rest(s) \in Seq(Byte) /\ Len(Rest(s)) \in Nat /\ Len(Rest(s)) < Len(s)
<1> DEFINE k == HeaderLen + s[2]
<1>1. Len(s) \in Nat /\ 2 \in 1..Len(s)
      BY DEF Complete, HeaderLen
<1>2. s[2] \in Byte
      BY <1>1, ElementOfSeq
<1>3. s[2] \in Nat
      BY <1>2, CapAssumption DEF Byte
<1>4. k \in 0..Len(s) /\ k \in Nat /\ k > 0 /\ Rest(s) = SubSeq(s, k + 1, Len(s))
      BY <1>1, <1>3 DEF Complete, Rest, HeaderLen
<1> HIDE DEF k
<1> DEFINE pre == SubSeq(s, 1, k)
           post == SubSeq(s, k + 1, Len(s))
<1>5. pre \in Seq(Byte) /\ Len(pre) = k /\ post \in Seq(Byte) /\ pre \o post = s
      BY <1>4, Split
<1> HIDE DEF pre, post
<1>6. Len(pre \o post) = Len(pre) + Len(post) /\ Len(post) \in Nat
      BY ONLY <1>5, ConcatProperties, LenProperties
<1>7. Len(post) < Len(s)
      BY <1>1, <1>4, <1>5, <1>6
<1> QED BY <1>4, <1>5, <1>6, <1>7 DEF post

\* A whole message at the front of a is the one at the front of a \o r.
LEMMA RestConcat ==
    ASSUME NEW a \in Seq(Byte), NEW r \in Seq(Byte), Complete(a)
    PROVE  /\ a \o r \in Seq(Byte) /\ Complete(a \o r)
           /\ FirstOf(a \o r) = FirstOf(a)
           /\ Rest(a) \in Seq(Byte) /\ Rest(a \o r) = Rest(a) \o r
<1> DEFINE t == a \o r
           k == HeaderLen + a[2]
<1>1. /\ t \in Seq(Byte) /\ Len(t) = Len(a) + Len(r)
      /\ \A i \in 1..(Len(a) + Len(r)) : t[i] = IF i <= Len(a) THEN a[i] ELSE r[i - Len(a)]
      BY ConcatProperties
<1>2. Len(a) \in Nat /\ Len(r) \in Nat /\ 2 \in 1..Len(a)
      BY DEF Complete, HeaderLen
<1>3. a[2] \in Nat
  <2>1. a[2] \in Byte
        BY <1>2, ElementOfSeq
  <2> QED BY <2>1, CapAssumption DEF Byte
<1> HIDE DEF t
<1>4. t[1] = a[1] /\ t[2] = a[2]
      BY <1>1, <1>2
<1>5. Complete(t) /\ FirstOf(t) = FirstOf(a)
      BY <1>1, <1>2, <1>3, <1>4 DEF Complete, FirstOf, HeaderLen
<1>6. k \in 0..Len(a) /\ k \in 0..Len(t) /\ k \in Nat
      BY <1>1, <1>2, <1>3 DEF Complete, HeaderLen
<1>7. Rest(a) = SubSeq(a, k + 1, Len(a)) /\ Rest(t) = SubSeq(t, k + 1, Len(t))
      BY <1>4 DEF Rest
<1> HIDE DEF k
<1> DEFINE pre == SubSeq(a, 1, k)
           post == SubSeq(a, k + 1, Len(a))
           tpre == SubSeq(t, 1, k)
           tpost == SubSeq(t, k + 1, Len(t))
<1>8. pre \in Seq(Byte) /\ Len(pre) = k /\ post \in Seq(Byte) /\ pre \o post = a
      BY <1>6, Split
<1>9. tpre \in Seq(Byte) /\ Len(tpre) = k /\ tpost \in Seq(Byte) /\ tpre \o tpost = t
      BY <1>1, <1>6, Split
<1>10. tpre = pre
  <2>1. (\A i \in 1..k : a[i] \in Byte) /\ (\A i \in 1..k : t[i] \in Byte)
    <3>1. \A i \in 1..k : i \in 1..Len(a) /\ i \in 1..Len(t)
          BY <1>1, <1>2, <1>6
    <3> QED BY <3>1, <1>1, ElementOfSeq
  <2>2. \A i \in 1..(k - 1 + 1) : pre[i] = a[1 + i - 1]
        BY ONLY <1>6, <2>1, SubSeqProperties
  <2>3. \A i \in 1..(k - 1 + 1) : tpre[i] = t[1 + i - 1]
        BY ONLY <1>6, <2>1, SubSeqProperties
  <2> HIDE DEF pre, tpre
  <2>4. \A i \in 1..k : pre[i] = tpre[i]
    <3>1. ASSUME NEW i \in 1..k PROVE pre[i] = tpre[i]
      <4>1. i \in 1..(k - 1 + 1) /\ 1 + i - 1 = i /\ i \in 1..(Len(a) + Len(r)) /\ i <= Len(a)
            BY <1>2, <1>6
      <4>2. pre[i] = a[i] /\ tpre[i] = t[i]
            BY <2>2, <2>3, <4>1
      <4> QED BY <4>1, <4>2, <1>1
    <3> QED BY <3>1
  <2>5. Len(pre) = Len(tpre) /\ \A i \in 1..Len(pre) : pre[i] = tpre[i]
        BY <1>8, <1>9, <2>4
  <2>6. pre \in Seq(Byte) /\ tpre \in Seq(Byte)
        BY <1>8, <1>9
  <2> QED BY ONLY <2>5, <2>6, SeqEqual
<1> HIDE DEF pre, post, tpre, tpost
<1>11. pre \o tpost = pre \o (post \o r)
  <2>1. pre \in Seq(Byte) /\ post \in Seq(Byte) /\ r \in Seq(Byte)
        BY <1>8
  <2>2. (pre \o post) \o r = pre \o (post \o r)
        BY ONLY <2>1, Assoc
  <2> QED BY <2>2, <1>8, <1>9, <1>10 DEF t
<1>12. post \o r \in Seq(Byte)
  <2>1. post \in Seq(Byte) /\ r \in Seq(Byte)
        BY <1>8
  <2> QED BY ONLY <2>1, ConcatProperties
<1>13. tpost = post \o r
  <2> DEFINE v == post \o r
  <2>1. pre \in Seq(Byte) /\ v \in Seq(Byte) /\ tpost \in Seq(Byte) /\ pre \o tpost = pre \o v
        BY <1>8, <1>9, <1>11, <1>12
  <2> HIDE DEF v
  <2>2. tpost = v
        BY ONLY <2>1, ConcatSimplifications
  <2> QED BY <2>2 DEF v
<1> QED BY <1>1, <1>5, <1>7, <1>8, <1>13 DEF t, post, tpost

-----------------------------------------------------------------------------
(* Bytes that spell whole messages.                                        *)

\* B are the places in s where a message begins, and the one behind the last.
Bounds(s, B) ==
    /\ B \subseteq 1..(Len(s) + 1)
    /\ 1 \in B /\ Len(s) + 1 \in B
    /\ \A b \in B : b # Len(s) + 1 =>
          b + 1 <= Len(s) /\ s[b + 1] \in 0..MaxBody /\ b + HeaderLen + s[b + 1] \in B

Framed(s) == \E B \in SUBSET Nat : Bounds(s, B)

LEMMA FrameBytes ==
    ASSUME NEW id \in 1..4, NEW len \in 0..MaxBody
    PROVE  /\ Frame(id, len) \in Seq(Byte)
           /\ Len(Frame(id, len)) = HeaderLen + len
           /\ Frame(id, len)[1] = id /\ Frame(id, len)[2] = len
<1> DEFINE body == [i \in 1..len |-> 0]
           head == <<id, len>>
<1>0. len \in Nat /\ id \in Byte /\ len \in Byte /\ 0 \in Byte
      BY CapAssumption DEF Byte
<1>1. body \in Seq(Byte) /\ Len(body) = len
      BY <1>0
<1>2. head \in Seq(Byte) /\ Len(head) = 2 /\ head[1] = id /\ head[2] = len
      BY <1>0
<1>3. Frame(id, len) = head \o body
      BY DEF Frame
<1> HIDE DEF body, head
<1>4. /\ head \o body \in Seq(Byte)
      /\ Len(head \o body) = Len(head) + Len(body)
      /\ \A i \in 1..(Len(head) + Len(body)) :
            (head \o body)[i] = IF i <= Len(head) THEN head[i] ELSE body[i - Len(head)]
      BY ONLY <1>1, <1>2, ConcatProperties
<1>5. /\ Len(head \o body) = 2 + len
      /\ (head \o body)[1] = head[1] /\ (head \o body)[2] = head[2]
      BY <1>0, <1>1, <1>2, <1>4
<1> QED BY <1>2, <1>3, <1>4, <1>5 DEF HeaderLen

LEMMA FramedEmpty == Framed(<<>>)
<1>1. Bounds(<<>>, {1})
      BY DEF Bounds
<1> QED BY <1>1 DEF Framed

\* A message behind whole messages.
LEMMA FramedAppend ==
    ASSUME NEW s \in Seq(Byte), Framed(s), NEW f \in Seq(Byte), NEW len \in 0..MaxBody,
           Len(f) = HeaderLen + len, f[2] = len
    PROVE  Framed(s \o f)
<1>1. PICK B \in SUBSET Nat : Bounds(s, B)
      BY DEF Framed
<1> DEFINE t == s \o f
           C == B \cup {Len(s) + HeaderLen + len + 1}
<1>2. Len(s) \in Nat /\ len \in Nat /\ MaxBody \in Nat
      BY CapAssumption
<1>3. /\ Len(t) = Len(s) + HeaderLen + len
      /\ \A i \in 1..Len(s) : t[i] = s[i]
      /\ t[Len(s) + 2] = len
  <2>1. /\ Len(t) = Len(s) + Len(f)
        /\ \A i \in 1..(Len(s) + Len(f)) : t[i] = IF i <= Len(s) THEN s[i] ELSE f[i - Len(s)]
        BY ConcatProperties
  <2> HIDE DEF t
  <2> QED BY <1>2, <2>1 DEF HeaderLen
<1> HIDE DEF t
<1> DEFINE z == Len(s) + HeaderLen + len + 1
<1>4. z \in Nat /\ z = Len(t) + 1 /\ Len(t) \in Nat /\ z = Len(s) + 1 + HeaderLen + len
      BY <1>2, <1>3 DEF HeaderLen
<1>5. C = B \cup {z}
      OBVIOUS
<1> HIDE DEF C, z
<1>6. C \in SUBSET Nat
      BY <1>4, <1>5
<1>7. Bounds(t, C)
  <2>1. C \subseteq 1..(Len(t) + 1) /\ 1 \in C /\ Len(t) + 1 \in C
    <3>1. B \subseteq 1..(Len(s) + 1) /\ 1 \in B
          BY <1>1 DEF Bounds
    <3>2. \A b \in 1..(Len(s) + 1) : b \in 1..(Len(t) + 1)
          BY <1>2, <1>3 DEF HeaderLen
    <3>3. z \in 1..(Len(t) + 1)
          BY <1>4
    <3>4. \A b \in C : b \in 1..(Len(t) + 1)
          BY <3>1, <3>2, <3>3, <1>5
    <3> QED BY <3>1, <3>4, <1>4, <1>5
  <2>2. ASSUME NEW b \in C, b # Len(t) + 1
        PROVE  b + 1 <= Len(t) /\ t[b + 1] \in 0..MaxBody /\ b + HeaderLen + t[b + 1] \in C
    <3>1. b \in B /\ b \in Nat /\ b >= 1
          BY <2>2, <1>1, <1>4, <1>5, <1>6 DEF Bounds
    <3>2. CASE b = Len(s) + 1
      <4>1. b + 1 = Len(s) + 2 /\ t[b + 1] = len
            BY <1>2, <1>3, <3>2
      <4>2. b + HeaderLen + t[b + 1] = z
            BY <4>1, <3>2, <1>4
      <4>3. b + 1 <= Len(t)
            BY <1>2, <1>3, <4>1 DEF HeaderLen
      <4> QED BY <4>1, <4>2, <4>3, <1>5
    <3>3. CASE b # Len(s) + 1
      <4>1. b + 1 <= Len(s) /\ s[b + 1] \in 0..MaxBody /\ b + HeaderLen + s[b + 1] \in B
            BY <3>1, <3>3, <1>1 DEF Bounds
      <4>2. t[b + 1] = s[b + 1] /\ b + 1 <= Len(t)
            BY <1>2, <1>3, <3>1, <4>1 DEF HeaderLen
      <4> QED BY <4>1, <4>2, <1>5
    <3> QED BY <3>2, <3>3
  <2> QED BY <2>1, <2>2 DEF Bounds
<1> QED BY <1>6, <1>7 DEF Framed, t

\* What stands first in a buffer is a header with the length of a body.
LEMMA FramedFirst ==
    ASSUME NEW a \in Seq(Byte), NEW r \in Seq(Byte), Framed(a \o r), Len(a) >= HeaderLen
    PROVE  a[2] \in 0..MaxBody
<1>1. PICK B \in SUBSET Nat : Bounds(a \o r, B)
      BY DEF Framed
<1> DEFINE t == a \o r
<1>2. Len(a) \in Nat /\ Len(r) \in Nat /\ Len(t) = Len(a) + Len(r) /\ t[2] = a[2]
      BY ConcatProperties DEF HeaderLen
<1> HIDE DEF t
<1>3. Bounds(t, B)
      BY <1>1 DEF t
<1> QED BY <1>2, <1>3 DEF Bounds, HeaderLen

\* Whole messages begin with one, and without it whole messages remain.
LEMMA FramedWhole ==
    ASSUME NEW t \in Seq(Byte), Framed(t), t # <<>>
    PROVE  Complete(t) /\ Rest(t) \in Seq(Byte) /\ Framed(Rest(t))
<1> DEFINE k == HeaderLen + t[2]
           n == Len(t)
           u == Rest(t)
<1>1. PICK B \in SUBSET Nat : Bounds(t, B)
      BY DEF Framed
<1>2. n \in Nat /\ n > 0
      OBVIOUS
<1>3. /\ B \subseteq 1..(n + 1) /\ 1 \in B /\ n + 1 \in B
      /\ \A b \in B : b # n + 1 =>
            b + 1 <= n /\ t[b + 1] \in 0..MaxBody /\ b + HeaderLen + t[b + 1] \in B
      BY <1>1 DEF Bounds
<1>4. 2 <= n /\ t[2] \in 0..MaxBody /\ 1 + HeaderLen + t[2] \in B
  <2>1. 1 # n + 1 /\ 1 + 1 = 2
        BY <1>2
  <2> QED BY <1>3, <2>1
<1>5. k \in Nat /\ k >= 2 /\ 1 + HeaderLen + t[2] = k + 1 /\ HeaderLen + t[2] = k
      BY <1>4, CapAssumption DEF HeaderLen
<1>6. t[2] \in Nat
      BY <1>4, CapAssumption
<1>7. Len(t) = n /\ Rest(t) = SubSeq(t, k + 1, n)
      BY DEF Rest
<1> HIDE DEF k, n
<1>8. k + 1 \in B /\ k <= n
      BY <1>2, <1>3, <1>4, <1>5
<1>9. Complete(t)
      BY <1>4, <1>5, <1>7, <1>8 DEF Complete, HeaderLen
<1>10. /\ u \in Seq(Byte) /\ Len(u) = n - k
       /\ \A i \in 1..(n - k) : u[i] = t[i + k]
  <2>1. \A i \in (k + 1)..n : t[i] \in Byte
    <3>1. \A i \in (k + 1)..n : i \in 1..Len(t)
          BY <1>2, <1>5, <1>7
    <3> QED BY <3>1, ElementOfSeq
  <2>2. k + 1 \in Int /\ n \in Int
        BY <1>2, <1>5
  <2>3. /\ SubSeq(t, k + 1, n) \in Seq(Byte)
        /\ Len(SubSeq(t, k + 1, n)) = IF k + 1 <= n THEN n - (k + 1) + 1 ELSE 0
        /\ \A i \in 1..(n - (k + 1) + 1) : SubSeq(t, k + 1, n)[i] = t[(k + 1) + i - 1]
        BY ONLY <2>1, <2>2, SubSeqProperties
  <2>4. n - (k + 1) + 1 = n - k /\ \A i \in Int : (k + 1) + i - 1 = i + k
        BY <1>2, <1>5
  <2>5. (IF k + 1 <= n THEN n - (k + 1) + 1 ELSE 0) = n - k
        BY <1>2, <1>5, <1>8
  <2>6. \A i \in 1..(n - k) : SubSeq(t, k + 1, n)[i] = t[i + k]
    <3> DEFINE v == SubSeq(t, k + 1, n)
               z == n - (k + 1) + 1
    <3>1. \A i \in 1..z : v[i] = t[(k + 1) + i - 1]
          BY <2>3
    <3>2. z = n - k
          BY <2>4
    <3> HIDE DEF v, z
    <3>3. ASSUME NEW i \in 1..(n - k) PROVE v[i] = t[i + k]
      <4>1. i \in 1..z /\ i \in Int
            BY <3>2
      <4>2. (k + 1) + i - 1 = i + k
            BY <2>4, <4>1
      <4>3. v[i] = t[(k + 1) + i - 1]
            BY <3>1, <4>1
      <4> QED BY <4>2, <4>3
    <3> QED BY <3>3 DEF v
  <2> QED BY <1>7, <2>3, <2>5, <2>6
<1> HIDE DEF u
<1> DEFINE C == {c \in 1..(n - k + 1) : c + k \in B}
<1>11. C \in SUBSET Nat
      OBVIOUS
<1>12. \A c : c \in C <=> c \in 1..(n - k + 1) /\ c + k \in B
      OBVIOUS
<1> HIDE DEF C
<1>13. C \subseteq 1..(Len(u) + 1) /\ 1 \in C /\ Len(u) + 1 \in C
  <2>1. 1 \in 1..(n - k + 1) /\ n - k + 1 \in 1..(n - k + 1) /\ 1 + k = k + 1 /\ n - k + 1 + k = n + 1
        BY <1>2, <1>5, <1>8
  <2> QED BY <1>3, <1>8, <1>10, <1>12, <2>1
<1>14. ASSUME NEW c \in C, c # Len(u) + 1
       PROVE  c + 1 <= Len(u) /\ u[c + 1] \in 0..MaxBody /\ c + HeaderLen + u[c + 1] \in C
  <2> DEFINE b == c + k
             x == u[c + 1]
  <2>1. c \in Nat /\ c >= 1 /\ c <= n - k + 1 /\ b \in B /\ b \in Nat /\ b # n + 1
        BY <1>2, <1>5, <1>8, <1>10, <1>12, <1>14
  <2>2. b = c + k
        OBVIOUS
  <2> HIDE DEF b
  <2>3. b + 1 <= n /\ t[b + 1] \in 0..MaxBody /\ b + HeaderLen + t[b + 1] \in B
        BY <1>3, <2>1
  <2>4. c + 1 \in 1..(n - k) /\ c + 1 + k = b + 1
        BY <1>2, <1>5, <2>1, <2>2, <2>3
  <2>5. x = t[b + 1]
        BY <1>10, <2>4
  <2> HIDE DEF x
  <2>6. x \in 0..MaxBody /\ x \in Nat /\ b + HeaderLen + x \in B
        BY <2>3, <2>5, CapAssumption
  <2>7. c + HeaderLen + x + k = b + HeaderLen + x
        BY <1>5, <2>1, <2>2, <2>6 DEF HeaderLen
  <2>8. b + HeaderLen + x <= n + 1
    <3> DEFINE y == b + HeaderLen + x
    <3>1. y \in B /\ B \subseteq 1..(n + 1)
          BY <1>3, <2>6
    <3> HIDE DEF y
    <3>2. y <= n + 1
          BY <1>2, <3>1
    <3> QED BY <3>2 DEF y
  <2>9. c + HeaderLen + x \in 1..(n - k + 1)
        BY <1>2, <1>5, <2>1, <2>6, <2>7, <2>8 DEF HeaderLen
  <2>10. c + HeaderLen + x \in C
        BY <1>12, <2>6, <2>7, <2>9
  <2>11. c + 1 <= Len(u)
        BY <1>2, <1>5, <1>10, <2>4
  <2> QED BY <2>6, <2>10, <2>11 DEF x
<1>15. Framed(u)
      BY <1>11, <1>13, <1>14 DEF Framed, Bounds
<1> QED BY <1>9, <1>10, <1>15 DEF u

\* The same where only a, the front of the bytes, is at hand.
LEMMA FramedRest ==
    ASSUME NEW a \in Seq(Byte), NEW r \in Seq(Byte), Framed(a \o r), Complete(a)
    PROVE  Rest(a) \in Seq(Byte) /\ Framed(Rest(a) \o r)
<1> DEFINE t == a \o r
<1>1. t \in Seq(Byte) /\ Complete(t) /\ Rest(a) \in Seq(Byte) /\ Rest(t) = Rest(a) \o r
      BY RestConcat
<1>2. Framed(t)
      OBVIOUS
<1> HIDE DEF t
<1>3. t # <<>>
      BY <1>1 DEF Complete, HeaderLen
<1>4. Framed(Rest(t))
      BY <1>1, <1>2, <1>3, FramedWhole
<1> QED BY <1>1, <1>4

-----------------------------------------------------------------------------
(* Sending.                                                                *)

Pipe == [out : Seq(Byte), wire : {w \in Seq(Byte) : Len(w) <= SockCap}, over : BOOLEAN]

\* What o still has to deliver.
Due(o) == o.wire \o o.out

LEMMA SendKeeps ==
    ASSUME NEW o \in Pipe
    PROVE  Send(o) \in Pipe /\ Due(Send(o)) = Due(o)
<1> DEFINE n == AtMost(SockCap - Len(o.wire), Len(o.out))
           w == o.wire
           x == o.out
           pre == SubSeq(x, 1, n)
           post == SubSeq(x, n + 1, Len(x))
<1>1. /\ w \in Seq(Byte) /\ x \in Seq(Byte) /\ o.over \in BOOLEAN
      /\ Len(w) \in Nat /\ Len(x) \in Nat /\ Len(w) <= SockCap /\ SockCap \in Nat
      BY CapAssumption DEF Pipe
<1>2. n \in 0..Len(x) /\ n <= SockCap - Len(w)
  <2> HIDE DEF w, x
  <2>1. n = AtMost(SockCap - Len(w), Len(x))
        BY DEF w, x
  <2> HIDE DEF n
  <2> QED BY <1>1, <2>1 DEF AtMost
<1>3. Send(o) = [out |-> post, wire |-> w \o pre, over |-> o.over]
  <2>1. o = [out |-> x, wire |-> w, over |-> o.over]
        BY DEF Pipe
  <2>2. Send(o) = [o EXCEPT !.wire = w \o pre, !.out = post]
        BY DEF Send
  <2> HIDE DEF w, x, pre, post
  <2> QED BY <2>1, <2>2
<1> HIDE DEF n, w, x
<1>4. pre \in Seq(Byte) /\ Len(pre) = n /\ post \in Seq(Byte) /\ pre \o post = x
      BY <1>1, <1>2, Split
<1> HIDE DEF pre, post
<1>5. w \o pre \in Seq(Byte) /\ Len(w \o pre) = Len(w) + Len(pre)
      BY ONLY <1>1, <1>4, ConcatProperties
<1>6. Len(w \o pre) <= SockCap
      BY <1>1, <1>2, <1>4, <1>5
<1>7. Send(o) \in Pipe
      BY <1>1, <1>3, <1>4, <1>5, <1>6 DEF Pipe
<1>8. (w \o pre) \o post = w \o (pre \o post)
      BY ONLY <1>1, <1>4, Assoc, ZenonT(60)
<1>9. Due(Send(o)) = (w \o pre) \o post
      BY <1>3 DEF Due
<1> QED BY <1>4, <1>7, <1>8, <1>9 DEF Due, w, x

LEMMA QueueKeeps ==
    ASSUME NEW o \in Pipe, NEW f \in Seq(Byte)
    PROVE  QueueAndSend(o, f) \in Pipe /\ Due(QueueAndSend(o, f)) = Due(o) \o f
<1> DEFINE more == Len(o.out) + Len(f) > BufCap
           p == [o EXCEPT !.out = @ \o f, !.over = @ \/ more]
<1>1. o.wire \in Seq(Byte) /\ o.out \in Seq(Byte) /\ Len(o.wire) <= SockCap /\ o.over \in BOOLEAN
      BY DEF Pipe
<1>2. o.out \o f \in Seq(Byte)
      BY ONLY <1>1, ConcatProperties, f \in Seq(Byte)
<1>3. p = [out |-> o.out \o f, wire |-> o.wire, over |-> o.over \/ more]
  <2>1. o = [out |-> o.out, wire |-> o.wire, over |-> o.over]
        BY DEF Pipe
  <2> DEFINE v == o.over \/ more
             x == o.out \o f
  <2>2. p = [o EXCEPT !.out = x, !.over = v]
        OBVIOUS
  <2> HIDE DEF p, v, x
  <2>3. p = [out |-> x, wire |-> o.wire, over |-> v]
        BY <2>1, <2>2
  <2> QED BY <2>3 DEF v, x
<1>4. (o.over \/ more) \in BOOLEAN
      BY <1>1
<1>5. QueueAndSend(o, f) = Send(p)
      BY DEF QueueAndSend
<1> HIDE DEF p, more
<1>6. p \in Pipe
      BY <1>1, <1>2, <1>3, <1>4 DEF Pipe
<1>7. (o.wire \o o.out) \o f = o.wire \o (o.out \o f)
      BY <1>1, Assoc
<1>8. Due(p) = Due(o) \o f
      BY <1>3, <1>7 DEF Due
<1> QED BY <1>5, <1>6, <1>8, SendKeeps

\* What a handler sends, as messages behind what was due before.
Answer(id, due, after, tiedAfter) ==
    \/ /\ id = HandshakeQ /\ tiedAfter = TRUE
       /\ \E l, m \in 0..MaxBody :
             after = (due \o Frame(AppendEntriesQ, l)) \o Frame(HandshakeR, m)
    \/ /\ id = HandshakeQ /\ tiedAfter \in {tied, TRUE}
       /\ \E l \in 0..MaxBody : after = due \o Frame(HandshakeR, l)
    \/ /\ id = AppendEntriesQ /\ tiedAfter = tied
       /\ \E l \in 0..MaxBody : after = due \o Frame(AppendEntriesR, l)
    \/ id \notin {HandshakeQ, AppendEntriesQ} /\ tiedAfter = tied /\ after = due

LEMMA AnsweredSends ==
    ASSUME NEW o \in Pipe, NEW id, NEW a \in Answered(o, id)
    PROVE  a.sent \in Pipe /\ Answer(id, Due(o), Due(a.sent), a.tied)
<1> DEFINE yes == Frame(HandshakeR, MaxBody)
<1>0. MaxBody \in 0..MaxBody /\ 0 \in 0..MaxBody /\ HandshakeR \in 1..4
         /\ AppendEntriesQ \in 1..4 /\ AppendEntriesR \in 1..4 /\ HandshakeQ # AppendEntriesQ
      BY CapAssumption DEF HandshakeQ, HandshakeR, AppendEntriesQ, AppendEntriesR
<1>1. yes \in Seq(Byte)
      BY <1>0, FrameBytes
<1>2. CASE id = HandshakeQ
  <2>1. a \in {[sent |-> QueueAndSend(QueueAndSend(o, q), yes), tied |-> TRUE, reads |-> TRUE] :
                   q \in Frames(AppendEntriesQ)}
               \cup {[sent |-> QueueAndSend(o, yes), tied |-> TRUE, reads |-> r] : r \in BOOLEAN}
               \cup {[sent |-> QueueAndSend(o, Frame(HandshakeR, 0)), tied |-> tied, reads |-> TRUE]}
        BY <1>0, <1>2 DEF Answered
  <2>2. CASE a \in {[sent |-> QueueAndSend(QueueAndSend(o, q), yes), tied |-> TRUE, reads |-> TRUE] :
                   q \in Frames(AppendEntriesQ)}
    <3>1. PICK l \in 0..MaxBody :
             a = [sent |-> QueueAndSend(QueueAndSend(o, Frame(AppendEntriesQ, l)), yes),
                  tied |-> TRUE, reads |-> TRUE]
          BY <2>2, <1>0 DEF Frames, HandshakeQ, AppendEntriesQ
    <3> DEFINE q == Frame(AppendEntriesQ, l)
    <3>2. q \in Seq(Byte)
          BY <1>0, FrameBytes
    <3> HIDE DEF q, yes
    <3>3. a.sent = QueueAndSend(QueueAndSend(o, q), yes) /\ a.tied = TRUE
          BY <3>1 DEF q
    <3>4. QueueAndSend(o, q) \in Pipe /\ Due(QueueAndSend(o, q)) = Due(o) \o q
          BY <3>2, QueueKeeps
    <3>5. a.sent \in Pipe /\ Due(a.sent) = (Due(o) \o q) \o yes
          BY <1>1, <3>3, <3>4, QueueKeeps
    <3> QED BY <1>0, <1>2, <3>3, <3>5 DEF Answer, q, yes
  <2>3. CASE a \in {[sent |-> QueueAndSend(o, yes), tied |-> TRUE, reads |-> r] : r \in BOOLEAN}
    <3> HIDE DEF yes
    <3>1. a.sent = QueueAndSend(o, yes) /\ a.tied = TRUE
          BY <2>3
    <3>2. a.sent \in Pipe /\ Due(a.sent) = Due(o) \o yes
          BY <3>1, <1>1, QueueKeeps
    <3> QED BY <1>0, <1>2, <3>1, <3>2 DEF Answer, yes
  <2>4. CASE a = [sent |-> QueueAndSend(o, Frame(HandshakeR, 0)), tied |-> tied, reads |-> TRUE]
    <3> DEFINE no == Frame(HandshakeR, 0)
    <3>1. no \in Seq(Byte)
          BY <1>0, FrameBytes
    <3>2. a = [sent |-> QueueAndSend(o, no), tied |-> tied, reads |-> TRUE]
          BY <2>4
    <3> HIDE DEF no
    <3>3. a.sent \in Pipe /\ Due(a.sent) = Due(o) \o no /\ a.tied = tied
          BY <3>1, <3>2, QueueKeeps
    <3> QED BY <1>0, <1>2, <3>3 DEF Answer, no
  <2> QED BY <2>1, <2>2, <2>3, <2>4
<1>3. CASE id = AppendEntriesQ
  <2>1. a \in {[sent |-> QueueAndSend(o, r), tied |-> tied, reads |-> TRUE] : r \in Frames(AppendEntriesR)}
        BY <1>0, <1>3 DEF Answered
  <2>2. PICK l \in 0..MaxBody :
           a = [sent |-> QueueAndSend(o, Frame(AppendEntriesR, l)), tied |-> tied, reads |-> TRUE]
        BY <2>1 DEF Frames, HandshakeQ, AppendEntriesR
  <2> DEFINE q == Frame(AppendEntriesR, l)
  <2>3. q \in Seq(Byte)
        BY <1>0, FrameBytes
  <2>4. a = [sent |-> QueueAndSend(o, q), tied |-> tied, reads |-> TRUE]
        BY <2>2
  <2> HIDE DEF q
  <2>5. a.sent \in Pipe /\ Due(a.sent) = Due(o) \o q /\ a.tied = tied
        BY <2>3, <2>4, QueueKeeps
  <2> QED BY <1>3, <2>5 DEF Answer, q
<1>4. CASE id \notin {HandshakeQ, AppendEntriesQ}
  <2>1. a = [sent |-> o, tied |-> tied, reads |-> TRUE]
        BY <1>4 DEF Answered
  <2> QED BY <1>4, <2>1 DEF Answer
<1> QED BY <1>2, <1>3, <1>4

-----------------------------------------------------------------------------
(* What is underway spells whole messages.                                 *)

\* The bytes from e to its peer, the oldest first.
Flow(e) == inBuf[Other(e)] \o (wire[e] \o outBuf[e])

\* OverrunIsBounded holds because outside the loop less than one message is
\* in the buffer, and that because every length in it was written by a sender:
\* what is underway spells whole messages.
StreamInv ==
    /\ TypeOK /\ OverrunIsBounded
    /\ \A e \in End : Framed(Flow(e))
    /\ \A e \in End : ~looping[e] => ~Complete(inBuf[e])

LEMMA Ends ==
    /\ "hub" \in End /\ "node" \in End /\ "hub" # "node"
    /\ \A e \in End : Other(e) \in End /\ Other(e) # e /\ Other(Other(e)) = e
    /\ \A e, d \in End : d # e => d = Other(e)
BY DEF End, Other

LEMMA FlowTypes ==
    ASSUME TypeOK, NEW e \in End
    PROVE  /\ inBuf[e] \in Seq(Byte) /\ wire[e] \in Seq(Byte) /\ outBuf[e] \in Seq(Byte)
           /\ inBuf[Other(e)] \in Seq(Byte)
           /\ wire[e] \o outBuf[e] \in Seq(Byte) /\ Flow(e) \in Seq(Byte)
           /\ Outgoing(e) \in Pipe /\ Due(Outgoing(e)) = wire[e] \o outBuf[e]
<1>1. /\ inBuf[e] \in Seq(Byte) /\ wire[e] \in Seq(Byte) /\ outBuf[e] \in Seq(Byte)
      /\ inBuf[Other(e)] \in Seq(Byte) /\ Len(wire[e]) <= SockCap
      BY Ends DEF TypeOK
<1> DEFINE i == inBuf[Other(e)]
           w == wire[e]
           x == outBuf[e]
<1>2. w \o x \in Seq(Byte)
  <2> HIDE DEF w, x
  <2>1. w \in Seq(Byte) /\ x \in Seq(Byte)
        BY <1>1 DEF w, x
  <2> QED BY ONLY <2>1, ConcatProperties
<1>3. i \o (w \o x) \in Seq(Byte)
  <2> DEFINE y == w \o x
  <2> HIDE DEF y, i
  <2>1. i \in Seq(Byte) /\ y \in Seq(Byte)
        BY <1>1, <1>2 DEF y, i
  <2>2. i \o y \in Seq(Byte)
        BY ONLY <2>1, ConcatProperties
  <2> QED BY <2>2 DEF y
<1>4. Outgoing(e) \in Pipe /\ Due(Outgoing(e)) = w \o x
      BY <1>1 DEF Outgoing, Pipe, Due
<1> QED BY <1>1, <1>2, <1>3, <1>4 DEF Flow

\* A message behind what is due to arrive.
LEMMA FlowGrows ==
    ASSUME NEW b \in Seq(Byte), NEW d \in Seq(Byte), Framed(b \o d),
           NEW id \in 1..4, NEW len \in 0..MaxBody
    PROVE  /\ d \o Frame(id, len) \in Seq(Byte)
           /\ b \o (d \o Frame(id, len)) = (b \o d) \o Frame(id, len)
           /\ Framed(b \o (d \o Frame(id, len)))
<1> DEFINE f == Frame(id, len)
           t == b \o d
<1>1. f \in Seq(Byte) /\ Len(f) = HeaderLen + len /\ f[2] = len
      BY FrameBytes
<1> HIDE DEF f
<1>2. t \in Seq(Byte)
      BY ONLY b \in Seq(Byte), d \in Seq(Byte), ConcatProperties
<1>3. d \o f \in Seq(Byte)
      BY ONLY <1>1, d \in Seq(Byte), ConcatProperties
<1>4. (b \o d) \o f = b \o (d \o f)
      BY <1>1, Assoc
<1>5. Framed(t)
      OBVIOUS
<1> HIDE DEF t
<1>6. Framed(t \o f)
      BY <1>1, <1>2, <1>5, FramedAppend
<1> QED BY <1>3, <1>4, <1>6 DEF f, t

LEMMA AnswerFramed ==
    ASSUME NEW b \in Seq(Byte), NEW d \in Seq(Byte), Framed(b \o d),
           NEW id, NEW after, NEW t, Answer(id, d, after, t)
    PROVE  Framed(b \o after)
<1>0. HandshakeR \in 1..4 /\ AppendEntriesQ \in 1..4 /\ AppendEntriesR \in 1..4
      BY DEF HandshakeR, AppendEntriesQ, AppendEntriesR
<1>1. CASE \E l, m \in 0..MaxBody :
             after = (d \o Frame(AppendEntriesQ, l)) \o Frame(HandshakeR, m)
  <2>1. PICK l, m \in 0..MaxBody :
             after = (d \o Frame(AppendEntriesQ, l)) \o Frame(HandshakeR, m)
        BY <1>1
  <2> DEFINE c == d \o Frame(AppendEntriesQ, l)
  <2>2. c \in Seq(Byte) /\ Framed(b \o c)
        BY <1>0, FlowGrows
  <2>3. after = c \o Frame(HandshakeR, m)
        BY <2>1
  <2> HIDE DEF c
  <2> QED BY <1>0, <2>2, <2>3, FlowGrows
<1>2. CASE \E l \in 0..MaxBody : after = d \o Frame(HandshakeR, l)
      BY <1>0, <1>2, FlowGrows
<1>3. CASE \E l \in 0..MaxBody : after = d \o Frame(AppendEntriesR, l)
      BY <1>0, <1>3, FlowGrows
<1>4. CASE after = d
      BY <1>4
<1> QED BY <1>1, <1>2, <1>3, <1>4 DEF Answer

\* What one end sends.
LEMMA SentFlow ==
    ASSUME TypeOK, NEW e \in End, NEW o \in Pipe, Sent(e, o),
           inBuf'[Other(e)] = inBuf[Other(e)]
    PROVE  /\ outBuf' \in [End -> Seq(Byte)] /\ wire' \in [End -> Seq(Byte)]
           /\ \A d \in End : Len(wire'[d]) <= SockCap
           /\ alive' \in BOOLEAN
           /\ Flow(e)' = inBuf[Other(e)] \o Due(o)
           /\ \A d \in End : d # e => outBuf'[d] = outBuf[d] /\ wire'[d] = wire[d]
<1>1. o.out \in Seq(Byte) /\ o.wire \in Seq(Byte) /\ Len(o.wire) <= SockCap
      BY DEF Pipe
<1>2. /\ outBuf' = [outBuf EXCEPT ![e] = o.out] /\ wire' = [wire EXCEPT ![e] = o.wire]
      /\ alive' \in BOOLEAN
      BY DEF Sent, Pipe
<1>3. outBuf \in [End -> Seq(Byte)] /\ wire \in [End -> Seq(Byte)]
         /\ \A d \in End : Len(wire[d]) <= SockCap
      BY DEF TypeOK
<1>4. outBuf' \in [End -> Seq(Byte)] /\ wire' \in [End -> Seq(Byte)]
      BY <1>1, <1>2, <1>3
<1>5. outBuf'[e] = o.out /\ wire'[e] = o.wire
         /\ \A d \in End : d # e => outBuf'[d] = outBuf[d] /\ wire'[d] = wire[d]
      BY <1>2, <1>3
<1>6. \A d \in End : Len(wire'[d]) <= SockCap
      BY <1>1, <1>3, <1>5
<1>7. Flow(e)' = inBuf[Other(e)] \o Due(o)
      BY <1>5 DEF Flow, Due
<1> QED BY <1>2, <1>4, <1>5, <1>6, <1>7

\* When no message is complete, less than one is in the buffer.
LEMMA ShortBuffer ==
    ASSUME StreamInv, NEW e \in End, ~Complete(inBuf[e])
    PROVE  Len(inBuf[e]) < HeaderLen + MaxBody \/ Len(inBuf[e]) < HeaderLen
<1> DEFINE a == inBuf[e]
           r == wire[Other(e)] \o outBuf[Other(e)]
<1>1. a \in Seq(Byte) /\ r \in Seq(Byte) /\ Framed(a \o r)
  <2>1. Other(e) \in End /\ Other(Other(e)) = e
        BY Ends
  <2>2. r \in Seq(Byte) /\ a \in Seq(Byte)
        BY <2>1, FlowTypes DEF StreamInv
  <2>3. Flow(Other(e)) = a \o r
        BY <2>1 DEF Flow
  <2> QED BY <2>1, <2>2, <2>3 DEF StreamInv
<1> HIDE DEF a, r
<1>2. Len(a) >= HeaderLen => a[2] \in 0..MaxBody
      BY <1>1, FramedFirst
<1>3. ~Complete(a) /\ Len(a) \in Nat
      BY <1>1 DEF a
<1>4. Len(a) < HeaderLen + MaxBody \/ Len(a) < HeaderLen
      BY <1>2, <1>3, CapAssumption DEF Complete, HeaderLen
<1> QED BY <1>4 DEF a

-----------------------------------------------------------------------------
(* The actions, as what they do to the bytes underway.                     *)

\* The variables of one end's sending have their types.
SendTypes ==
    /\ outBuf \in [End -> Seq(Byte)] /\ wire \in [End -> Seq(Byte)]
    /\ \A d \in End : Len(wire[d]) <= SockCap
    /\ alive \in BOOLEAN

\* A message is put behind what e has to deliver; nothing else moves.
LEMMA QueuedFlow ==
    ASSUME StreamInv, NEW e \in End, NEW id \in 1..4, NEW len \in 0..MaxBody,
           Sent(e, QueueAndSend(Outgoing(e), Frame(id, len))), UNCHANGED inBuf
    PROVE  /\ SendTypes'
           /\ Flow(e)' = Flow(e) \o Frame(id, len) /\ Framed(Flow(e)')
           /\ Flow(Other(e))' = Flow(Other(e))
<1> DEFINE f == Frame(id, len)
           o == Outgoing(e)
           b == inBuf[Other(e)]
<1>1. TypeOK /\ Framed(Flow(e))
      BY DEF StreamInv
<1>2. /\ b \in Seq(Byte) /\ o \in Pipe /\ Due(o) = wire[e] \o outBuf[e]
      /\ Due(o) \in Seq(Byte)
      BY <1>1, FlowTypes
<1>3. Flow(e) = b \o Due(o)
      BY <1>2 DEF Flow
<1>4. f \in Seq(Byte)
      BY FrameBytes
<1> DEFINE p == QueueAndSend(o, f)
<1>5. p \in Pipe /\ Due(p) = Due(o) \o f
      BY <1>2, <1>4, QueueKeeps
<1>6. Sent(e, p) /\ inBuf'[Other(e)] = inBuf[Other(e)]
      OBVIOUS
<1> HIDE DEF p, o, f
<1>7. /\ outBuf' \in [End -> Seq(Byte)] /\ wire' \in [End -> Seq(Byte)]
      /\ \A d \in End : Len(wire'[d]) <= SockCap
      /\ alive' \in BOOLEAN
      /\ Flow(e)' = b \o Due(p)
      /\ \A d \in End : d # e => outBuf'[d] = outBuf[d] /\ wire'[d] = wire[d]
      BY <1>1, <1>5, <1>6, SentFlow
<1>8. b \o (Due(o) \o f) = (b \o Due(o)) \o f /\ Framed(b \o (Due(o) \o f))
  <2> DEFINE d == Due(o)
  <2>1. b \in Seq(Byte) /\ d \in Seq(Byte) /\ Framed(b \o d)
        BY <1>1, <1>2, <1>3
  <2> HIDE DEF d, b
  <2>2. b \o (d \o Frame(id, len)) = (b \o d) \o Frame(id, len)
           /\ Framed(b \o (d \o Frame(id, len)))
        BY <2>1, FlowGrows
  <2> QED BY <2>2 DEF d, f
<1>9. Flow(Other(e))' = Flow(Other(e))
      BY <1>7, Ends DEF Flow
<1> QED BY <1>3, <1>5, <1>7, <1>8, <1>9 DEF SendTypes, f

LEMMA AcceptedFlow ==
    ASSUME StreamInv, AcceptedCallback
    PROVE  /\ SendTypes'
           /\ \/ \A e \in End : Flow(e)' = Flow(e)
              \/ /\ Flow("node")' = Flow("node") \o Frame(HandshakeQ, MaxBody)
                 /\ Framed(Flow("node")') /\ Flow("hub")' = Flow("hub")
<1>1. UNCHANGED inBuf
      BY DEF AcceptedCallback
<1>2. CASE SendHandShakeQ
  <2>1. Sent("node", QueueAndSend(Outgoing("node"), Frame(HandshakeQ, MaxBody)))
        BY <1>2 DEF SendHandShakeQ, Frames
  <2>2. HandshakeQ \in 1..4 /\ MaxBody \in 0..MaxBody /\ "node" \in End /\ Other("node") = "hub"
        BY CapAssumption DEF HandshakeQ, End, Other
  <2>3. /\ SendTypes'
        /\ Flow("node")' = Flow("node") \o Frame(HandshakeQ, MaxBody) /\ Framed(Flow("node")')
        /\ Flow(Other("node"))' = Flow(Other("node"))
        BY <1>1, <2>1, <2>2, QueuedFlow
  <2>4. Flow("hub")' = Flow("hub")
        BY <2>2, <2>3
  <2> QED BY <2>3, <2>4
<1>3. CASE UNCHANGED <<outBuf, wire, alive>>
      BY <1>1, <1>3 DEF StreamInv, TypeOK, SendTypes, Flow
<1> QED BY <1>2, <1>3 DEF AcceptedCallback

LEMMA SendAppendFlow ==
    ASSUME StreamInv, SendAppendEntries
    PROVE  /\ SendTypes'
           /\ \E l \in 0..MaxBody : Flow("hub")' = Flow("hub") \o Frame(AppendEntriesQ, l)
           /\ Framed(Flow("hub")') /\ Flow("node")' = Flow("node")
<1>1. UNCHANGED inBuf
      BY DEF SendAppendEntries
<1>2. PICK l \in 0..MaxBody :
          Sent("hub", QueueAndSend(Outgoing("hub"), Frame(AppendEntriesQ, l)))
      BY DEF SendAppendEntries, Frames, AppendEntriesQ, HandshakeQ
<1>3. AppendEntriesQ \in 1..4 /\ "hub" \in End /\ Other("hub") = "node"
      BY DEF AppendEntriesQ, End, Other
<1>4. /\ SendTypes'
      /\ Flow("hub")' = Flow("hub") \o Frame(AppendEntriesQ, l) /\ Framed(Flow("hub")')
      /\ Flow(Other("hub"))' = Flow(Other("hub"))
      BY <1>1, <1>2, <1>3, QueuedFlow
<1>5. Flow("node")' = Flow("node")
      BY <1>3, <1>4
<1> QED BY <1>4, <1>5

LEMMA SendCallbackFlow ==
    ASSUME StreamInv, NEW e \in End, SendCallback(e)
    PROVE  SendTypes' /\ \A d \in End : Flow(d)' = Flow(d)
<1> DEFINE o == Outgoing(e)
           p == Send(o)
<1>1. Sent(e, p) /\ UNCHANGED inBuf
      BY DEF SendCallback
<1>2. o \in Pipe /\ Due(o) = wire[e] \o outBuf[e] /\ TypeOK
      BY FlowTypes DEF StreamInv
<1>3. p \in Pipe /\ Due(p) = Due(o)
      BY <1>2, SendKeeps
<1> HIDE DEF p, o
<1>4. /\ outBuf' \in [End -> Seq(Byte)] /\ wire' \in [End -> Seq(Byte)]
      /\ \A d \in End : Len(wire'[d]) <= SockCap
      /\ alive' \in BOOLEAN
      /\ Flow(e)' = inBuf[Other(e)] \o Due(p)
      /\ \A d \in End : d # e => outBuf'[d] = outBuf[d] /\ wire'[d] = wire[d]
      BY <1>1, <1>2, <1>3, SentFlow
<1>5. Flow(e)' = Flow(e)
      BY <1>2, <1>3, <1>4 DEF Flow
<1>6. \A d \in End : d # e => Flow(d)' = Flow(d)
      BY <1>1, <1>4 DEF Flow
<1> QED BY <1>4, <1>5, <1>6 DEF SendTypes

LEMMA RecvFlow ==
    ASSUME StreamInv, NEW e \in End, RecvCallback(e)
    PROVE  /\ SendTypes' /\ \A d \in End : Flow(d)' = Flow(d)
           /\ inBuf' \in [End -> Seq(Byte)]
           /\ \A d \in End : d # e => inBuf'[d] = inBuf[d]
           /\ Len(inBuf'[e]) <= Len(inBuf[e]) + BufCap
<1> DEFINE d == Other(e)
           w == wire[d]
           a == inBuf[e]
           x == outBuf[d]
<1>1. PICK n \in 1..AtMost(BufCap, Len(w)) :
          /\ inBuf' = [inBuf EXCEPT ![e] = a \o SubSeq(w, 1, n)]
          /\ wire' = [wire EXCEPT ![d] = SubSeq(w, n + 1, Len(w))]
      BY DEF RecvCallback
<1>2. UNCHANGED outBuf /\ alive' \in BOOLEAN
  <2>1. alive' = TRUE \/ alive' = (Len(inBuf'[e]) <= BufCap)
        BY DEF RecvCallback
  <2>2. (Len(inBuf'[e]) <= BufCap) \in BOOLEAN
        OBVIOUS
  <2>3. alive' \in BOOLEAN
        BY ONLY <2>1, <2>2
  <2> QED BY <2>3 DEF RecvCallback
<1>3. d \in End /\ d # e /\ Other(d) = e /\ TypeOK /\ \A c \in End : c # e => c = d
      BY Ends DEF StreamInv
<1>4. a \in Seq(Byte) /\ w \in Seq(Byte) /\ x \in Seq(Byte) /\ Len(w) <= SockCap
         /\ Len(w) \in Nat /\ Len(a) \in Nat /\ BufCap \in Nat /\ SockCap \in Nat
      BY <1>3, CapAssumption DEF TypeOK
<1>t. /\ inBuf \in [End -> Seq(Byte)] /\ wire \in [End -> Seq(Byte)]
      /\ outBuf \in [End -> Seq(Byte)]
      /\ \A c \in End : Len(wire[c]) <= SockCap
      BY <1>3 DEF TypeOK
<1>f. Flow(d) = a \o (w \o x)
      BY <1>3 DEF Flow
<1> HIDE DEF d, w, a, x
<1>5. n \in 0..Len(w) /\ n <= BufCap
      BY <1>4 DEF AtMost
<1> DEFINE pre == SubSeq(w, 1, n)
           post == SubSeq(w, n + 1, Len(w))
<1>6. /\ pre \in Seq(Byte) /\ Len(pre) = n /\ post \in Seq(Byte) /\ pre \o post = w
      BY <1>4, <1>5, Split
<1>7. inBuf' = [inBuf EXCEPT ![e] = a \o pre] /\ wire' = [wire EXCEPT ![d] = post]
      BY <1>1
<1> HIDE DEF pre, post
<1>8. a \o pre \in Seq(Byte) /\ Len(a \o pre) = Len(a) + Len(pre)
      BY ONLY <1>4, <1>6, ConcatProperties
<1>9. Len(pre \o post) = Len(pre) + Len(post) /\ Len(post) \in Nat
      BY ONLY <1>6, ConcatProperties, LenProperties
<1>10. Len(post) <= SockCap
      BY <1>4, <1>5, <1>6, <1>9
<1>11. inBuf' \in [End -> Seq(Byte)] /\ wire' \in [End -> Seq(Byte)]
      BY <1>3, <1>6, <1>7, <1>8, <1>t
<1>12. /\ inBuf'[e] = a \o pre /\ inBuf'[d] = inBuf[d]
       /\ wire'[d] = post /\ wire'[e] = wire[e]
      BY <1>3, <1>7, <1>t
<1>13. \A c \in End : Len(wire'[c]) <= SockCap
      BY <1>3, <1>10, <1>12, <1>t
<1>14. Flow(e)' = Flow(e)
      BY <1>2, <1>12 DEF Flow, d
<1>15. Flow(d)' = (a \o pre) \o (post \o x)
      BY <1>2, <1>3, <1>12 DEF Flow, x
<1>16. (a \o pre) \o (post \o x) = a \o (w \o x)
  <2>1. post \o x \in Seq(Byte)
        BY ONLY <1>4, <1>6, ConcatProperties
  <2> DEFINE y == post \o x
  <2>0. a \in Seq(Byte) /\ pre \in Seq(Byte) /\ post \in Seq(Byte) /\ x \in Seq(Byte)
        BY <1>4, <1>6
  <2>2. (pre \o post) \o x = pre \o y
        BY ONLY <2>0, Assoc, ZenonT(60)
  <2>3. y \in Seq(Byte)
        BY <2>1
  <2> HIDE DEF y
  <2>4. (a \o pre) \o y = a \o (pre \o y)
        BY ONLY <2>0, <2>3, Assoc, ZenonT(60)
  <2> QED BY <1>6, <2>2, <2>4 DEF y
<1>17. \A c \in End : Flow(c)' = Flow(c)
      BY <1>3, <1>14, <1>15, <1>16, <1>f
<1>18. Len(inBuf'[e]) <= Len(inBuf[e]) + BufCap
      BY <1>4, <1>5, <1>6, <1>8, <1>12 DEF a
<1>19. \A c \in End : c # e => inBuf'[c] = inBuf[c]
      BY <1>3, <1>12
<1> QED BY <1>2, <1>11, <1>13, <1>17, <1>18, <1>19, <1>t DEF SendTypes

LEMMA HandleFlow ==
    ASSUME StreamInv, NEW e \in End, HandleFrame(e)
    PROVE  /\ SendTypes' /\ tied' \in BOOLEAN
           /\ Complete(inBuf[e])
           /\ inBuf' = [inBuf EXCEPT ![e] = Rest(inBuf[e])]
           /\ Rest(inBuf[e]) \in Seq(Byte) /\ Len(Rest(inBuf[e])) <= Len(inBuf[e])
           /\ \E after : /\ Answer(inBuf[e][1], wire[e] \o outBuf[e], after, tied')
                         /\ Flow(e)' = inBuf[Other(e)] \o after
           /\ Framed(Flow(e)')
           /\ Flow(Other(e))' = Rest(inBuf[e]) \o (wire[Other(e)] \o outBuf[Other(e)])
           /\ Framed(Flow(Other(e))')
<1> DEFINE o == Outgoing(e)
           d == Other(e)
<1>1. TypeOK /\ Complete(inBuf[e]) /\ Framed(Flow(e)) /\ Framed(Flow(d)) /\ tied \in BOOLEAN
      BY Ends DEF HandleFrame, StreamInv, TypeOK
<1>2. PICK a \in Answered(o, inBuf[e][1]) : Sent(e, a.sent) /\ tied' = a.tied
      BY DEF HandleFrame
<1>3. inBuf' = [inBuf EXCEPT ![e] = Rest(inBuf[e])]
      BY DEF HandleFrame
<1>4. d \in End /\ d # e /\ Other(d) = e
      BY Ends
<1>5. /\ o \in Pipe /\ Due(o) = wire[e] \o outBuf[e] /\ Due(o) \in Seq(Byte)
      /\ inBuf[d] \in Seq(Byte) /\ inBuf[e] \in Seq(Byte)
      /\ wire[d] \o outBuf[d] \in Seq(Byte)
      BY <1>1, <1>4, FlowTypes
<1>6. inBuf'[e] = Rest(inBuf[e]) /\ inBuf'[d] = inBuf[d]
      BY <1>1, <1>3, <1>4 DEF TypeOK
<1> HIDE DEF o, d
<1>7. a.sent \in Pipe /\ Answer(inBuf[e][1], Due(o), Due(a.sent), a.tied)
      BY <1>2, <1>5, AnsweredSends
<1>8. /\ outBuf' \in [End -> Seq(Byte)] /\ wire' \in [End -> Seq(Byte)]
      /\ \A c \in End : Len(wire'[c]) <= SockCap
      /\ alive' \in BOOLEAN
      /\ Flow(e)' = inBuf[d] \o Due(a.sent)
      /\ \A c \in End : c # e => outBuf'[c] = outBuf[c] /\ wire'[c] = wire[c]
  <2> DEFINE p == a.sent
  <2> HIDE DEF p
  <2>1. p \in Pipe /\ Sent(e, p) /\ inBuf'[Other(e)] = inBuf[Other(e)]
        BY <1>2, <1>6, <1>7 DEF p, d
  <2>2. /\ outBuf' \in [End -> Seq(Byte)] /\ wire' \in [End -> Seq(Byte)]
        /\ \A c \in End : Len(wire'[c]) <= SockCap
        /\ alive' \in BOOLEAN
        /\ Flow(e)' = inBuf[Other(e)] \o Due(p)
        /\ \A c \in End : c # e => outBuf'[c] = outBuf[c] /\ wire'[c] = wire[c]
        BY <1>1, <2>1, SentFlow
  <2> QED BY <2>2 DEF p, d
<1>9. Framed(inBuf[d] \o Due(o))
      BY <1>1, <1>5 DEF Flow, d
<1>10. Framed(inBuf[d] \o Due(a.sent))
  <2> DEFINE b == inBuf[d]
             x == Due(o)
             y == Due(a.sent)
             t == a.tied
             id == inBuf[e][1]
  <2>1. b \in Seq(Byte) /\ x \in Seq(Byte) /\ Framed(b \o x) /\ Answer(id, x, y, t)
        BY <1>5, <1>7, <1>9
  <2> HIDE DEF b, x, y, t, id
  <2>2. Framed(b \o y)
        BY <2>1, AnswerFramed
  <2> QED BY <2>2 DEF b, y
<1>11. /\ Flow(d)' = Rest(inBuf[e]) \o (wire[d] \o outBuf[d])
       /\ Flow(d) = inBuf[e] \o (wire[d] \o outBuf[d])
      BY <1>4, <1>6, <1>8 DEF Flow
<1>12. /\ Rest(inBuf[e]) \in Seq(Byte) /\ Len(Rest(inBuf[e])) <= Len(inBuf[e])
       /\ Framed(Rest(inBuf[e]) \o (wire[d] \o outBuf[d]))
  <2> DEFINE a1 == inBuf[e]
             r == wire[d] \o outBuf[d]
  <2>1. a1 \in Seq(Byte) /\ r \in Seq(Byte) /\ Framed(a1 \o r) /\ Complete(a1)
        BY <1>1, <1>5, <1>11
  <2> HIDE DEF a1, r
  <2>2. Rest(a1) \in Seq(Byte) /\ Framed(Rest(a1) \o r)
        BY <2>1, FramedRest
  <2>3. Len(Rest(a1)) \in Nat /\ Len(Rest(a1)) < Len(a1) /\ Len(a1) \in Nat
        BY <2>1, RestShorter
  <2>4. Len(Rest(a1)) <= Len(a1)
        BY <2>3
  <2> QED BY <2>2, <2>4 DEF a1, r
<1>13. tied' \in BOOLEAN
      BY <1>1, <1>2, <1>7 DEF Answer
<1>14. Answer(inBuf[e][1], wire[e] \o outBuf[e], Due(a.sent), tied')
      BY <1>2, <1>5, <1>7
<1> QED BY <1>1, <1>3, <1>8, <1>10, <1>11, <1>12, <1>13, <1>14 DEF SendTypes, d

LEMMA StreamStep == StreamInv /\ [Next]_vars => StreamInv'
<1> SUFFICES ASSUME StreamInv, [Next]_vars PROVE StreamInv'
    OBVIOUS
<1> USE Ends
<1>t. /\ TypeOK /\ OverrunIsBounded /\ inBuf \in [End -> Seq(Byte)]
      /\ looping \in [End -> BOOLEAN] /\ wantWrite \in [End -> BOOLEAN] /\ tied \in BOOLEAN
      /\ \A e \in End : looping[e] <=> Complete(inBuf[e])
      /\ \A e \in End : Framed(Flow(e))
      BY DEF StreamInv, TypeOK
<1>r. wantRead' \in [End -> BOOLEAN]
  <2>1. wantRead \in [End -> BOOLEAN]
        BY DEF StreamInv, TypeOK
  <2>2. ASSUME NEW e \in End, HandleFrame(e) PROVE wantRead' \in [End -> BOOLEAN]
    <3>1. PICK a : wantRead' = [wantRead EXCEPT ![e] = wantRead[e] /\ a.reads]
          BY <2>2 DEF HandleFrame
    <3> QED BY <2>1, <3>1
  <2> QED BY <2>1, <2>2 DEF Next, TryConnect, AcceptedCallback, RecvCallback,
             SendCallback, SendAppendEntries, vars
<1>1. CASE TryConnect
  <2>1. UNCHANGED <<inBuf, outBuf, wire, looping, tied, alive>>
        BY <1>1 DEF TryConnect
  <2>2. link' \in {"closed", "connecting", "direct", "failed", "up"} /\ wantWrite' \in [End -> BOOLEAN]
        BY <1>1, <1>t DEF TryConnect
  <2>3. TypeOK' /\ OverrunIsBounded'
        BY <2>1, <2>2, <1>t, <1>r DEF TypeOK, OverrunIsBounded, Complete
  <2>4. \A e \in End : Flow(e)' = Flow(e)
        BY <2>1 DEF Flow
  <2> QED BY <2>1, <2>3, <2>4, <1>t DEF StreamInv, Complete
<1>2. CASE AcceptedCallback
  <2>1. UNCHANGED <<inBuf, looping, tied>>
        BY <1>2 DEF AcceptedCallback
  <2>2. link' \in {"closed", "connecting", "direct", "failed", "up"} /\ wantWrite' \in [End -> BOOLEAN]
        BY <1>2, <1>t DEF AcceptedCallback
  <2>3. SendTypes' /\ \A e \in End : Framed(Flow(e)')
        BY <1>2, <1>t, AcceptedFlow DEF End
  <2>4. TypeOK' /\ OverrunIsBounded'
        BY <2>1, <2>2, <2>3, <1>t, <1>r DEF TypeOK, SendTypes, OverrunIsBounded, Complete
  <2> QED BY <2>1, <2>3, <2>4, <1>t DEF StreamInv, Complete
<1>3. ASSUME NEW e \in End, RecvCallback(e) PROVE StreamInv'
  <2>1. /\ SendTypes' /\ (\A d \in End : Flow(d)' = Flow(d))
        /\ inBuf' \in [End -> Seq(Byte)]
        /\ \A d \in End : d # e => inBuf'[d] = inBuf[d]
        /\ Len(inBuf'[e]) <= Len(inBuf[e]) + BufCap
        BY <1>3, RecvFlow
  <2>2. /\ UNCHANGED <<link, wantWrite, tied>> /\ ~looping[e]
        /\ looping' = [looping EXCEPT ![e] = Complete(inBuf'[e])]
        BY <1>3 DEF RecvCallback, Free
  <2>3. \A d \in End : looping'[d] <=> Complete(inBuf'[d])
        BY <2>1, <2>2, <1>t
  <2>4. looping' \in [End -> BOOLEAN]
        BY <2>2, <1>t DEF Complete
  <2>5. OverrunIsBounded'
    <3>1. Len(inBuf[e]) < HeaderLen + MaxBody \/ Len(inBuf[e]) < HeaderLen
          BY <2>2, <1>t, ShortBuffer
    <3>2. Len(inBuf[e]) \in Nat /\ Len(inBuf'[e]) \in Nat
          BY <2>1, <1>t
    <3>3. Len(inBuf'[e]) < BufCap + HeaderLen + MaxBody
          BY <2>1, <3>1, <3>2, CapAssumption DEF HeaderLen
    <3> QED BY <2>1, <3>3, <1>t DEF OverrunIsBounded
  <2>6. TypeOK'
        BY <2>1, <2>2, <2>3, <2>4, <1>t, <1>r DEF TypeOK, SendTypes
  <2> QED BY <2>1, <2>3, <2>5, <2>6, <1>t DEF StreamInv
<1>4. ASSUME NEW e \in End, HandleFrame(e) PROVE StreamInv'
  <2>1. /\ SendTypes' /\ tied' \in BOOLEAN
        /\ inBuf' = [inBuf EXCEPT ![e] = Rest(inBuf[e])]
        /\ Rest(inBuf[e]) \in Seq(Byte) /\ Len(Rest(inBuf[e])) <= Len(inBuf[e])
        /\ Framed(Flow(e)') /\ Framed(Flow(Other(e))')
        BY <1>4, HandleFlow
  <2>2. /\ UNCHANGED link
        /\ wantWrite' = [wantWrite EXCEPT ![e] = (outBuf'[e] # <<>>)]
        /\ looping' = [looping EXCEPT ![e] = Complete(inBuf'[e])]
        BY <1>4 DEF HandleFrame, LoopsOn, InterestAfter
  <2>3. /\ inBuf' \in [End -> Seq(Byte)] /\ inBuf'[e] = Rest(inBuf[e])
        /\ \A d \in End : d # e => inBuf'[d] = inBuf[d]
        BY <2>1, <1>t
  <2>4. \A d \in End : looping'[d] <=> Complete(inBuf'[d])
        BY <2>2, <2>3, <1>t
  <2>5. looping' \in [End -> BOOLEAN] /\ wantWrite' \in [End -> BOOLEAN]
        BY <2>2, <1>t DEF Complete
  <2>6. OverrunIsBounded'
    <3>1. Len(inBuf[e]) \in Nat /\ Len(inBuf'[e]) \in Nat /\ Len(inBuf'[e]) <= Len(inBuf[e])
          BY <2>1, <2>3, <1>t
    <3>2. Len(inBuf'[e]) < BufCap + HeaderLen + MaxBody
          BY <3>1, <1>t, CapAssumption DEF HeaderLen, OverrunIsBounded
    <3> QED BY <2>3, <3>2, <1>t DEF OverrunIsBounded
  <2>7. TypeOK'
        BY <2>1, <2>2, <2>3, <2>4, <2>5, <1>t, <1>r DEF TypeOK, SendTypes
  <2>8. \A d \in End : Framed(Flow(d)')
        BY <2>1
  <2> QED BY <2>4, <2>6, <2>7, <2>8 DEF StreamInv
<1>5. ASSUME NEW e \in End, SendCallback(e) PROVE StreamInv'
  <2>1. SendTypes' /\ \A d \in End : Flow(d)' = Flow(d)
        BY <1>5, SendCallbackFlow
  <2>2. /\ UNCHANGED <<link, inBuf, looping, tied>>
        /\ wantWrite' = [wantWrite EXCEPT ![e] = (outBuf'[e] # <<>>)]
        BY <1>5 DEF SendCallback
  <2>3. wantWrite' \in [End -> BOOLEAN]
        BY <2>2, <1>t
  <2>4. TypeOK' /\ OverrunIsBounded'
        BY <2>1, <2>2, <2>3, <1>t, <1>r DEF TypeOK, SendTypes, OverrunIsBounded, Complete
  <2> QED BY <2>1, <2>2, <2>4, <1>t DEF StreamInv, Complete
<1>6. CASE SendAppendEntries
  <2>1. /\ SendTypes' /\ Framed(Flow("hub")') /\ Flow("node")' = Flow("node")
        BY <1>6, SendAppendFlow
  <2>2. UNCHANGED <<link, inBuf, wantWrite, looping, tied>>
        BY <1>6 DEF SendAppendEntries
  <2>3. TypeOK' /\ OverrunIsBounded'
        BY <2>1, <2>2, <1>t, <1>r DEF TypeOK, SendTypes, OverrunIsBounded, Complete
  <2>4. \A e \in End : Framed(Flow(e)')
        BY <2>1, <1>t DEF End
  <2> QED BY <2>2, <2>3, <2>4, <1>t DEF StreamInv, Complete
<1>7. CASE UNCHANGED vars
      BY <1>7 DEF StreamInv, TypeOK, OverrunIsBounded, Flow, Complete, vars
<1> QED BY <1>1, <1>2, <1>3, <1>4, <1>5, <1>6, <1>7 DEF Next

LEMMA StreamInit == Init => StreamInv
<1> SUFFICES ASSUME Init PROVE StreamInv
    OBVIOUS
<1>1. \A e \in End : inBuf[e] = <<>> /\ wire[e] = <<>> /\ outBuf[e] = <<>>
      BY DEF Init
<1>2. TypeOK
  <2>1. \A e \in End : Len(wire[e]) <= SockCap /\ ~looping[e]
        BY <1>1, CapAssumption DEF Init
  <2>2. <<>> \in Seq(Byte)
        OBVIOUS
  <2>3. inBuf \in [End -> Seq(Byte)] /\ outBuf \in [End -> Seq(Byte)] /\ wire \in [End -> Seq(Byte)]
        BY <2>2 DEF Init
  <2>4. looping \in [End -> BOOLEAN] /\ wantWrite \in [End -> BOOLEAN]
           /\ wantRead \in [End -> BOOLEAN] /\ tied \in BOOLEAN
           /\ alive \in BOOLEAN /\ link = "closed"
        BY DEF Init
  <2> QED BY <2>1, <2>3, <2>4 DEF TypeOK
<1>3. OverrunIsBounded
      BY <1>1, CapAssumption DEF OverrunIsBounded, HeaderLen
<1>4. \A e \in End : ~Complete(inBuf[e])
      BY <1>1 DEF Complete, HeaderLen
<1>5. \A e \in End : Framed(Flow(e))
  <2>1. <<>> \o (<<>> \o <<>>) = <<>>
        OBVIOUS
  <2>2. ASSUME NEW e \in End PROVE Flow(e) = <<>>
    <3>1. Other(e) \in End
          BY Ends
    <3>2. inBuf[Other(e)] = <<>> /\ wire[e] = <<>> /\ outBuf[e] = <<>>
          BY <1>1, <3>1
    <3> QED BY ONLY <2>1, <3>2 DEF Flow
  <2> QED BY <2>2, FramedEmpty
<1> QED BY <1>2, <1>3, <1>4, <1>5 DEF StreamInv

\* What is underway in each direction spells whole messages, inside the loop
\* of HandleArrivedMsg and only there the buffer begins with one, and a
\* receive never writes a message or more past the buffer (Mod.cpp:75-143,
\* Conn.cpp:125-205).
THEOREM StreamInvariant == Spec => []StreamInv
BY StreamInit, StreamStep, PTL DEF Spec

\* Every byte in a buffer or a socket was put there by a sender, the socket is
\* never overfilled, and HandleArrivedMsg is in its loop only with a whole
\* message at hand (Mod.cpp:75-143).
THEOREM StreamTypeCorrect == Spec => []TypeOK
<1>1. StreamInv => TypeOK
      BY DEF StreamInv
<1> QED BY <1>1, StreamInvariant, PTL

\* A receive writes less than one message past the end of m_stInBuffer_
\* (Conn.cpp:131-132), whatever the sizes.
THEOREM ReceiveOverrunsByLessThanAMessage == Spec => []OverrunIsBounded
<1>1. StreamInv => OverrunIsBounded
      BY DEF StreamInv
<1> QED BY <1>1, StreamInvariant, PTL

-----------------------------------------------------------------------------
(* The messages that bytes spell.                                          *)

\* A set of numbers has a least one.
LEMMA LeastNat ==
    ASSUME NEW S, S \subseteq Nat, S # {}
    PROVE  \E m \in S : \A k \in S : m <= k
<1> DEFINE R == OpToRel(<, Nat)
<1>1. IsWellFoundedOn(R, Nat)
      BY NatLessThanWellFounded
<1>2. \A x, y \in Nat : x < y => <<x, y>> \in R
      BY DEF OpToRel
<1> HIDE DEF R
<1>3. PICK m \in S : \A k \in S : ~(<<k, m>> \in R)
      BY <1>1, WFMin
<1>4. ASSUME NEW k \in S PROVE m <= k
  <2>1. m \in Nat /\ k \in Nat
        OBVIOUS
  <2>2. ~(k < m)
        BY <1>2, <1>3, <2>1
  <2> QED BY <2>1, <2>2
<1> QED BY <1>4

\* One level of the recursion of Cut, and a function that obeys it for the
\* sequences of at most n bytes.
CutStep(f, s) == IF Complete(s) THEN <<FirstOf(s)>> \o f[Rest(s)] ELSE <<>>

UpTo(n) == {s \in Seq(Byte) : Len(s) <= n}

CutSol(f, n) == f = [s \in UpTo(n) |-> CutStep(f, s)]

LEMMA SolsAgree ==
    ASSUME NEW n \in Nat, NEW m \in Nat, NEW f, NEW g, CutSol(f, n), CutSol(g, m)
    PROVE  \A s \in UpTo(n) \cap UpTo(m) : f[s] = g[s]
<1> DEFINE Bad == {k \in Nat : \E s \in UpTo(n) \cap UpTo(m) : Len(s) = k /\ f[s] # g[s]}
<1>1. ASSUME Bad # {} PROVE FALSE
  <2>1. PICK k \in Bad : \A j \in Bad : k <= j
        BY <1>1, LeastNat
  <2>2. PICK s \in UpTo(n) \cap UpTo(m) : Len(s) = k /\ f[s] # g[s]
        OBVIOUS
  <2>3. f[s] = CutStep(f, s) /\ g[s] = CutStep(g, s)
        BY DEF CutSol
  <2>4. Complete(s)
        BY <2>2, <2>3 DEF CutStep
  <2> DEFINE r == Rest(s)
  <2>5. s \in Seq(Byte) /\ Len(s) <= n /\ Len(s) <= m /\ Len(s) \in Nat
        BY DEF UpTo
  <2>6. r \in Seq(Byte) /\ Len(r) \in Nat /\ Len(r) < Len(s)
        BY <2>4, <2>5, RestShorter
  <2>7. f[s] = <<FirstOf(s)>> \o f[r] /\ g[s] = <<FirstOf(s)>> \o g[r]
        BY <2>3, <2>4 DEF CutStep
  <2> HIDE DEF r
  <2>8. r \in UpTo(n) \cap UpTo(m) /\ ~(k <= Len(r))
        BY <2>2, <2>5, <2>6 DEF UpTo
  <2>9. f[r] # g[r]
        BY <2>2, <2>7
  <2>10. Len(r) \in Bad
        BY <2>6, <2>8, <2>9
  <2> QED BY <2>1, <2>8, <2>10
<1>2. ASSUME NEW s \in UpTo(n) \cap UpTo(m) PROVE f[s] = g[s]
  <2>1. Len(s) \in Nat
        BY DEF UpTo
  <2> QED BY <1>1, <2>1
<1> QED BY <1>2

LEMMA SolsExist ==
    \A n \in Nat : \E f : CutSol(f, n)
<1> DEFINE Bad == {n \in Nat : ~ \E f : CutSol(f, n)}
<1>1. ASSUME Bad # {} PROVE FALSE
  <2>1. PICK n \in Bad : \A j \in Bad : n <= j
        BY <1>1, LeastNat
  <2>2. n \in Nat /\ ~ \E f : CutSol(f, n)
        OBVIOUS
  <2>3. CASE n = 0
    <3> DEFINE f == [s \in UpTo(0) |-> <<>>]
    <3>1. \A s \in UpTo(0) : CutStep(f, s) = <<>>
      <4>1. \A s \in UpTo(0) : ~Complete(s)
            BY DEF UpTo, Complete, HeaderLen
      <4> HIDE DEF f
      <4> QED BY <4>1 DEF CutStep
    <3>2. f = [s \in UpTo(0) |-> CutStep(f, s)]
          BY <3>1
    <3> HIDE DEF f
    <3> QED BY <2>2, <2>3, <3>2 DEF CutSol
  <2>4. CASE n # 0
    <3>1. n - 1 \in Nat /\ n - 1 \notin Bad
          BY <2>1, <2>2, <2>4
    <3>2. PICK g : CutSol(g, n - 1)
          BY <3>1
    <3> DEFINE f == [s \in UpTo(n) |-> CutStep(g, s)]
    <3>3. ASSUME NEW s \in UpTo(n) PROVE CutStep(g, s) = CutStep(f, s)
      <4>1. CASE ~Complete(s)
            BY <4>1 DEF CutStep
      <4>2. CASE Complete(s)
        <5> DEFINE r == Rest(s)
        <5>1. s \in Seq(Byte) /\ Len(s) \in Nat /\ Len(s) <= n
              BY DEF UpTo
        <5>2. r \in Seq(Byte) /\ Len(r) \in Nat /\ Len(r) < Len(s)
              BY <4>2, <5>1, RestShorter
        <5> HIDE DEF r
        <5>3. r \in UpTo(n - 1) /\ r \in UpTo(n)
              BY <2>2, <3>1, <5>1, <5>2 DEF UpTo
        <5>4. f[r] = CutStep(g, r) /\ g[r] = CutStep(g, r)
              BY <3>2, <5>3 DEF CutSol
        <5> HIDE DEF f
        <5>5. f[Rest(s)] = g[Rest(s)]
              BY <5>4 DEF r
        <5> QED BY <4>2, <5>5 DEF CutStep
      <4> QED BY <4>1, <4>2
    <3>4. f = [s \in UpTo(n) |-> CutStep(f, s)]
          BY <3>3
    <3> HIDE DEF f
    <3> QED BY <2>2, <3>4 DEF CutSol
  <2> QED BY <2>3, <2>4
<1> QED BY <1>1

\* The recursive definition of Cut has a solution, so Cut obeys it.
LEMMA CutUnfolds ==
    ASSUME NEW s \in Seq(Byte)
    PROVE  Cut[s] = IF Complete(s) THEN <<FirstOf(s)>> \o Cut[Rest(s)] ELSE <<>>
<1> DEFINE sol(n) == CHOOSE f : CutSol(f, n)
           F == [t \in Seq(Byte) |-> sol(Len(t))[t]]
<1>1. \A n \in Nat : CutSol(sol(n), n)
      BY SolsExist
<1> HIDE DEF sol
<1>2. ASSUME NEW t \in Seq(Byte) PROVE F[t] = CutStep(F, t)
  <2>1. Len(t) \in Nat /\ t \in UpTo(Len(t))
        BY DEF UpTo
  <2>2. CutSol(sol(Len(t)), Len(t))
        BY <1>1, <2>1
  <2>3. sol(Len(t))[t] = CutStep(sol(Len(t)), t)
        BY <2>1, <2>2 DEF CutSol
  <2>4. CASE ~Complete(t)
        BY <2>3, <2>4 DEF CutStep
  <2>5. CASE Complete(t)
    <3> DEFINE r == Rest(t)
    <3>1. r \in Seq(Byte) /\ Len(r) \in Nat /\ Len(r) < Len(t)
          BY <2>5, RestShorter
    <3> HIDE DEF r
    <3>2. r \in UpTo(Len(t)) \cap UpTo(Len(r))
          BY <2>1, <3>1 DEF UpTo
    <3>3. CutSol(sol(Len(r)), Len(r))
          BY <1>1, <3>1
    <3> DEFINE f == sol(Len(t))
               g == sol(Len(r))
               n == Len(t)
               m == Len(r)
    <3>4. CutSol(f, n) /\ CutSol(g, m) /\ n \in Nat /\ m \in Nat
          BY <2>1, <2>2, <3>1, <3>3
    <3>5. F[r] = g[r] /\ F[t] = CutStep(f, t)
          BY <2>3, <3>1
    <3>6. r \in UpTo(n) \cap UpTo(m)
          BY <3>2
    <3> HIDE DEF f, g, n, m, F
    <3>7. f[r] = g[r]
          BY <3>4, <3>6, SolsAgree
    <3>8. f[Rest(t)] = F[Rest(t)]
          BY <3>5, <3>7 DEF r
    <3> QED BY <2>5, <3>5, <3>8 DEF CutStep
  <2> QED BY <2>4, <2>5
<1>3. F = [t \in Seq(Byte) |->
             IF Complete(t) THEN <<[id |-> t[1], len |-> t[2]]>> \o F[Rest(t)] ELSE <<>>]
  <2>1. F = [t \in Seq(Byte) |-> F[t]]
        OBVIOUS
  <2> HIDE DEF F
  <2> QED BY <1>2, <2>1 DEF CutStep, FirstOf
<1> HIDE DEF F
<1>4. Cut = [t \in Seq(Byte) |->
             IF Complete(t) THEN <<[id |-> t[1], len |-> t[2]]>> \o Cut[Rest(t)] ELSE <<>>]
      BY <1>3 DEF Cut
<1> QED BY <1>4 DEF FirstOf

Header == [id : Byte, len : Byte]

LEMMA CutTyped == \A s \in Seq(Byte) : Cut[s] \in Seq(Header)
<1> DEFINE Bad == {k \in Nat : \E s \in Seq(Byte) : Len(s) = k /\ Cut[s] \notin Seq(Header)}
<1>1. ASSUME Bad # {} PROVE FALSE
  <2>1. PICK k \in Bad : \A j \in Bad : k <= j
        BY <1>1, LeastNat
  <2>2. PICK s \in Seq(Byte) : Len(s) = k /\ Cut[s] \notin Seq(Header)
        OBVIOUS
  <2>3. Cut[s] = IF Complete(s) THEN <<FirstOf(s)>> \o Cut[Rest(s)] ELSE <<>>
        BY CutUnfolds
  <2>4. Complete(s)
        BY <2>2, <2>3
  <2> DEFINE q == Cut[Rest(s)]
             h == FirstOf(s)
             r == Rest(s)
  <2>5. r \in Seq(Byte) /\ Len(r) \in Nat /\ Len(r) < Len(s) /\ Len(s) \in Nat
        BY <2>4, RestShorter
  <2>6. q \in Seq(Header)
    <3> HIDE DEF r
    <3>1. Len(r) \notin Bad
          BY <2>1, <2>2, <2>5
    <3>2. Cut[r] \in Seq(Header)
          BY <3>1, <2>5
    <3> QED BY <3>2 DEF r
  <2>7. h \in Header
    <3>1. 1 \in 1..Len(s) /\ 2 \in 1..Len(s)
          BY <2>4, <2>5 DEF Complete, HeaderLen
    <3>2. s[1] \in Byte /\ s[2] \in Byte
          BY <3>1, ElementOfSeq
    <3> QED BY <3>2 DEF FirstOf, Header
  <2>8. Cut[s] = <<h>> \o q
        BY <2>3, <2>4
  <2> HIDE DEF q, h
  <2>9. <<h>> \in Seq(Header)
        BY <2>7
  <2>10. <<h>> \o q \in Seq(Header)
        BY ONLY <2>6, <2>9, ConcatProperties
  <2> QED BY <2>2, <2>8, <2>10
<1>2. ASSUME NEW s \in Seq(Byte) PROVE Cut[s] \in Seq(Header)
  <2>1. Len(s) \in Nat
        OBVIOUS
  <2> QED BY <1>1, <2>1
<1> QED BY <1>2

LEMMA CutEmpty == Cut[<<>>] = <<>>
<1>1. <<>> \in Seq(Byte) /\ ~Complete(<<>>)
      BY DEF Complete, HeaderLen
<1> QED BY <1>1, CutUnfolds

\* A message behind whole messages is the last one that they spell.
LEMMA CutAppend ==
    ASSUME NEW id \in 1..4, NEW len \in 0..MaxBody
    PROVE  \A s \in Seq(Byte) : Framed(s) =>
              Cut[s \o Frame(id, len)] = Append(Cut[s], [id |-> id, len |-> len])
<1> DEFINE f == Frame(id, len)
           h == [id |-> id, len |-> len]
           Bad == {k \in Nat : \E s \in Seq(Byte) :
                      Len(s) = k /\ Framed(s) /\ Cut[s \o f] # Append(Cut[s], h)}
<1>0. /\ f \in Seq(Byte) /\ Len(f) = HeaderLen + len /\ f[1] = id /\ f[2] = len
      /\ len \in Nat /\ h \in Header
  <2>1. id \in Byte /\ len \in Byte /\ len \in Nat
        BY CapAssumption DEF Byte
  <2> QED BY <2>1, FrameBytes DEF Header
<1>f. Cut[f] = <<h>>
  <2> HIDE DEF f
  <2>1. Complete(f) /\ FirstOf(f) = h
        BY <1>0 DEF Complete, HeaderLen, FirstOf
  <2>2. Rest(f) = <<>>
    <3>1. Rest(f) = SubSeq(f, Len(f) + 1, Len(f))
          BY <1>0 DEF Rest
    <3>2. Len(f) \in Nat
          BY <1>0
    <3>3. Len(f) + 1 \in Int /\ Len(f) \in Int /\ Len(f) < Len(f) + 1
          BY <3>2
    <3> QED BY <3>1, <3>3, SubSeqEmpty
  <2>3. Cut[f] = <<h>> \o <<>>
        BY <1>0, <2>1, <2>2, CutUnfolds, CutEmpty
  <2> HIDE DEF h
  <2>4. <<h>> \in Seq(Header)
        BY <1>0
  <2> QED BY <2>3, <2>4, ConcatEmptySeq
<1> HIDE DEF f, h
<1>1. ASSUME Bad # {} PROVE FALSE
  <2>1. PICK k \in Bad : \A j \in Bad : k <= j
        BY <1>1, LeastNat
  <2>2. PICK s \in Seq(Byte) : Len(s) = k /\ Framed(s) /\ Cut[s \o f] # Append(Cut[s], h)
        OBVIOUS
  <2>3. CASE s = <<>>
    <3>1. s \o f = f
          BY <1>0, <2>3, ConcatEmptySeq
    <3>2. Append(Cut[s], h) = <<h>>
          BY <2>3, CutEmpty
    <3> QED BY <2>2, <3>1, <3>2, <1>f
  <2>4. CASE s # <<>>
    <3> DEFINE r == Rest(s)
               g == FirstOf(s)
               q == Cut[r]
    <3>1. Complete(s) /\ r \in Seq(Byte) /\ Framed(r)
          BY <2>2, <2>4, FramedWhole
    <3>2. Len(r) \in Nat /\ Len(r) < Len(s) /\ Len(s) \in Nat
          BY <3>1, RestShorter
    <3>3. s \o f \in Seq(Byte) /\ Complete(s \o f) /\ FirstOf(s \o f) = g /\ Rest(s \o f) = r \o f
          BY <1>0, <3>1, RestConcat
    <3>4. Cut[s] = <<g>> \o q
          BY <3>1, CutUnfolds
    <3>5. Cut[s \o f] = <<g>> \o Cut[r \o f]
      <4> DEFINE t == s \o f
      <4>1. t \in Seq(Byte) /\ Complete(t) /\ FirstOf(t) = g /\ Rest(t) = r \o f
            BY <3>3
      <4> HIDE DEF t, g, r
      <4>2. Cut[t] = <<FirstOf(t)>> \o Cut[Rest(t)]
            BY <4>1, CutUnfolds
      <4> QED BY <4>1, <4>2 DEF t
    <3>6. g \in Header /\ q \in Seq(Header)
      <4>1. 1 \in 1..Len(s) /\ 2 \in 1..Len(s)
            BY <3>1, <3>2 DEF Complete, HeaderLen
      <4>2. s[1] \in Byte /\ s[2] \in Byte
            BY <4>1, ElementOfSeq
      <4> QED BY <4>2, <3>1, CutTyped DEF FirstOf, Header
    <3> HIDE DEF r, g
    <3>7. Cut[r \o f] = Append(q, h)
          BY <2>1, <2>2, <3>1, <3>2
    <3> HIDE DEF q
    <3>8. <<g>> \o Append(q, h) = Append(<<g>> \o q, h)
          BY <1>0, <3>6
    <3> QED BY <2>2, <3>4, <3>5, <3>7, <3>8
  <2> QED BY <2>3, <2>4
<1>2. ASSUME NEW s \in Seq(Byte), Framed(s) PROVE Cut[s \o f] = Append(Cut[s], h)
  <2>1. Len(s) \in Nat
        OBVIOUS
  <2> QED BY <1>1, <1>2, <2>1
<1> QED BY <1>2 DEF f, h

-----------------------------------------------------------------------------
(* The connection implements MessageLink.                                  *)

LEMMA QueueIsCut == TypeOK => Queue = [e \in End |-> Cut[Flow(e)]]
<1> SUFFICES ASSUME TypeOK PROVE Queue = [e \in End |-> Cut[Flow(e)]]
    OBVIOUS
<1>1. ASSUME NEW e \in End PROVE inBuf[Other(e)] \o wire[e] \o outBuf[e] = Flow(e)
  <2> DEFINE i == inBuf[Other(e)]
             w == wire[e]
             x == outBuf[e]
  <2>1. i \in Seq(Byte) /\ w \in Seq(Byte) /\ x \in Seq(Byte)
        BY <1>1, FlowTypes
  <2> HIDE DEF i, w, x
  <2>2. (i \o w) \o x = i \o (w \o x)
        BY ONLY <2>1, Assoc
  <2> QED BY <2>2 DEF i, w, x, Flow
<1> QED BY <1>1 DEF Queue

LEMMA LinkNames ==
    /\ Link!End = End /\ \A e \in End : Link!Other(e) = Other(e)
    /\ Link!HandshakeQ = HandshakeQ /\ Link!HandshakeR = HandshakeR
    /\ Link!AppendEntriesQ = AppendEntriesQ /\ Link!AppendEntriesR = AppendEntriesR
BY DEF Link!End, End, Link!Other, Other, Link!HandshakeQ, HandshakeQ, Link!HandshakeR,
       HandshakeR, Link!AppendEntriesQ, AppendEntriesQ, Link!AppendEntriesR, AppendEntriesR

\* The messages of what a handler sends back.
LEMMA AnswerIsLinked ==
    ASSUME NEW b \in Seq(Byte), NEW d \in Seq(Byte), Framed(b \o d),
           NEW id, NEW after, NEW t, Answer(id, d, after, t)
    PROVE  /\ \E a \in Link!Answers(id) : Cut[b \o after] = Cut[b \o d] \o a
           /\ t \in IF id = HandshakeQ THEN {tied, TRUE} ELSE {tied}
<1> DEFINE c == Cut[b \o d]
           Msg(i, l) == [id |-> i, len |-> l]
<1>0. /\ HandshakeR \in 1..4 /\ AppendEntriesQ \in 1..4 /\ AppendEntriesR \in 1..4
      /\ HandshakeQ # AppendEntriesQ
      BY DEF HandshakeQ, HandshakeR, AppendEntriesQ, AppendEntriesR
<1>1. b \o d \in Seq(Byte)
      BY ONLY b \in Seq(Byte), d \in Seq(Byte), ConcatProperties
<1>2. c \in Seq(Header)
      BY <1>1, CutTyped
<1>3. \A i \in 1..4, l \in 0..MaxBody : Msg(i, l) \in Header
      BY CapAssumption DEF Header, Byte
<1>4. \A i \in 1..4, l \in 0..MaxBody : Cut[b \o (d \o Frame(i, l))] = Append(c, Msg(i, l))
  <2> SUFFICES ASSUME NEW i \in 1..4, NEW l \in 0..MaxBody
               PROVE  Cut[b \o (d \o Frame(i, l))] = Append(c, Msg(i, l))
      OBVIOUS
  <2>1. b \o (d \o Frame(i, l)) = (b \o d) \o Frame(i, l)
        BY FlowGrows
  <2> QED BY <1>1, <2>1, CutAppend
<1>5. \A i \in 1..4, l \in 0..MaxBody : Append(c, Msg(i, l)) = c \o <<Msg(i, l)>>
  <2> SUFFICES ASSUME NEW i \in 1..4, NEW l \in 0..MaxBody
               PROVE  Append(c, Msg(i, l)) = c \o <<Msg(i, l)>>
      OBVIOUS
  <2> DEFINE m == Msg(i, l)
  <2>1. m \in Header
        BY <1>3
  <2> HIDE DEF m, c
  <2>2. Append(c, m) = c \o <<m>>
        BY ONLY <1>2, <2>1, AppendIsConcat
  <2> QED BY <2>2 DEF m
<1>of. \A i, l : l \in 0..MaxBody => Msg(i, l) \in Link!Of(i)
      BY DEF Link!Of, Link!Body
<1>6. CASE id = HandshakeQ /\ t = TRUE /\ \E l, m \in 0..MaxBody :
             after = (d \o Frame(AppendEntriesQ, l)) \o Frame(HandshakeR, m)
  <2>1. PICK l, m \in 0..MaxBody :
             after = (d \o Frame(AppendEntriesQ, l)) \o Frame(HandshakeR, m)
        BY <1>6
  <2> DEFINE e == d \o Frame(AppendEntriesQ, l)
             q == Msg(AppendEntriesQ, l)
             r == Msg(HandshakeR, m)
  <2>2. e \in Seq(Byte) /\ Framed(b \o e)
        BY <1>0, FlowGrows
  <2>3. Cut[b \o e] = Append(c, q)
        BY <1>0, <1>4
  <2>4. after = e \o Frame(HandshakeR, m)
        BY <2>1
  <2>5. q \in Header /\ r \in Header /\ q \in Link!Of(AppendEntriesQ) /\ r \in Link!Of(HandshakeR)
        BY <1>0, <1>3, <1>of
  <2>6. <<q, r>> \in Link!Answers(id)
    <3> HIDE DEF q, r
    <3>1. <<q, r>> \in {<<q1, r1>> : q1 \in Link!Of(AppendEntriesQ), r1 \in Link!Of(HandshakeR)}
          BY <2>5
    <3> QED BY <1>0, <1>6, <3>1, LinkNames DEF Link!Answers
  <2> HIDE DEF e
  <2>7. b \o (e \o Frame(HandshakeR, m)) = (b \o e) \o Frame(HandshakeR, m)
        BY <1>0, <2>2, FlowGrows
  <2>8. b \o e \in Seq(Byte)
        BY ONLY <2>2, b \in Seq(Byte), ConcatProperties
  <2>9. Cut[b \o after] = Append(Append(c, q), r)
        BY <1>0, <2>2, <2>3, <2>4, <2>7, <2>8, CutAppend
  <2> HIDE DEF q, r, c
  <2>10. Append(Append(c, q), r) = c \o <<q, r>>
        BY <1>2, <2>5
  <2> QED BY <1>6, <2>6, <2>9, <2>10 DEF c
<1>7. CASE id = HandshakeQ /\ t \in {tied, TRUE} /\ \E l \in 0..MaxBody : after = d \o Frame(HandshakeR, l)
  <2>1. PICK l \in 0..MaxBody : after = d \o Frame(HandshakeR, l)
        BY <1>7
  <2> DEFINE r == Msg(HandshakeR, l)
  <2>2. Cut[b \o after] = c \o <<r>> /\ r \in Link!Of(HandshakeR)
        BY <1>0, <1>4, <1>5, <1>of, <2>1
  <2>3. <<r>> \in Link!Answers(id)
    <3> HIDE DEF r
    <3>1. <<r>> \in {<<r1>> : r1 \in Link!Of(HandshakeR)}
          BY <2>2
    <3> QED BY <1>0, <1>7, <3>1, LinkNames DEF Link!Answers
  <2> QED BY <1>7, <2>2, <2>3
<1>8. CASE id = AppendEntriesQ /\ t = tied /\ \E l \in 0..MaxBody : after = d \o Frame(AppendEntriesR, l)
  <2>1. PICK l \in 0..MaxBody : after = d \o Frame(AppendEntriesR, l)
        BY <1>8
  <2> DEFINE r == Msg(AppendEntriesR, l)
  <2>2. Cut[b \o after] = c \o <<r>> /\ r \in Link!Of(AppendEntriesR)
        BY <1>0, <1>4, <1>5, <1>of, <2>1
  <2>3. <<r>> \in Link!Answers(id)
    <3> HIDE DEF r
    <3>1. <<r>> \in {<<r1>> : r1 \in Link!Of(AppendEntriesR)}
          BY <2>2
    <3> QED BY <1>0, <1>8, <3>1, LinkNames DEF Link!Answers
  <2> QED BY <1>0, <1>8, <2>2, <2>3
<1>9. CASE id \notin {HandshakeQ, AppendEntriesQ} /\ t = tied /\ after = d
  <2>1. <<>> \in Link!Answers(id)
        BY <1>9, LinkNames DEF Link!Answers
  <2>2. c \o <<>> = c
    <3> HIDE DEF c
    <3> QED BY <1>2, ConcatEmptySeq
  <2> QED BY <1>9, <2>1, <2>2
<1> QED BY <1>6, <1>7, <1>8, <1>9 DEF Answer

LEMMA LinkStep == StreamInv /\ StreamInv' /\ [Next]_vars => [Link!Next]_<<Queue, tied>>
<1> SUFFICES ASSUME StreamInv, StreamInv', [Next]_vars PROVE [Link!Next]_<<Queue, tied>>
    OBVIOUS
<1> USE Ends, LinkNames
<1>t. TypeOK /\ TypeOK' /\ (\A e \in End : Framed(Flow(e)) /\ Flow(e) \in Seq(Byte))
      BY FlowTypes DEF StreamInv
<1>q. Queue = [e \in End |-> Cut[Flow(e)]] /\ Queue' = [e \in End |-> Cut[Flow(e)']]
  <2>1. Queue = [e \in End |-> Cut[Flow(e)]]
        BY <1>t, QueueIsCut
  <2>2. (TypeOK => Queue = [e \in End |-> Cut[Flow(e)]])'
        BY QueueIsCut, PTL
  <2> QED BY <1>t, <2>1, <2>2
<1>s. ASSUME \A e \in End : Flow(e)' = Flow(e), tied' = tied PROVE UNCHANGED <<Queue, tied>>
      BY <1>s, <1>q
<1>1. CASE TryConnect
      BY <1>1, <1>s DEF TryConnect, Flow
<1>2. CASE AcceptedCallback
  <2>1. tied' = tied
        BY <1>2 DEF AcceptedCallback
  <2>2. CASE \A e \in End : Flow(e)' = Flow(e)
        BY <2>1, <2>2, <1>s
  <2>3. CASE Flow("node")' = Flow("node") \o Frame(HandshakeQ, MaxBody) /\ Flow("hub")' = Flow("hub")
    <3> DEFINE m == [id |-> HandshakeQ, len |-> MaxBody]
    <3>1. HandshakeQ \in 1..4 /\ MaxBody \in 0..MaxBody
          BY CapAssumption DEF HandshakeQ
    <3>2. Cut[Flow("node")'] = Append(Cut[Flow("node")], m)
          BY <1>t, <2>3, <3>1, CutAppend
    <3>3. m \in Link!Of(Link!HandshakeQ)
          BY <3>1 DEF Link!Of, Link!Body
    <3> HIDE DEF m
    <3>4. Queue' = [Queue EXCEPT !["node"] = Append(@, m)]
          BY <1>q, <2>3, <3>2 DEF End
    <3> QED BY <2>1, <3>3, <3>4 DEF Link!Next, Link!Connect
  <2> QED BY <1>2, <2>2, <2>3, AcceptedFlow
<1>3. ASSUME NEW e \in End, RecvCallback(e) PROVE UNCHANGED <<Queue, tied>>
      BY <1>3, <1>s, RecvFlow DEF RecvCallback
<1>4. ASSUME NEW e \in End, HandleFrame(e) PROVE Link!Next
  <2> DEFINE d == Other(e)
             a == inBuf[e]
             r == wire[d] \o outBuf[d]
             b == inBuf[d]
             x == wire[e] \o outBuf[e]
  <2>1. PICK after : /\ Answer(a[1], x, after, tied')
                     /\ Flow(e)' = b \o after
        BY <1>4, HandleFlow
  <2>2. Complete(a) /\ Flow(d)' = Rest(a) \o r
        BY <1>4, HandleFlow
  <2>3. d \in End /\ Other(d) = e /\ d # e /\ Flow(e) = b \o x /\ Flow(d) = a \o r
        BY DEF Flow
  <2>4. a \in Seq(Byte) /\ b \in Seq(Byte) /\ r \in Seq(Byte) /\ x \in Seq(Byte)
        BY <1>t, <2>3, FlowTypes
  <2> HIDE DEF d, a, r, b, x
  <2>5. Framed(b \o x)
    <3>1. Framed(Flow(e))
          BY <1>t
    <3> QED BY <2>3, <3>1
  <2>6. Cut[a \o r] = <<FirstOf(a)>> \o Cut[Rest(a) \o r]
    <3> DEFINE z == a \o r
    <3>1. z \in Seq(Byte) /\ Complete(z) /\ FirstOf(z) = FirstOf(a) /\ Rest(z) = Rest(a) \o r
          BY <2>2, <2>4, RestConcat
    <3> HIDE DEF z
    <3>2. Cut[z] = <<FirstOf(z)>> \o Cut[Rest(z)]
          BY <3>1, CutUnfolds
    <3> QED BY <3>1, <3>2 DEF z
  <2>7. Rest(a) \o r \in Seq(Byte)
    <3> DEFINE y == Rest(a)
    <3>1. y \in Seq(Byte)
          BY <2>2, <2>4, RestShorter
    <3> HIDE DEF y
    <3>2. y \o r \in Seq(Byte)
          BY ONLY <2>4, <3>1, ConcatProperties
    <3> QED BY <3>2 DEF y
  <2> DEFINE h == FirstOf(a)
             q == Cut[Rest(a) \o r]
  <2>8. h.id = a[1]
        BY DEF FirstOf
  <2>9. q \in Seq(Header)
        BY <2>7, CutTyped
  <2>10. Queue[d] = <<h>> \o q /\ Queue'[d] = q
        BY <1>q, <2>2, <2>3, <2>6
  <2> HIDE DEF h, q
  <2>11. Queue[d] # <<>> /\ Head(Queue[d]) = h /\ Tail(Queue[d]) = q
        BY <2>9, <2>10
  <2> DEFINE id == a[1]
             tt == tied'
  <2>12. Answer(id, x, after, tt)
        BY <2>1
  <2> HIDE DEF id, tt
  <2>13. /\ \E m \in Link!Answers(id) : Cut[b \o after] = Cut[b \o x] \o m
         /\ tt \in IF id = HandshakeQ THEN {tied, TRUE} ELSE {tied}
        BY <2>4, <2>5, <2>12, AnswerIsLinked
  <2>14. PICK m \in Link!Answers(id) : Cut[b \o after] = Cut[b \o x] \o m
        BY <2>13
  <2>15. Queue[e] = Cut[b \o x] /\ Queue'[e] = Queue[e] \o m
        BY <1>q, <2>1, <2>3, <2>14
  <2>16. Queue' = [Queue EXCEPT ![d] = Tail(@), ![e] = @ \o m]
    <3> DEFINE tail == Tail(Queue[d])
               long == Queue[e] \o m
    <3>1. Queue'[d] = tail /\ Queue'[e] = long
          BY <2>10, <2>11, <2>15
    <3>2. DOMAIN Queue = End /\ DOMAIN Queue' = End /\ Queue' = [c \in End |-> Queue'[c]]
          BY <1>q
    <3> HIDE DEF tail, long
    <3>3. \A c \in End : c = d \/ c = e
          BY DEF d
    <3>4. Queue' = [Queue EXCEPT ![d] = tail, ![e] = long]
          BY <2>3, <3>1, <3>2, <3>3
    <3>5. [Queue EXCEPT ![d] = Tail(@), ![e] = @ \o m] = [Queue EXCEPT ![d] = tail, ![e] = long]
          BY <2>3, <3>2 DEF tail, long
    <3> QED BY <3>4, <3>5
  <2>17. Head(Queue[d]).id = id /\ tied' \in IF id = HandshakeQ THEN {tied, TRUE} ELSE {tied}
        BY <2>8, <2>11, <2>13 DEF id, tt
  <2>18. Link!Handle(e)
        BY <2>11, <2>14, <2>16, <2>17 DEF Link!Handle, d
  <2> QED BY <2>18 DEF Link!Next
<1>5. ASSUME NEW e \in End, SendCallback(e) PROVE UNCHANGED <<Queue, tied>>
      BY <1>5, <1>s, SendCallbackFlow DEF SendCallback
<1>6. CASE SendAppendEntries
  <2>1. tied' = tied /\ tied
        BY <1>6 DEF SendAppendEntries
  <2>2. PICK l \in 0..MaxBody : Flow("hub")' = Flow("hub") \o Frame(AppendEntriesQ, l)
        BY <1>6, SendAppendFlow
  <2>3. Flow("node")' = Flow("node")
        BY <1>6, SendAppendFlow
  <2> DEFINE m == [id |-> AppendEntriesQ, len |-> l]
  <2>4. AppendEntriesQ \in 1..4
        BY DEF AppendEntriesQ
  <2>5. Cut[Flow("hub")'] = Append(Cut[Flow("hub")], m)
        BY <1>t, <2>2, <2>4, CutAppend
  <2>6. m \in Link!Of(Link!AppendEntriesQ)
        BY DEF Link!Of, Link!Body
  <2> HIDE DEF m
  <2>7. Queue' = [Queue EXCEPT !["hub"] = Append(@, m)]
        BY <1>q, <2>3, <2>5 DEF End
  <2> QED BY <2>1, <2>6, <2>7 DEF Link!Next, Link!Broadcast
<1>7. CASE UNCHANGED vars
      BY <1>7, <1>s DEF vars, Flow
<1> QED BY <1>1, <1>2, <1>3, <1>4, <1>5, <1>6, <1>7 DEF Next

LEMMA LinkInit == Init => Link!Init
<1> SUFFICES ASSUME Init PROVE Link!Init
    OBVIOUS
<1>1. TypeOK
      BY StreamInit DEF StreamInv
<1>2. \A e \in End : Flow(e) = <<>>
  <2>1. <<>> \o (<<>> \o <<>>) = <<>>
        OBVIOUS
  <2> QED BY <2>1, Ends DEF Init, Flow
<1>3. Queue = [e \in End |-> <<>>]
      BY <1>1, <1>2, QueueIsCut, CutEmpty
<1> QED BY <1>3, LinkNames DEF Link!Init, Init

\* However receives and sends cut the bytes and whoever runs first, each
\* message is handled once, whole and in order, and its answers are queued in
\* the order in which they were made: the connection of Mod.cpp:75-143 and
\* Conn.cpp:125-205 implements the link that NanoRaft takes for granted.
THEOREM StreamImplementsLink == Spec => ImplementsMessageLink
<1>1. Spec => []StreamInv
      BY StreamInvariant
<1> QED BY <1>1, LinkInit, LinkStep, PTL DEF Spec, ImplementsMessageLink, Link!Spec

=============================================================================
