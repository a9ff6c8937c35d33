---------------------------- MODULE ExpiryProofs ----------------------------
(***************************************************************************)
(* What the lines of the output say about the batches of an expiry, for    *)
(* any players, any size of a batch and any number of logins, timers and   *)
(* starts of the server.                                                   *)
(***************************************************************************)
EXTENDS Expiry, TLAPS, SequenceTheorems, FiniteSetTheorems, NaturalsInduction,
        WellFoundedInduction

-----------------------------------------------------------------------------
(* Batches under way *)

DbIn(s) == {i \in 1..Len(s) : s[i].op = "DB"}
DbCount(s) == Cardinality(DbIn(s))
Pending == DbCount(cmds) + DbCount(replies)

LEMMA DbCountType ==
    ASSUME NEW s \in Seq(Request)
    PROVE  IsFiniteSet(DbIn(s)) /\ DbCount(s) \in Nat
<1>1. Len(s) \in Nat
      OBVIOUS
<1>2. IsFiniteSet(1..Len(s))
      BY <1>1, FS_Interval
<1>3. DbIn(s) \in SUBSET (1..Len(s))
      BY DEF DbIn
<1>4. IsFiniteSet(DbIn(s))
      BY <1>2, <1>3, FS_Subset
<1> QED BY <1>4, FS_CardinalityType DEF DbCount

LEMMA DbCountEmpty == DbIn(<<>>) = {} /\ DbCount(<<>>) = 0
<1>1. DbIn(<<>>) = {}
      BY DEF DbIn
<1> QED BY <1>1, FS_EmptySet DEF DbCount

\* A request at the end.
LEMMA DbAppend ==
    ASSUME NEW s \in Seq(Request), NEW q \in Request
    PROVE  /\ DbIn(Append(s, q)) = IF q.op = "DB" THEN DbIn(s) \cup {Len(s) + 1} ELSE DbIn(s)
           /\ DbCount(Append(s, q)) = IF q.op = "DB" THEN DbCount(s) + 1 ELSE DbCount(s)
<1> DEFINE l == Len(s) + 1
<1>1. /\ Len(s) \in Nat /\ Len(Append(s, q)) = l
      /\ Append(s, q)[l] = q
      /\ \A i \in 1..Len(s) : Append(s, q)[i] = s[i]
      BY AppendProperties
<1>2. IsFiniteSet(DbIn(s)) /\ l \notin DbIn(s)
  <2>1. IsFiniteSet(DbIn(s))
        BY DbCountType
  <2>2. l \notin DbIn(s)
        BY <1>1 DEF DbIn
  <2> QED BY <2>1, <2>2
<1>3. CASE q.op = "DB"
  <2>1. DbIn(Append(s, q)) = DbIn(s) \cup {l}
        BY <1>1, <1>3 DEF DbIn
  <2> QED BY <1>2, <1>3, <2>1, FS_AddElement DEF DbCount
<1>4. CASE q.op # "DB"
  <2>1. DbIn(Append(s, q)) = DbIn(s)
        BY <1>1, <1>4 DEF DbIn
  <2> QED BY <1>4, <2>1 DEF DbCount
<1> QED BY <1>3, <1>4

\* The next request is taken.
LEMMA DbTail ==
    ASSUME NEW s \in Seq(Request), s # <<>>
    PROVE  /\ \A i \in DbIn(Tail(s)) : i + 1 \in DbIn(s) /\ i + 1 # 1 /\ Tail(s)[i] = s[i + 1]
           /\ DbCount(s) = IF Head(s).op = "DB" THEN DbCount(Tail(s)) + 1 ELSE DbCount(Tail(s))
           /\ Head(s).op = "DB" => 1 \in DbIn(s) /\ s[1] = Head(s)
<1> DEFINE t == Tail(s)
           later == DbIn(s) \ {1}
           f == [i \in DbIn(t) |-> i + 1]
<1>1. /\ t \in Seq(Request) /\ Len(s) \in Nat \ {0} /\ Len(t) = Len(s) - 1
      /\ \A i \in 1..Len(t) : t[i] = s[i + 1]
      /\ Head(s) = s[1]
      BY HeadTailProperties, EmptySeq
<1>2. IsFiniteSet(DbIn(t)) /\ DbCount(t) \in Nat
      BY <1>1, DbCountType
<1> HIDE DEF t
<1>3. \A i \in DbIn(t) : i \in Nat /\ i >= 1 /\ i + 1 \in later /\ t[i] = s[i + 1]
      BY <1>1 DEF DbIn
<1>4. \A j \in later : j - 1 \in DbIn(t) /\ j = (j - 1) + 1
      BY <1>1 DEF DbIn
<1>5. f \in Bijection(DbIn(t), later)
  <2>1. f \in [DbIn(t) -> later]
        BY <1>3
  <2>2. \A a, b \in DbIn(t) : f[a] = f[b] => a = b
        BY <1>3
  <2>3. \A j \in later : \E a \in DbIn(t) : f[a] = j
    <3>1. \A j \in later : f[j - 1] = (j - 1) + 1
          BY <1>4
    <3> HIDE DEF f, later
    <3> QED BY <1>4, <3>1
  <2> QED BY <2>1, <2>2, <2>3 DEF Bijection, Injection, Surjection, IsInjective
<1>6. IsFiniteSet(later) /\ Cardinality(later) = DbCount(t)
  <2>1. ExistsBijection(DbIn(t), later)
        BY <1>5 DEF ExistsBijection
  <2> HIDE DEF later, f
  <2> QED BY <1>2, <2>1, FS_Bijection DEF DbCount
<1>7. CASE Head(s).op = "DB"
  <2>1. DbIn(s) = later \cup {1} /\ 1 \notin later
        BY <1>1, <1>7 DEF DbIn
  <2>2. DbCount(s) = DbCount(t) + 1
    <3> HIDE DEF later
    <3> QED BY <1>6, <2>1, FS_AddElement DEF DbCount
  <2> QED BY <1>1, <1>3, <1>7, <2>1, <2>2 DEF t
<1>8. CASE Head(s).op # "DB"
  <2>1. DbIn(s) = later
        BY <1>1, <1>8 DEF DbIn
  <2>2. DbCount(s) = DbCount(t)
        BY <1>6, <2>1 DEF DbCount
  <2> QED BY <1>3, <1>8, <2>2 DEF t
<1> QED BY <1>7, <1>8

-----------------------------------------------------------------------------
(* Lines in pairs *)

Tagged(lines, n, tag) == {i \in 1..n : lines[i].tag = tag}
Count(lines, n, tag) == Cardinality(Tagged(lines, n, tag))

\* No prefix has more "done:" lines than "pre:" lines, and k of the latter have
\* no partner yet.
Balanced(lines, k) ==
    /\ \A n \in 0..Len(lines) : Count(lines, n, "done") =< Count(lines, n, "pre")
    /\ Count(lines, Len(lines), "done") + k =< Count(lines, Len(lines), "pre")

LEMMA CountType ==
    ASSUME NEW lines, NEW n \in Nat, NEW tag
    PROVE  IsFiniteSet(Tagged(lines, n, tag)) /\ Count(lines, n, tag) \in Nat
<1>1. IsFiniteSet(1..n)
      BY FS_Interval
<1>2. Tagged(lines, n, tag) \in SUBSET (1..n)
      BY DEF Tagged
<1>3. IsFiniteSet(Tagged(lines, n, tag))
      BY <1>1, <1>2, FS_Subset
<1> QED BY <1>3, FS_CardinalityType DEF Count

SameTo(lines, more, n) == \A i \in 1..n : lines[i] = more[i]

LEMMA CountSame ==
    ASSUME NEW lines, NEW more, NEW n \in Nat, SameTo(lines, more, n), NEW tag
    PROVE  Count(more, n, tag) = Count(lines, n, tag)
BY DEF Count, Tagged, SameTo

LEMMA CountNext ==
    ASSUME NEW lines, NEW n \in Nat, NEW tag
    PROVE  Count(lines, n + 1, tag) =
               IF lines[n + 1].tag = tag THEN Count(lines, n, tag) + 1 ELSE Count(lines, n, tag)
<1>1. 1..(n + 1) = 1..n \cup {n + 1}
      OBVIOUS
<1>2. IsFiniteSet(Tagged(lines, n, tag)) /\ n + 1 \notin Tagged(lines, n, tag)
  <2>1. IsFiniteSet(Tagged(lines, n, tag))
        BY CountType
  <2>2. n + 1 \notin Tagged(lines, n, tag)
        BY DEF Tagged
  <2> QED BY <2>1, <2>2
<1>3. CASE lines[n + 1].tag = tag
  <2>1. Tagged(lines, n + 1, tag) = Tagged(lines, n, tag) \cup {n + 1}
        BY <1>1, <1>3 DEF Tagged
  <2> QED BY <1>2, <1>3, <2>1, FS_AddElement DEF Count
<1>4. CASE lines[n + 1].tag # tag
  <2>1. Tagged(lines, n + 1, tag) = Tagged(lines, n, tag)
        BY <1>1, <1>4 DEF Tagged
  <2> QED BY <1>4, <2>1 DEF Count
<1> QED BY <1>3, <1>4

\* One line more.
LEMMA BalancedAppend ==
    ASSUME NEW lines \in Seq(Line), NEW l \in Line, NEW k \in Nat, NEW j \in Nat,
           Balanced(lines, k), k = IF l.tag = "pre" THEN j - 1 ELSE j + 1
    PROVE  Append(lines, l) \in Seq(Line) /\ Balanced(Append(lines, l), j)
<1> DEFINE more == Append(lines, l)
           n == Len(lines)
<1>1. /\ n \in Nat /\ more \in Seq(Line) /\ Len(more) = n + 1 /\ more[n + 1] = l
      /\ \A i \in 1..n : lines[i] = more[i]
      BY AppendProperties
<1>2. l.tag = "pre" \/ l.tag = "done"
      BY DEF Line
<1>b. Balanced(lines, k) /\ n = Len(lines)
      OBVIOUS
<1> HIDE DEF more, n
<1>3. ASSUME NEW m \in 0..n, NEW tag
      PROVE  Count(more, m, tag) = Count(lines, m, tag) /\ Count(lines, m, tag) \in Nat
  <2>1. m \in Nat /\ SameTo(lines, more, m)
        BY <1>1 DEF SameTo
  <2> QED BY <2>1, CountSame, CountType
<1>4. n \in 0..n
      BY <1>1
<1>5. \A tag : Count(more, n + 1, tag) =
               IF l.tag = tag THEN Count(lines, n, tag) + 1 ELSE Count(lines, n, tag)
  <2>1. \A tag : Count(more, n + 1, tag) =
                 IF more[n + 1].tag = tag THEN Count(more, n, tag) + 1 ELSE Count(more, n, tag)
        BY <1>1, CountNext
  <2> QED BY <1>1, <1>3, <1>4, <2>1
<1>6. Count(lines, n, "done") + k =< Count(lines, n, "pre")
      BY <1>b DEF Balanced
<1>7. /\ Count(more, n + 1, "done") + j =< Count(more, n + 1, "pre")
      /\ Count(more, n + 1, "done") =< Count(more, n + 1, "pre")
  <2>1. Count(lines, n, "done") \in Nat /\ Count(lines, n, "pre") \in Nat
        BY <1>3, <1>4
  <2>2. CASE l.tag = "pre"
    <3>1. /\ Count(more, n + 1, "pre") = Count(lines, n, "pre") + 1
          /\ Count(more, n + 1, "done") = Count(lines, n, "done")
          BY <1>5, <2>2
    <3> QED BY <1>6, <2>1, <2>2, <3>1
  <2>3. CASE l.tag = "done"
    <3>1. /\ Count(more, n + 1, "pre") = Count(lines, n, "pre")
          /\ Count(more, n + 1, "done") = Count(lines, n, "done") + 1
          BY <1>5, <2>3
    <3> QED BY <1>6, <2>1, <2>3, <3>1
  <2> QED BY <1>2, <2>2, <2>3
<1>8. ASSUME NEW m \in 0..(n + 1) PROVE Count(more, m, "done") =< Count(more, m, "pre")
  <2>1. CASE m = n + 1
        BY <1>7, <2>1
  <2>2. CASE m # n + 1
    <3>1. m \in 0..n
          BY <1>1, <2>2
    <3>2. Count(lines, m, "done") =< Count(lines, m, "pre")
          BY <1>b, <3>1 DEF Balanced
    <3> QED BY <1>3, <3>1, <3>2
  <2> QED BY <2>1, <2>2
<1>9. Balanced(more, j)
      BY <1>1, <1>7, <1>8 DEF Balanced
<1> QED BY <1>1, <1>9 DEF more

\* A crash keeps a prefix of the lines, and no batch is under way after it.
LEMMA BalancedPrefix ==
    ASSUME NEW lines \in Seq(Line), NEW k \in Nat, Balanced(lines, k), NEW m \in 0..Len(lines)
    PROVE  /\ SubSeq(lines, 1, m) \in Seq(Line) /\ Len(SubSeq(lines, 1, m)) = m
           /\ \A i \in 1..m : SubSeq(lines, 1, m)[i] = lines[i]
           /\ Balanced(SubSeq(lines, 1, m), 0)
<1> DEFINE less == SubSeq(lines, 1, m)
<1>1. /\ less \in Seq(Line) /\ Len(less) = m /\ m \in Nat /\ Len(lines) \in Nat
      /\ \A i \in 1..m : less[i] = lines[i]
      OBVIOUS
<1> HIDE DEF less
<1>2. ASSUME NEW n \in 0..m
      PROVE  /\ Count(less, n, "done") =< Count(less, n, "pre")
             /\ Count(less, n, "done") \in Nat
  <2>1. n \in 0..Len(lines) /\ n \in Nat /\ SameTo(lines, less, n)
        BY <1>1 DEF SameTo
  <2>2. Count(lines, n, "done") =< Count(lines, n, "pre")
        BY <2>1 DEF Balanced
  <2> QED BY <2>1, <2>2, CountSame, CountType
<1>3. m \in 0..m
      BY <1>1
<1>4. Balanced(less, 0)
  <2>1. Count(less, m, "done") + 0 = Count(less, m, "done")
        BY <1>2, <1>3
  <2> QED BY <1>1, <1>2, <1>3, <2>1 DEF Balanced
<1> QED BY <1>1, <1>4 DEF less

\* Fewer batches may be under way than lines without a partner.
LEMMA BalancedLess ==
    ASSUME NEW lines \in Seq(Line), NEW k \in Nat, NEW j \in 0..k, Balanced(lines, k)
    PROVE  Balanced(lines, j)
<1>1. Len(lines) \in Nat
      OBVIOUS
<1>2. Count(lines, Len(lines), "done") \in Nat /\ Count(lines, Len(lines), "pre") \in Nat
      BY <1>1, CountType
<1>3. Count(lines, Len(lines), "done") + k =< Count(lines, Len(lines), "pre")
      BY DEF Balanced
<1>4. Count(lines, Len(lines), "done") + j =< Count(lines, Len(lines), "pre")
      BY <1>2, <1>3
<1> QED BY <1>4 DEF Balanced

-----------------------------------------------------------------------------
(* The stack of Logger::Restore *)

\* A set of numbers has a least one.
LEMMA LeastNat ==
    ASSUME NEW S, S \subseteq Nat, S # {}
    PROVE  \E m \in S : \A k \in S : m <= k
<1> DEFINE R == OpToRel(<, Nat)
<1>1. IsWellFoundedOn(R, Nat)
      BY NatLessThanWellFounded
<1>2. \A x, y \in Nat : x < y => <<x, y>> \in R
      BY DEF OpToRel
<1> HIDE DEF R
<1>3. PICK m \in S : \A k \in S : ~(<<k, m>> \in R)
      BY <1>1, WFMin
<1>4. ASSUME NEW k \in S PROVE m <= k
  <2>1. m \in Nat /\ k \in Nat
        OBVIOUS
  <2>2. ~(k < m)
        BY <1>2, <1>3, <2>1
  <2> QED BY <2>1, <2>2
<1> QED BY <1>4

\* One line of the recursion of Stack, and a function that obeys it up to n.
StackStep(f, lines, n) == IF n = 0 THEN <<>> ELSE Push(f[n - 1], lines[n])

StackSol(f, lines, n) == f = [m \in 0..n |-> StackStep(f, lines, m)]

LEMMA StackSolsAgree ==
    ASSUME NEW lines, NEW more, NEW n \in Nat, NEW m \in Nat, n <= m, SameTo(lines, more, n),
           NEW f, NEW g, StackSol(f, lines, n), StackSol(g, more, m)
    PROVE  \A j \in 0..n : f[j] = g[j]
<1> DEFINE Bad == {j \in 0..n : f[j] # g[j]}
<1>1. ASSUME Bad # {} PROVE FALSE
  <2>1. PICK j \in Bad : \A h \in Bad : j <= h
    <3>1. Bad \subseteq Nat
          OBVIOUS
    <3> HIDE DEF Bad
    <3> QED BY <1>1, <3>1, LeastNat
  <2>2. j \in 0..n /\ j \in 0..m /\ j \in Nat /\ f[j] # g[j]
        OBVIOUS
  <2>3. f[j] = StackStep(f, lines, j) /\ g[j] = StackStep(g, more, j)
        BY <2>2 DEF StackSol
  <2>4. CASE j = 0
        BY <2>2, <2>3, <2>4 DEF StackStep
  <2>5. CASE j # 0
    <3> DEFINE h == j - 1
    <3>1. h \in 0..n /\ ~(j <= h) /\ j \in 1..n
          BY <2>2, <2>5
    <3>2. f[j] = Push(f[h], lines[j]) /\ g[j] = Push(g[h], more[j])
          BY <2>3, <2>5 DEF StackStep
    <3> HIDE DEF h
    <3>3. h \notin Bad
      <4> HIDE DEF Bad
      <4> QED BY <2>1, <3>1
    <3>4. f[h] = g[h]
          BY <3>1, <3>3
    <3>5. lines[j] = more[j]
          BY <3>1 DEF SameTo
    <3> QED BY <2>2, <3>2, <3>4, <3>5
  <2> QED BY <2>4, <2>5
<1> QED BY <1>1

LEMMA StackSolsExist == \A lines : \A n \in Nat : \E f : StackSol(f, lines, n)
<1> SUFFICES ASSUME NEW lines PROVE \A n \in Nat : \E f : StackSol(f, lines, n)
    OBVIOUS
<1> DEFINE Bad == {n \in Nat : ~ \E f : StackSol(f, lines, n)}
<1>1. ASSUME Bad # {} PROVE FALSE
  <2>1. PICK n \in Bad : \A j \in Bad : n <= j
        BY <1>1, LeastNat
  <2>2. n \in Nat /\ ~ \E f : StackSol(f, lines, n)
        OBVIOUS
  <2>3. CASE n = 0
    <3> DEFINE f == [j \in 0..0 |-> <<>>]
    <3>1. \A j \in 0..0 : StackStep(f, lines, j) = <<>>
          BY DEF StackStep
    <3>2. f = [j \in 0..0 |-> StackStep(f, lines, j)]
          BY <3>1
    <3> HIDE DEF f
    <3> QED BY <2>2, <2>3, <3>2 DEF StackSol
  <2>4. CASE n # 0
    <3>1. n - 1 \in Nat /\ n - 1 \notin Bad
          BY <2>1, <2>2, <2>4
    <3>2. PICK g : StackSol(g, lines, n - 1)
          BY <3>1
    <3> DEFINE f == [j \in 0..n |-> StackStep(g, lines, j)]
    <3>3. ASSUME NEW j \in 0..n PROVE StackStep(g, lines, j) = StackStep(f, lines, j)
      <4>1. CASE j = 0
            BY <4>1 DEF StackStep
      <4>2. CASE j # 0
        <5> DEFINE h == j - 1
        <5>1. h \in 0..(n - 1) /\ h \in 0..n
              BY <2>2, <4>2
        <5> HIDE DEF h
        <5>2. f[h] = StackStep(g, lines, h) /\ g[h] = StackStep(g, lines, h)
              BY <3>2, <5>1 DEF StackSol
        <5> HIDE DEF f
        <5>3. f[j - 1] = g[j - 1]
              BY <5>2 DEF h
        <5> QED BY <4>2, <5>3 DEF StackStep
      <4> QED BY <4>1, <4>2
    <3>4. f = [j \in 0..n |-> StackStep(f, lines, j)]
          BY <3>3
    <3> HIDE DEF f
    <3> QED BY <2>2, <3>4 DEF StackSol
  <2> QED BY <2>3, <2>4
<1> QED BY <1>1

LEMMA StackIsSol ==
    ASSUME NEW lines \in Seq(Line)
    PROVE  \E f : StackSol(f, lines, Len(lines)) /\ Stack(lines) = f[Len(lines)]
<1> DEFINE f == CHOOSE s : s = [n \in 0..Len(lines) |-> IF n = 0 THEN <<>> ELSE Push(s[n - 1], lines[n])]
<1>1. Len(lines) \in Nat
      OBVIOUS
<1>2. PICK g : StackSol(g, lines, Len(lines))
      BY <1>1, StackSolsExist
<1>3. g = [n \in 0..Len(lines) |-> IF n = 0 THEN <<>> ELSE Push(g[n - 1], lines[n])]
      BY <1>2 DEF StackSol, StackStep
<1>4. f = [n \in 0..Len(lines) |-> IF n = 0 THEN <<>> ELSE Push(f[n - 1], lines[n])]
      BY <1>3
<1>5. Stack(lines) = f[Len(lines)]
      BY DEF Stack
<1> HIDE DEF f
<1>6. StackSol(f, lines, Len(lines))
      BY <1>4 DEF StackSol, StackStep
<1> QED BY <1>5, <1>6

LEMMA StackEmpty == Stack(<<>>) = <<>>
<1>1. <<>> \in Seq(Line) /\ Len(<<>>) = 0
      OBVIOUS
<1> DEFINE e == <<>>
<1>2. PICK f : StackSol(f, e, Len(e)) /\ Stack(e) = f[Len(e)]
      BY <1>1, StackIsSol
<1>3. StackSol(f, e, 0) /\ Stack(e) = f[0]
      BY <1>1, <1>2
<1> QED BY <1>3 DEF StackSol, StackStep

\* One line more is one push or pop more.
LEMMA StackAppend ==
    ASSUME NEW lines \in Seq(Line), NEW l \in Line
    PROVE  Stack(Append(lines, l)) = Push(Stack(lines), l)
<1> DEFINE more == Append(lines, l)
           n == Len(lines)
           m == n + 1
<1>1. /\ n \in Nat /\ more \in Seq(Line) /\ Len(more) = m /\ more[m] = l
      /\ \A i \in 1..n : lines[i] = more[i]
      BY AppendProperties
<1>2. PICK f : StackSol(f, lines, n) /\ Stack(lines) = f[n]
      BY StackIsSol
<1>3. m \in Nat /\ n <= m /\ n \in 0..n /\ m \in 0..m /\ m # 0 /\ m - 1 = n
      BY <1>1
<1> HIDE DEF more, n, m
<1>4. PICK g : StackSol(g, more, m) /\ Stack(more) = g[m]
      BY <1>1, StackIsSol
<1>5. f[n] = g[n]
  <2>1. SameTo(lines, more, n)
        BY <1>1 DEF SameTo
  <2>2. \A j \in 0..n : f[j] = g[j]
        BY <1>1, <1>2, <1>3, <1>4, <2>1, StackSolsAgree
  <2> QED BY <1>3, <2>2
<1>6. g[m] = Push(g[n], l)
  <2>1. g[m] = StackStep(g, more, m)
        BY <1>3, <1>4 DEF StackSol
  <2> QED BY <1>1, <1>3, <2>1 DEF StackStep
<1> QED BY <1>2, <1>4, <1>5, <1>6 DEF more

\* What is on the stack is lines.
LEMMA PushType ==
    ASSUME NEW s \in Seq(Line), NEW l \in Line
    PROVE  /\ Push(s, l) \in Seq(Line)
           /\ l.tag = "pre" => Len(Push(s, l)) = Len(s) + 1 /\ Push(s, l)[Len(s) + 1] = l
                               /\ \A i \in 1..Len(s) : Push(s, l)[i] = s[i]
           /\ l.tag # "pre" => Push(s, l) = SubSeq(s, 1, Len(s) - 1)
<1>1. Len(s) \in Nat /\ \A i \in 1..Len(s) : s[i] \in Line
      OBVIOUS
<1>2. /\ Append(s, l) \in Seq(Line) /\ Len(Append(s, l)) = Len(s) + 1
      /\ Append(s, l)[Len(s) + 1] = l
      /\ \A i \in 1..Len(s) : Append(s, l)[i] = s[i]
      BY AppendProperties
<1>3. SubSeq(s, 1, Len(s) - 1) \in Seq(Line)
  <2> DEFINE n == Len(s) - 1
  <2>1. n \in Int /\ 1 \in Int /\ \A i \in 1..n : s[i] \in Line
        BY <1>1
  <2> HIDE DEF n
  <2>2. SubSeq(s, 1, n) \in Seq(Line)
        BY ONLY <2>1, SubSeqProperties
  <2> QED BY <2>2 DEF n
<1> QED BY <1>2, <1>3 DEF Push

LEMMA StackType ==
    ASSUME NEW lines \in Seq(Line)
    PROVE  Stack(lines) \in Seq(Line)
<1> DEFINE n == Len(lines)
<1>1. n \in Nat /\ \A j \in 1..n : lines[j] \in Line
      OBVIOUS
<1>2. PICK f : StackSol(f, lines, n) /\ Stack(lines) = f[n]
      BY StackIsSol
<1> HIDE DEF n
<1> DEFINE Bad == {j \in 0..n : f[j] \notin Seq(Line)}
<1>3. ASSUME Bad # {} PROVE FALSE
  <2>1. PICK j \in Bad : \A h \in Bad : j <= h
    <3>1. Bad \subseteq Nat
          OBVIOUS
    <3> HIDE DEF Bad
    <3> QED BY <1>3, <3>1, LeastNat
  <2>2. j \in 0..n /\ j \in Nat /\ f[j] \notin Seq(Line)
        OBVIOUS
  <2>3. f[j] = StackStep(f, lines, j)
        BY <1>2, <2>2 DEF StackSol
  <2>4. CASE j = 0
    <3>1. <<>> \in Seq(Line)
          OBVIOUS
    <3> QED BY <2>2, <2>3, <2>4, <3>1 DEF StackStep
  <2>5. CASE j # 0
    <3> DEFINE h == j - 1
    <3>1. h \in 0..n /\ ~(j <= h) /\ j \in 1..n
          BY <1>1, <2>2, <2>5
    <3>2. f[j] = Push(f[h], lines[j])
          BY <2>3, <2>5 DEF StackStep
    <3> HIDE DEF h
    <3>3. h \notin Bad
      <4> HIDE DEF Bad
      <4> QED BY <2>1, <3>1
    <3>4. f[h] \in Seq(Line) /\ lines[j] \in Line
          BY <1>1, <3>1, <3>3
    <3>5. Push(f[h], lines[j]) \in Seq(Line)
          BY <3>4, PushType
    <3> HIDE DEF Bad
    <3> QED BY <2>2, <3>2, <3>5
  <2> QED BY <2>4, <2>5
<1> QED BY <1>1, <1>2, <1>3

-----------------------------------------------------------------------------
(* Lines that are printed *)

Named(stack) == UNION {line.users : line \in {l \in Range(stack) : l.of = "EXPIRE"}}

Small(lines) == \A i \in 1..Len(lines) : Cardinality(lines[i].users) =< Batch

LogOK(lines, k) == lines \in Seq(Line) /\ Small(lines) /\ Balanced(lines, k)

LEMMA BatchNat == Batch \in Nat /\ Batch >= 1 /\ MaxLogins \in Nat /\ MaxLives \in Nat
BY ExpiryBounds

LEMMA NamedIff ==
    ASSUME NEW s \in Seq(Line), NEW u
    PROVE  u \in Named(s) <=> \E i \in 1..Len(s) : s[i].of = "EXPIRE" /\ u \in s[i].users
<1>1. DOMAIN s = 1..Len(s)
      OBVIOUS
<1> QED BY <1>1 DEF Named, Range

LEMMA NamedType == ASSUME NEW s \in Seq(Line) PROVE Named(s) \subseteq User
<1>1. \A i \in 1..Len(s) : s[i] \in Line
      OBVIOUS
<1>2. \A l \in Line : l.users \subseteq User
      BY DEF Line
<1> QED BY <1>1, <1>2, NamedIff

LEMMA LineTypes ==
    /\ \A of \in {"EXPIRE", "sync"} : Done(of) \in Line /\ Done(of).tag = "done"
                                      /\ Done(of).of = of /\ Done(of).users = {}
    /\ \A of \in {"EXPIRE", "sync"} : \A us \in SUBSET User :
          Pre(of, us) \in Line /\ Pre(of, us).tag = "pre" /\ Pre(of, us).of = of
          /\ Pre(of, us).users = us
BY DEF Done, Pre, Line

\* One line more.
LEMMA LogAppend ==
    ASSUME NEW lines, NEW l \in Line, NEW k \in Nat, NEW j \in Nat, LogOK(lines, k),
           k = IF l.tag = "pre" THEN j - 1 ELSE j + 1, Cardinality(l.users) =< Batch
    PROVE  /\ LogOK(Append(lines, l), j)
           /\ Len(Append(lines, l)) = Len(lines) + 1
           /\ Stack(Append(lines, l)) = Push(Stack(lines), l)
<1>1. lines \in Seq(Line) /\ Small(lines) /\ Balanced(lines, k)
      BY DEF LogOK
<1>2. Append(lines, l) \in Seq(Line) /\ Balanced(Append(lines, l), j)
      BY <1>1, BalancedAppend
<1>3. Stack(Append(lines, l)) = Push(Stack(lines), l)
      BY <1>1, StackAppend
<1>4. /\ Len(lines) \in Nat /\ Len(Append(lines, l)) = Len(lines) + 1
      /\ Append(lines, l)[Len(lines) + 1] = l
      /\ \A i \in 1..Len(lines) : Append(lines, l)[i] = lines[i]
      BY <1>1, AppendProperties
<1>5. Small(Append(lines, l))
      BY <1>1, <1>4 DEF Small
<1> QED BY <1>2, <1>3, <1>4, <1>5 DEF LogOK

AfterSync(lines) == Append(Append(lines, Pre("sync", {})), Done("sync"))

\* The two lines of a write to the data base leave the stack as it was.
LEMMA LogSync ==
    ASSUME NEW lines, NEW k \in Nat, LogOK(lines, k)
    PROVE  /\ LogOK(AfterSync(lines), k)
           /\ Len(AfterSync(lines)) = Len(lines) + 2
           /\ Stack(AfterSync(lines)) = Stack(lines)
<1> DEFINE p == Pre("sync", {})
           d == Done("sync")
           one == Append(lines, p)
           two == Append(one, d)
<1>1. p \in Line /\ p.tag = "pre" /\ p.users = {} /\ d \in Line /\ d.tag = "done" /\ d.users = {}
      BY LineTypes
<1>2. Cardinality(p.users) =< Batch /\ Cardinality(d.users) =< Batch
      BY <1>1, FS_EmptySet, BatchNat
<1>3. k + 1 \in Nat /\ k = (k + 1) - 1
      OBVIOUS
<1> HIDE DEF p, d
<1>4. LogOK(one, k + 1) /\ Len(one) = Len(lines) + 1 /\ Stack(one) = Push(Stack(lines), p)
      BY <1>1, <1>2, <1>3, LogAppend
<1> HIDE DEF one
<1>5. LogOK(two, k) /\ Len(two) = Len(one) + 1 /\ Stack(two) = Push(Stack(one), d)
  <2> DEFINE j == k + 1
  <2>1. j \in Nat /\ j = IF d.tag = "pre" THEN k - 1 ELSE k + 1
        BY <1>1
  <2>2. LogOK(one, j)
        BY <1>4
  <2> HIDE DEF j
  <2> QED BY <1>1, <1>2, <2>1, <2>2, LogAppend
<1>6. lines \in Seq(Line) /\ Len(lines) \in Nat /\ Stack(lines) \in Seq(Line)
      BY StackType DEF LogOK
<1>7. Push(Push(Stack(lines), p), d) = Stack(lines)
  <2> DEFINE st == Stack(lines)
             sp == Push(st, p)
  <2>1. st \in Seq(Line)
        BY <1>6
  <2> HIDE DEF st
  <2>2. /\ sp \in Seq(Line) /\ Len(sp) = Len(st) + 1 /\ \A i \in 1..Len(st) : sp[i] = st[i]
        BY <1>1, <2>1, PushType
  <2>3. Len(st) \in Nat /\ (Len(st) + 1) - 1 = Len(st)
        BY <2>1
  <2> HIDE DEF sp
  <2>4. Push(sp, d) = SubSeq(sp, 1, Len(st))
    <3>1. d \in Line /\ d.tag # "pre" /\ sp \in Seq(Line)
          BY <1>1, <2>2
    <3>2. Push(sp, d) = SubSeq(sp, 1, Len(sp) - 1)
          BY ONLY <3>1, PushType
    <3>3. Len(sp) - 1 = Len(st)
          BY <2>2, <2>3
    <3> QED BY <3>2, <3>3
  <2>5. SubSeq(sp, 1, Len(st)) = st
    <3> DEFINE sub == SubSeq(sp, 1, Len(st))
    <3>1. sub \in Seq(Line) /\ Len(sub) = Len(st) /\ \A i \in 1..Len(st) : sub[i] = sp[i]
          BY <2>2, <2>3
    <3> HIDE DEF sub
    <3>2. \A i \in 1..Len(sub) : sub[i] = st[i]
          BY <2>2, <3>1
    <3>3. sub = st
          BY <2>1, <3>1, <3>2, SeqEqual
    <3> QED BY <3>3 DEF sub
  <2> QED BY <2>4, <2>5 DEF st, sp
<1>8. Len(two) = Len(lines) + 2
      BY <1>4, <1>5, <1>6
<1>9. two = AfterSync(lines)
      BY DEF AfterSync, one, p, d
<1> QED BY <1>4, <1>5, <1>7, <1>8, <1>9

\* What PrintLines does, a line at a time.
LEMMA Printed ==
    ASSUME log \in Seq(Line)
    PROVE  /\ \A l \in Line : PrintLines(<<l>>) => log' = Append(log, l) /\ kept' = kept
           /\ PrintLines(SyncLines) => log' = AfterSync(log) /\ kept' = kept
           /\ \A l \in Line : PrintLines(<<l>> \o SyncLines) =>
                                  log' = AfterSync(Append(log, l)) /\ kept' = kept
<1> DEFINE p == Pre("sync", {})
           d == Done("sync")
<1>1. p \in Line /\ d \in Line
      BY LineTypes
<1>2. SyncLines = <<p, d>>
      BY DEF SyncLines
<1>3. \A lines : AfterSync(lines) = Append(Append(lines, p), d)
      BY DEF AfterSync
<1> HIDE DEF p, d
<1>4. \A l \in Line : log \o <<l>> = Append(log, l)
      OBVIOUS
<1>5. \A lines \in Seq(Line) : lines \o <<p, d>> = Append(Append(lines, p), d)
      BY <1>1
<1>6. \A l \in Line : log \o (<<l>> \o <<p, d>>) = Append(Append(Append(log, l), p), d)
      BY <1>1
<1> QED BY <1>2, <1>3, <1>4, <1>5, <1>6 DEF PrintLines

-----------------------------------------------------------------------------
(* Requests *)

LEMMA AskType ==
    ASSUME NEW op \in Kinds, NEW us \in SUBSET User
    PROVE  /\ Ask(op, us) \in Request /\ Ask(op, us).op = op /\ Ask(op, us).users = us
           /\ Ask(op, us).ok
BY DEF Ask, Request

LEMMA ErrorType ==
    ASSUME NEW op \in Kinds
    PROVE  Error(op) \in Request /\ Error(op).op = op /\ Error(op).users = {}
BY DEF Error, Request

LEMMA RequestFields == \A q \in Request : q.op \in Kinds /\ q.users \in SUBSET User
BY DEF Request

LEMMA SendOne ==
    ASSUME cmds \in Seq(Request), NEW q \in Request, Send(<<q>>)
    PROVE  /\ cmds' \in Seq(Request)
           /\ ctx = "up" => cmds' = Append(cmds, q)
           /\ ctx # "up" => cmds' = cmds
<1>1. cmds \o <<q>> = Append(cmds, q) /\ Append(cmds, q) \in Seq(Request)
      OBVIOUS
<1> QED BY <1>1 DEF Send

LEMMA AnswerFacts ==
    ASSUME replies \in Seq(Request), NEW op, Answer(op)
    PROVE  /\ replies # <<>> /\ Head(replies) \in Request /\ Head(replies).op = op
           /\ Head(replies) = replies[1] /\ 1 \in 1..Len(replies)
           /\ replies' = Tail(replies) /\ Tail(replies) \in Seq(Request)
           /\ Len(replies) \in Nat /\ Len(Tail(replies)) = Len(replies) - 1
           /\ \A i \in 1..Len(Tail(replies)) : i + 1 \in 1..Len(replies)
                                               /\ Tail(replies)[i] = replies[i + 1]
<1>1. replies # <<>> /\ Head(replies).op = op /\ replies' = Tail(replies)
      BY DEF Answer
<1>2. /\ Head(replies) \in Request /\ Tail(replies) \in Seq(Request)
      /\ Len(Tail(replies)) = Len(replies) - 1
      /\ \A i \in 1..Len(Tail(replies)) : Tail(replies)[i] = replies[i + 1]
      /\ Len(replies) \in Nat \ {0}
      BY <1>1, HeadTailProperties, EmptySeq
<1>3. Head(replies) = replies[1]
      BY <1>1
<1>4. \A i \in 1..Len(Tail(replies)) : i + 1 \in 1..Len(replies)
      BY <1>2
<1> QED BY <1>1, <1>2, <1>3, <1>4

\* The players that are taken are at most as many as were asked for, and the
\* others stay in the heap.
LEMMA TakenFacts ==
    ASSUME TypeOK
    PROVE  /\ Taken \in SUBSET User /\ Cardinality(Taken) =< Batch
           /\ Left \in Seq(User) /\ IsInjective(Left) /\ aged \ Taken \subseteq Range(Left)
<1> DEFINE m == Ranks
           n == Len(heap)
<1>1. heap \in Seq(User) /\ n \in Nat /\ DOMAIN heap = 1..n /\ \A i \in 1..n : heap[i] \in User
      BY DEF TypeOK
<1>2. m \in 0..n /\ m =< Batch /\ m \in Nat
      BY <1>1, BatchNat DEF Ranks
<1>3. Taken = {heap[i] : i \in 1..m}
      BY DEF Taken
<1>4. \A i, j \in 1..n : heap[i] = heap[j] => i = j
      BY <1>1 DEF TypeOK, IsInjective
<1>5. aged \subseteq {heap[i] : i \in 1..n}
      BY <1>1 DEF TypeOK, Range
<1>6. Left = SubSeq(heap, m + 1, n)
      BY DEF Left
<1> HIDE DEF m, n
<1>7. Taken \in SUBSET User
      BY <1>1, <1>2, <1>3
<1>8. Cardinality(Taken) =< Batch
  <2> DEFINE S == 1..m
             f == [i \in S |-> heap[i]]
  <2>1. IsFiniteSet(S) /\ Cardinality(S) = m
    <3>1. IsFiniteSet(1..m) /\ Cardinality(1..m) = IF 1 > m THEN 0 ELSE m - 1 + 1
          BY <1>2, FS_Interval
    <3> QED BY <1>2, <3>1
  <2>2. f \in Surjection(S, Taken)
        BY <1>3 DEF Surjection
  <2> HIDE DEF S, f
  <2>3. Cardinality(Taken) =< Cardinality(S) /\ IsFiniteSet(Taken)
        BY <2>1, <2>2, FS_Surjection
  <2>4. Cardinality(Taken) \in Nat
        BY <2>3, FS_CardinalityType
  <2> QED BY <1>2, <2>1, <2>3, <2>4, BatchNat
<1> DEFINE l == SubSeq(heap, m + 1, n)
<1>9. l \in Seq(User) /\ Len(l) = n - m /\ \A i \in 1..(n - m) : l[i] = heap[m + i]
  <2> DEFINE h == m + 1
  <2>1. h \in Int /\ n \in Int /\ \A i \in h..n : heap[i] \in User
        BY <1>1, <1>2
  <2>2. (h <= n => n - h + 1 = n - m) /\ (~(h <= n) => n - m = 0) /\ n - h + 1 = n - m
        BY <1>1, <1>2
  <2>3. \A i \in 1..(n - m) : h + i - 1 = m + i
        BY <1>2
  <2>4. l = SubSeq(heap, h, n)
        OBVIOUS
  <2> HIDE DEF h, l
  <2>5. /\ SubSeq(heap, h, n) \in Seq(User)
        /\ Len(SubSeq(heap, h, n)) = IF h <= n THEN n - h + 1 ELSE 0
        /\ \A i \in 1..(n - h + 1) : SubSeq(heap, h, n)[i] = heap[h + i - 1]
        BY ONLY <2>1, SubSeqProperties
  <2> QED BY <2>2, <2>3, <2>4, <2>5
<1> HIDE DEF l
<1>10. DOMAIN l = 1..(n - m)
      BY <1>9
<1>11. IsInjective(l)
  <2>1. ASSUME NEW i \in 1..(n - m), NEW j \in 1..(n - m), l[i] = l[j] PROVE i = j
    <3>1. m + i \in 1..n /\ m + j \in 1..n
          BY <1>1, <1>2
    <3>2. m + i = m + j
          BY <1>4, <1>9, <2>1, <3>1
    <3> QED BY <1>2, <3>2
  <2> QED BY <1>10, <2>1 DEF IsInjective
<1>12. ASSUME NEW u \in aged \ Taken PROVE u \in Range(l)
  <2>1. PICK i \in 1..n : u = heap[i]
        BY <1>5
  <2>2. i \notin 1..m
        BY <1>3, <2>1
  <2> DEFINE j == i - m
  <2>3. j \in 1..(n - m) /\ m + j = i
        BY <1>1, <1>2, <2>2
  <2> HIDE DEF j
  <2>4. l[j] = u
        BY <1>9, <2>1, <2>3
  <2> QED BY <1>10, <2>3, <2>4 DEF Range
<1> QED BY <1>6, <1>7, <1>8, <1>9, <1>11, <1>12 DEF l

Found(q) == {u \in q.users : data[u] # "none"}

\* The next request q has got the answer a.
Moved(q, a) ==
    /\ q \in Request /\ a \in Request /\ a.op = q.op
    /\ cmds # <<>> /\ q = Head(cmds) /\ cmds' = Tail(cmds) /\ replies' = Append(replies, a)
    /\ a.op = "REDIS" => Cardinality(a.users) =< Batch
    /\ ~a.ok => a.users = {}

\* What redis makes of request q, with the answer a.
Executed(q, a) ==
    /\ Moved(q, a)
    /\ q.op = "DB" => /\ a.users = Found(q)
                      /\ data' = [u \in User |-> IF u \in Found(q) THEN "ttl" ELSE data[u]]
    /\ q.op # "DB" => data' = data
    /\ \/ heap' = heap /\ aged' = aged
       \/ heap' = Left /\ aged' = aged \ Taken

LEMMA ExecuteFacts ==
    ASSUME TypeOK, Execute
    PROVE  \E q, a : Executed(q, a)
<1> DEFINE q == Head(cmds)
           found == {u \in q.users : data[u] # "none"}
           us == CASE q.op = "ZCOUNT" -> q.users \cap aged
                   [] q.op = "REDIS" -> Taken
                   [] OTHER -> found
           a == Ask(q.op, us)
<1>1. cmds # <<>> /\ cmds \in Seq(Request)
      BY DEF Execute, TypeOK
<1>2. q \in Request
      BY <1>1
<1>3. /\ cmds' = Tail(cmds) /\ replies' = Append(replies, a)
      /\ heap' = (IF q.op = "REDIS" THEN Left ELSE heap)
      /\ aged' = (IF q.op = "REDIS" THEN aged \ Taken ELSE aged)
      /\ data' = (IF q.op = "DB" THEN [u \in User |-> IF u \in found THEN "ttl" ELSE data[u]] ELSE data)
      BY DEF Execute
<1>q. q = Head(cmds) /\ found = Found(q)
      BY DEF Found
<1> HIDE DEF q
<1>4. q.op \in Kinds /\ q.users \in SUBSET User
      BY <1>2, RequestFields
<1>5. Taken \in SUBSET User /\ Cardinality(Taken) =< Batch
      BY TakenFacts
<1>6. us \in SUBSET User /\ (q.op = "REDIS" => us = Taken) /\ (q.op = "DB" => us = found)
  <2>1. CASE q.op = "ZCOUNT"
    <3>1. us = q.users \cap aged
          BY <2>1
    <3> QED BY <1>4, <2>1, <3>1
  <2>2. CASE q.op = "REDIS"
    <3>1. us = Taken
          BY <2>2
    <3> QED BY <1>5, <2>2, <3>1
  <2>3. CASE q.op # "ZCOUNT" /\ q.op # "REDIS"
    <3>1. us = found
          BY <2>3
    <3> QED BY <1>4, <2>3, <3>1
  <2> QED BY <2>1, <2>2, <2>3
<1> HIDE DEF us, found
<1>7. a \in Request /\ a.op = q.op /\ a.users = us /\ a.ok
      BY <1>4, <1>6, AskType
<1> HIDE DEF a
<1>8. Moved(q, a)
      BY <1>1, <1>2, <1>3, <1>q, <1>5, <1>6, <1>7 DEF Moved
<1>9. Executed(q, a)
      BY <1>3, <1>q, <1>6, <1>7, <1>8 DEF Executed
<1> QED BY <1>9

LEMMA RefuseFacts ==
    ASSUME TypeOK, Refuse
    PROVE  \E q, a : Moved(q, a) /\ a.users = {}
<1> DEFINE q == Head(cmds)
           a == Error(q.op)
<1>1. /\ cmds # <<>> /\ cmds \in Seq(Request) /\ cmds' = Tail(cmds)
      /\ replies' = Append(replies, a)
      BY DEF Refuse, TypeOK
<1>2. q \in Request
      BY <1>1
<1>q. q = Head(cmds)
      OBVIOUS
<1> HIDE DEF q
<1>3. a \in Request /\ a.op = q.op /\ a.users = {}
      BY <1>2, RequestFields, ErrorType
<1> HIDE DEF a
<1>4. Cardinality(a.users) =< Batch
      BY <1>3, FS_EmptySet, BatchNat
<1>5. Moved(q, a)
      BY <1>1, <1>2, <1>q, <1>3, <1>4 DEF Moved
<1> QED BY <1>3, <1>5

\* A login changes no answer but the players of the ones to be written.
LEMMA OutdatedFacts ==
    ASSUME replies \in Seq(Request), NEW u \in User
    PROVE  /\ Outdated(u) \in Seq(Request) /\ Len(Outdated(u)) = Len(replies)
           /\ \A i \in 1..Len(replies) :
                 /\ Outdated(u)[i].op = replies[i].op /\ Outdated(u)[i].ok = replies[i].ok
                 /\ replies[i].op \notin Writes => Outdated(u)[i].users = replies[i].users
                 /\ Outdated(u)[i].users \subseteq replies[i].users
                 /\ replies[i].users \subseteq Outdated(u)[i].users \cup {u}
           /\ DbIn(Outdated(u)) = DbIn(replies) /\ DbCount(Outdated(u)) = DbCount(replies)
<1> DEFINE o == Outdated(u)
           n == Len(replies)
<1>1. n \in Nat /\ \A i \in 1..n : replies[i] \in Request
      OBVIOUS
<1>2. o = [i \in 1..n |-> IF replies[i].op \in Writes
                          THEN [replies[i] EXCEPT !.users = @ \ {u}] ELSE replies[i]]
      BY DEF Outdated
<1> HIDE DEF o, n
<1>3. ASSUME NEW q \in Request
      PROVE  LET e == [q EXCEPT !.users = @ \ {u}]
             IN  e \in Request /\ e.op = q.op /\ e.ok = q.ok /\ e.users = q.users \ {u}
      BY DEF Request
<1>4. ASSUME NEW i \in 1..n
      PROVE  /\ o[i] \in Request /\ o[i].op = replies[i].op /\ o[i].ok = replies[i].ok
             /\ replies[i].op \notin Writes => o[i].users = replies[i].users
             /\ o[i].users \subseteq replies[i].users
             /\ replies[i].users \subseteq o[i].users \cup {u}
  <2>1. replies[i] \in Request
        BY <1>1
  <2>2. CASE replies[i].op \in Writes
    <3>1. o[i] = [replies[i] EXCEPT !.users = @ \ {u}]
          BY <1>2, <2>2
    <3>2. o[i] \in Request /\ o[i].op = replies[i].op /\ o[i].ok = replies[i].ok
          /\ o[i].users = replies[i].users \ {u}
          BY <1>3, <2>1, <3>1
    <3> QED BY <2>2, <3>2
  <2>3. CASE replies[i].op \notin Writes
    <3>1. o[i] = replies[i]
          BY <1>2, <2>3
    <3> QED BY <2>1, <3>1
  <2> QED BY <2>2, <2>3
<1>5. o \in [1..n -> Request]
      BY <1>2, <1>4
<1>6. o \in Seq(Request) /\ Len(o) = n
      BY <1>1, <1>5
<1>7. DbIn(o) = DbIn(replies)
      BY <1>4, <1>6 DEF DbIn, n
<1> QED BY <1>4, <1>6, <1>7 DEF DbCount, o, n

-----------------------------------------------------------------------------
(* The inductive invariant *)

\* A context that is not up has nothing under way, no answer names more players
\* than a batch has, and an error names nobody.
RequestInv ==
    /\ ctx # "up" => cmds = <<>> /\ replies = <<>>
    /\ \A i \in 1..Len(replies) :
          /\ replies[i].op = "REDIS" => Cardinality(replies[i].users) =< Batch
          /\ ~replies[i].ok => replies[i].users = {}

\* Every batch under way has a "pre:" line that waits for its "done:".
LogInv == LogOK(log, Pending)

LinesInv == TypeOK /\ RequestInv /\ LogInv

LEMMA LinesTypes ==
    ASSUME LinesInv
    PROVE  /\ TypeOK /\ RequestInv /\ LogOK(log, Pending)
           /\ cmds \in Seq(Request) /\ replies \in Seq(Request) /\ log \in Seq(Line)
           /\ DbCount(cmds) \in Nat /\ DbCount(replies) \in Nat /\ Pending \in Nat
           /\ Len(log) \in Nat /\ kept \in 0..Len(log)
<1>1. /\ TypeOK /\ RequestInv /\ LogOK(log, Pending)
      /\ cmds \in Seq(Request) /\ replies \in Seq(Request) /\ log \in Seq(Line)
      /\ kept \in 0..Len(log)
      BY DEF LinesInv, TypeOK, LogInv
<1>2. DbCount(cmds) \in Nat /\ DbCount(replies) \in Nat
      BY <1>1, DbCountType
<1>3. Pending \in Nat
      BY <1>2 DEF Pending
<1> QED BY <1>1, <1>2, <1>3

\* Whenever an answer is handled the context is up.
LEMMA AnswerUp ==
    ASSUME LinesInv, NEW op, Answer(op)
    PROVE  ctx = "up"
BY DEF LinesInv, RequestInv, Answer

\* Requests of any other kind leave the lines as they are.
LEMMA LogSame ==
    ASSUME LinesInv, UNCHANGED <<log, kept>>,
           Pending' \in Nat, Pending' =< Pending
    PROVE  LogInv' /\ kept' \in 0..Len(log')
<1>1. LogOK(log, Pending) /\ Pending \in Nat /\ kept \in 0..Len(log)
      BY LinesTypes
<1> DEFINE p == Pending'
<1>2. p \in 0..Pending
      BY <1>1
<1> HIDE DEF p
<1>3. LogOK(log, p)
      BY <1>1, <1>2, BalancedLess DEF LogOK
<1>4. LogOK(log, Pending')
      BY <1>3 DEF p
<1> QED BY <1>1, <1>4 DEF LogInv

LEMMA NothingPending ==
    ASSUME cmds' = <<>>, replies' = <<>>
    PROVE  Pending' = 0
BY DbCountEmpty DEF Pending

LEMMA RequestStep ==
    ASSUME LinesInv, Next
    PROVE  RequestInv' /\ cmds' \in Seq(Request) /\ replies' \in Seq(Request)
<1> USE LinesTypes
<1>0. <<>> \in Seq(Request) /\ Len(<<>>) = 0
      OBVIOUS
<1>a. ASSUME UNCHANGED <<cmds, replies, ctx>>
      PROVE  RequestInv' /\ cmds' \in Seq(Request) /\ replies' \in Seq(Request)
      BY <1>a DEF RequestInv
<1>b. ASSUME cmds' = <<>>, replies' = <<>>
      PROVE  RequestInv' /\ cmds' \in Seq(Request) /\ replies' \in Seq(Request)
      BY <1>0, <1>b DEF RequestInv
<1>c. ASSUME NEW op, Answer(op), ctx' = ctx, cmds' \in Seq(Request)
      PROVE  RequestInv' /\ cmds' \in Seq(Request) /\ replies' \in Seq(Request)
  <2>1. ctx = "up"
        BY <1>c, AnswerUp
  <2>2. /\ replies' = Tail(replies) /\ Tail(replies) \in Seq(Request)
        /\ \A i \in 1..Len(Tail(replies)) : i + 1 \in 1..Len(replies)
                                            /\ Tail(replies)[i] = replies[i + 1]
        BY <1>c, AnswerFacts
  <2> QED BY <1>c, <2>1, <2>2 DEF RequestInv
<1>l. ASSUME NEW u \in User, Login(u)
      PROVE  RequestInv' /\ cmds' \in Seq(Request) /\ replies' \in Seq(Request)
  <2>1. replies' = Outdated(u) /\ cmds' = cmds /\ ctx' = ctx
        BY <1>l DEF Login, server
  <2> DEFINE o == Outdated(u)
  <2>2. /\ o \in Seq(Request) /\ Len(o) = Len(replies)
        /\ \A i \in 1..Len(replies) :
              /\ o[i].op = replies[i].op /\ o[i].ok = replies[i].ok
              /\ replies[i].op \notin Writes => o[i].users = replies[i].users
              /\ o[i].users \subseteq replies[i].users
        BY OutdatedFacts
  <2>3. replies = <<>> => o = <<>>
    <3> HIDE DEF o
    <3> QED BY <2>2
  <2> HIDE DEF o
  <2>4. "REDIS" \notin Writes
        BY DEF Writes
  <2>5. \A i \in 1..Len(o) :
           /\ o[i].op = "REDIS" => Cardinality(o[i].users) =< Batch
           /\ ~o[i].ok => o[i].users = {}
        BY <2>2, <2>4 DEF RequestInv
  <2>6. replies' = o
        BY <2>1 DEF o
  <2> QED BY <2>1, <2>2, <2>3, <2>5, <2>6 DEF RequestInv
<1>1. ASSUME NEW u \in User, TimeToLive(u) PROVE UNCHANGED <<cmds, replies, ctx>>
      BY <1>1 DEF TimeToLive, server
<1>2. CASE Age
      BY <1>2, <1>a DEF Age, server
<1>3. CASE Execute \/ Refuse
  <2>1. PICK q, a : Moved(q, a)
        BY <1>3, ExecuteFacts, RefuseFacts DEF Executed
  <2>2. ctx' = ctx
        BY <1>3 DEF Execute, Refuse, server
  <2>3. /\ a \in Request /\ cmds # <<>> /\ cmds' = Tail(cmds) /\ replies' = Append(replies, a)
        /\ a.op = "REDIS" => Cardinality(a.users) =< Batch
        /\ ~a.ok => a.users = {}
        BY <2>1 DEF Moved
  <2>4. ctx = "up"
        BY <2>3 DEF RequestInv
  <2>5. cmds' \in Seq(Request)
        BY <2>3
  <2>6. /\ replies' \in Seq(Request) /\ Len(replies) \in Nat /\ Len(replies') = Len(replies) + 1
        /\ replies'[Len(replies) + 1] = a
        /\ \A i \in 1..Len(replies) : replies'[i] = replies[i]
        BY <2>3, AppendProperties
  <2>7. \A i \in 1..Len(replies') : i \in 1..Len(replies) \/ i = Len(replies) + 1
        BY <2>6
  <2> QED BY <2>2, <2>3, <2>4, <2>5, <2>6, <2>7 DEF RequestInv
<1>4. CASE ServerTimeoutCallback
  <2>1. /\ Send(<<Ask("ZCOUNT", aged)>>) /\ ctx' = ctx /\ replies' = replies
        BY <1>4 DEF ServerTimeoutCallback, server
  <2> DEFINE q == Ask("ZCOUNT", aged)
  <2>2. q \in Request
    <3>1. aged \in SUBSET User
      <4>1. DOMAIN heap = 1..Len(heap) /\ \A i \in 1..Len(heap) : heap[i] \in User
            BY DEF TypeOK
      <4> QED BY <4>1 DEF TypeOK, Range
    <3>2. "ZCOUNT" \in Kinds
          BY DEF Kinds
    <3> QED BY <3>1, <3>2, AskType
  <2> HIDE DEF q
  <2>3. cmds' \in Seq(Request) /\ (ctx # "up" => cmds' = cmds)
        BY <2>1, <2>2, SendOne DEF q
  <2> QED BY <2>1, <2>3 DEF RequestInv
<1>5. CASE RedisAuthCallback
      BY <1>5, <1>c DEF RedisAuthCallback, server
<1>6. CASE RedisZCOUNTCallback
  <2>1. Answer("ZCOUNT") /\ ctx' = ctx
        /\ (Send(<<Ask("REDIS", {})>>) \/ UNCHANGED cmds)
        BY <1>6 DEF RedisZCOUNTCallback, server
  <2>2. Ask("REDIS", {}) \in Request
        BY AskType DEF Kinds
  <2>3. cmds' \in Seq(Request)
        BY <2>1, <2>2, SendOne
  <2> QED BY <2>1, <2>3, <1>c
<1>7. CASE RedisResultCallback
  <2>1. /\ Answer("REDIS") /\ ctx' = ctx
        /\ Send(<<Ask("DB", Head(replies).users)>>) \/ UNCHANGED cmds
        BY <1>7 DEF RedisResultCallback, server
  <2>2. Head(replies).users \in SUBSET User
        BY <2>1, AnswerFacts, RequestFields
  <2>3. Ask("DB", Head(replies).users) \in Request
    <3> DEFINE us == Head(replies).users
    <3>1. us \in SUBSET User
          BY <2>2
    <3> HIDE DEF us
    <3>2. Ask("DB", us) \in Request
          BY <3>1, AskType DEF Kinds
    <3> QED BY <3>2 DEF us
  <2>4. cmds' \in Seq(Request)
        BY <2>1, <2>3, SendOne
  <2> QED BY <2>1, <2>4, <1>c
<1>8. CASE RedisToDBCallback
      BY <1>8, <1>c DEF RedisToDBCallback, server
<1>9. CASE RedisRestoreToDBCallback
      BY <1>9, <1>c DEF RedisRestoreToDBCallback, server
<1>10. CASE ContextError
      BY <1>10, <1>b DEF ContextError
<1>12. CASE Crash \/ CrashInCallback
      BY <1>12, <1>b DEF Crash, CrashInCallback
<1>13. CASE Timer
  <2>1. /\ ctx = "down" /\ ctx' = "up" /\ replies' = replies
        /\ cmds' = <<RedisTodoAuth, Ask("RSTOREDB", Restore(log))>>
        BY <1>13 DEF Timer
  <2>2. RedisTodoAuth \in Request
        BY AskType DEF Kinds, RedisTodoAuth
  <2>3. Restore(log) \in SUBSET User
        BY StackType, NamedType DEF Restore, Named
  <2>4. Ask("RSTOREDB", Restore(log)) \in Request
        BY <2>3, AskType DEF Kinds
  <2>5. cmds' \in Seq(Request)
    <3> DEFINE x == RedisTodoAuth
               y == Ask("RSTOREDB", Restore(log))
    <3>1. x \in Request /\ y \in Request /\ cmds' = <<x, y>>
          BY <2>1, <2>2, <2>4
    <3> HIDE DEF x, y
    <3> QED BY <3>1
  <2> QED BY <2>1, <2>5 DEF RequestInv
<1> QED BY <1>l, <1>1, <1>2, <1>3, <1>4, <1>5, <1>6, <1>7, <1>8, <1>9, <1>10, <1>12, <1>13, <1>a
        DEF Next

\* How the handled answer and what was sent change the batches under way.
LEMMA AnswerPending ==
    ASSUME LinesInv, NEW op, Answer(op)
    PROVE  /\ DbCount(replies') \in Nat
           /\ DbCount(replies) = IF op = "DB" THEN DbCount(replies') + 1 ELSE DbCount(replies')
<1>1. replies \in Seq(Request)
      BY LinesTypes
<1>2. /\ replies # <<>> /\ Head(replies).op = op
      /\ replies' = Tail(replies) /\ Tail(replies) \in Seq(Request)
      BY <1>1, AnswerFacts
<1> QED BY <1>1, <1>2, DbTail, DbCountType

\* A line that leaves the stack's players as they are.
LEMMA PushSync ==
    ASSUME NEW st \in Seq(Line)
    PROVE  Named(Push(st, Pre("sync", {}))) = Named(st)
<1> DEFINE p == Pre("sync", {})
           sp == Push(st, p)
<1>1. p \in Line /\ p.tag = "pre" /\ p.of = "sync"
      BY LineTypes
<1> HIDE DEF p
<1>2. /\ sp \in Seq(Line) /\ Len(sp) = Len(st) + 1 /\ sp[Len(st) + 1] = p
      /\ \A i \in 1..Len(st) : sp[i] = st[i]
      BY <1>1, PushType
<1>3. Len(st) \in Nat
      OBVIOUS
<1> HIDE DEF sp
<1>4. /\ \A i \in 1..Len(sp) : i \in 1..Len(st) \/ i = Len(st) + 1
      /\ \A i \in 1..Len(st) : i \in 1..Len(sp)
      BY <1>2, <1>3
<1>5. ASSUME NEW u PROVE u \in Named(sp) <=> u \in Named(st)
      BY <1>1, <1>2, <1>4, NamedIff
<1> QED BY <1>5 DEF sp, p

\* What a crash in a callback leaves in the file.
LEMMA CutShortLog ==
    ASSUME LinesInv, CrashInCallback
    PROVE  /\ LogOK(log', 0) /\ Len(log') \in Nat
           /\ Head(replies).op = "DB" =>
                 Named(Stack(log')) = Named(Push(Stack(log), Done("EXPIRE")))
           /\ Head(replies).op # "DB" => Named(Stack(log')) = Named(Stack(log))
<1> DEFINE d == Done("EXPIRE")
           p == Pre("sync", {})
           k == Pending
<1>1. d \in Line /\ d.tag = "done" /\ p \in Line /\ p.tag = "pre"
      /\ Cardinality(d.users) =< Batch /\ Cardinality(p.users) =< Batch
  <2>1. d \in Line /\ d.tag = "done" /\ p \in Line /\ p.tag = "pre" /\ d.users = {} /\ p.users = {}
        BY LineTypes
  <2> QED BY <2>1, FS_EmptySet, BatchNat
<1>2. /\ LogOK(log, k) /\ k \in Nat /\ log \in Seq(Line) /\ replies \in Seq(Request)
      /\ DbCount(cmds) \in Nat /\ DbCount(replies) \in Nat
      BY LinesTypes
<1>3. replies # <<>> /\ \E lines \in CutShort(Head(replies).op) : log' = log \o lines
      BY DEF CrashInCallback
<1>4. k = DbCount(cmds) + DbCount(replies)
      BY DEF Pending
<1>p. Stack(log) \in Seq(Line) /\ \A st \in Seq(Line) : Named(Push(st, p)) = Named(st)
      BY <1>2, StackType, PushSync
<1>c. CutShort("DB") = {<<d>>, <<d, p>>} /\ \A op : op # "DB" => CutShort(op) = {<<p>>}
      BY DEF CutShort
<1>t. Tail(replies) \in Seq(Request)
      BY <1>2, <1>3
<1> HIDE DEF d, p, k
<1>5. /\ log \o <<d>> = Append(log, d) /\ log \o <<p>> = Append(log, p)
      /\ log \o <<d, p>> = Append(Append(log, d), p)
      BY <1>1, <1>2
<1>l. ASSUME NEW lines, NEW j \in Nat, LogOK(lines, j)
      PROVE  LogOK(lines, 0) /\ Len(lines) \in Nat
      BY <1>l, BalancedLess DEF LogOK
<1>6. CASE Head(replies).op = "DB"
  <2>1. k \in Nat /\ k - 1 \in Nat
    <3>1. DbCount(replies) = DbCount(Tail(replies)) + 1
          BY <1>2, <1>3, <1>6, DbTail
    <3>2. DbCount(Tail(replies)) \in Nat
          BY <1>t, DbCountType
    <3> QED BY <1>2, <1>4, <3>1, <3>2
  <2> DEFINE j == k - 1
             one == Append(log, d)
             two == Append(one, p)
  <2>2. j \in Nat /\ k = j + 1 /\ j = k - 1
        BY <2>1
  <2> HIDE DEF j
  <2>3. LogOK(one, j) /\ Stack(one) = Push(Stack(log), d)
    <3>1. k = IF d.tag = "pre" THEN j - 1 ELSE j + 1
          BY <1>1, <2>2
    <3> QED BY <1>1, <1>2, <2>2, <3>1, LogAppend
  <2> HIDE DEF one
  <2>4. LogOK(two, k) /\ Stack(two) = Push(Stack(one), p)
    <3>1. j = IF p.tag = "pre" THEN k - 1 ELSE k + 1
          BY <1>1, <2>2
    <3> QED BY <1>1, <1>2, <2>2, <2>3, <3>1, LogAppend
  <2> HIDE DEF two
  <2>5. Stack(one) \in Seq(Line)
        BY <2>3, StackType DEF LogOK
  <2>6. Named(Stack(two)) = Named(Stack(one))
        BY <1>p, <2>4, <2>5
  <2>7. log' = one \/ log' = two
        BY <1>3, <1>c, <1>5, <1>6 DEF one, two
  <2>8. LogOK(log', 0) /\ Len(log') \in Nat
        BY <1>2, <1>l, <2>2, <2>3, <2>4, <2>7
  <2> QED BY <1>6, <2>3, <2>6, <2>7, <2>8 DEF d
<1>7. CASE Head(replies).op # "DB"
  <2> DEFINE j == k + 1
             one == Append(log, p)
  <2>1. j \in Nat /\ k = j - 1
        BY <1>2
  <2> HIDE DEF j
  <2>2. LogOK(one, j) /\ Stack(one) = Push(Stack(log), p)
    <3>1. k = IF p.tag = "pre" THEN j - 1 ELSE j + 1
          BY <1>1, <2>1
    <3> QED BY <1>1, <1>2, <2>1, <3>1, LogAppend
  <2> HIDE DEF one
  <2>3. Named(Stack(one)) = Named(Stack(log))
        BY <1>p, <2>2
  <2>4. log' = one
        BY <1>3, <1>c, <1>5, <1>7 DEF one
  <2>5. LogOK(log', 0) /\ Len(log') \in Nat
        BY <1>l, <2>1, <2>2, <2>4
  <2> QED BY <1>7, <2>3, <2>4, <2>5
<1> QED BY <1>6, <1>7

LEMMA LogStep ==
    ASSUME LinesInv, Next
    PROVE  LogInv' /\ kept' \in 0..Len(log')
<1> DEFINE c == DbCount(cmds)
           r == DbCount(replies)
<1>a. /\ c \in Nat /\ r \in Nat /\ Pending = c + r /\ Pending' = DbCount(cmds') + DbCount(replies')
      /\ LogOK(log, Pending) /\ Pending \in Nat /\ log \in Seq(Line) /\ Len(log) \in Nat
      /\ kept \in 0..Len(log) /\ cmds \in Seq(Request) /\ replies \in Seq(Request)
      BY LinesTypes DEF Pending
<1> HIDE DEF c, r
<1>b. ASSUME UNCHANGED <<cmds, replies, log, kept>> PROVE LogInv' /\ kept' \in 0..Len(log')
  <2>1. Pending' = Pending
        BY <1>b DEF Pending
  <2>2. Pending' \in Nat /\ Pending' =< Pending
        BY <1>a, <2>1
  <2> QED BY <1>b, <2>2, LogSame
<1>c. ASSUME UNCHANGED <<log, kept>>, Pending' = 0 PROVE LogInv' /\ kept' \in 0..Len(log')
  <2>1. Pending' \in Nat /\ Pending' =< Pending
        BY <1>a, <1>c
  <2> QED BY <1>c, <2>1, LogSame
<1>l. ASSUME NEW u \in User, Login(u)
      PROVE  LogInv' /\ kept' \in 0..Len(log')
  <2>1. replies' = Outdated(u) /\ UNCHANGED <<cmds, log, kept>>
        BY <1>l DEF Login
  <2>2. DbCount(replies') = r /\ DbCount(cmds') = c
        BY <1>a, <2>1, OutdatedFacts DEF r, c
  <2>3. Pending' \in Nat /\ Pending' =< Pending
        BY <1>a, <2>2
  <2> QED BY <2>1, <2>3, LogSame
<1>1. ASSUME NEW u \in User, TimeToLive(u)
      PROVE  LogInv' /\ kept' \in 0..Len(log')
      BY <1>1, <1>b DEF TimeToLive
<1>2. CASE Age
      BY <1>2, <1>b DEF Age
<1>3. CASE Execute \/ Refuse
  <2>1. PICK q, a : Moved(q, a)
        BY <1>3, LinesTypes, ExecuteFacts, RefuseFacts DEF Executed
  <2>2. UNCHANGED <<log, kept>>
        BY <1>3 DEF Execute, Refuse
  <2>3. /\ a \in Request /\ a.op = q.op /\ cmds # <<>> /\ q = Head(cmds)
        /\ cmds' = Tail(cmds) /\ replies' = Append(replies, a)
        BY <2>1 DEF Moved
  <2>4. /\ c = IF q.op = "DB" THEN DbCount(cmds') + 1 ELSE DbCount(cmds')
        /\ DbCount(cmds') \in Nat
    <3>1. Tail(cmds) \in Seq(Request)
          BY <1>a, <2>3
    <3> QED BY <1>a, <2>3, <3>1, DbTail, DbCountType DEF c
  <2>5. DbCount(replies') = IF q.op = "DB" THEN r + 1 ELSE r
        BY <1>a, <2>3, DbAppend DEF r
  <2>6. Pending' = Pending
        BY <1>a, <2>4, <2>5
  <2>7. Pending' \in Nat /\ Pending' =< Pending
        BY <1>a, <2>6
  <2> QED BY <2>2, <2>7, LogSame
<1>d. ASSUME NEW op, NEW us \in SUBSET User, op \in Kinds, op # "DB", Send(<<Ask(op, us)>>)
      PROVE  DbCount(cmds') = c
  <2> DEFINE q == Ask(op, us)
  <2>1. q \in Request /\ q.op # "DB"
        BY <1>d, AskType
  <2> HIDE DEF q
  <2>2. cmds' = Append(cmds, q) \/ cmds' = cmds
        BY <1>a, <1>d, <2>1, SendOne DEF q
  <2>3. DbCount(Append(cmds, q)) = DbCount(cmds)
        BY <1>a, <2>1, DbAppend
  <2> QED BY <2>2, <2>3 DEF c
<1>4. CASE ServerTimeoutCallback
  <2>1. aged \in SUBSET User
    <3>1. DOMAIN heap = 1..Len(heap) /\ \A i \in 1..Len(heap) : heap[i] \in User
          BY LinesTypes DEF TypeOK
    <3> QED BY <3>1, LinesTypes DEF TypeOK, Range
  <2>2. Send(<<Ask("ZCOUNT", aged)>>) /\ UNCHANGED <<replies, log, kept>> /\ "ZCOUNT" \in Kinds
        BY <1>4 DEF ServerTimeoutCallback, Kinds
  <2>3. DbCount(cmds') = c /\ DbCount(replies') = r
        BY <1>d, <2>1, <2>2 DEF r
  <2>4. Pending' \in Nat /\ Pending' =< Pending
        BY <1>a, <2>3
  <2> QED BY <2>2, <2>4, LogSame
<1>e. ASSUME NEW op, op # "DB", Answer(op), UNCHANGED <<cmds, log, kept>>
      PROVE  LogInv' /\ kept' \in 0..Len(log')
  <2>1. r = DbCount(replies') /\ DbCount(cmds') = c
        BY <1>e, AnswerPending DEF r, c
  <2>2. Pending' \in Nat /\ Pending' =< Pending
        BY <1>a, <2>1
  <2> QED BY <1>e, <2>2, LogSame
<1>5. CASE RedisAuthCallback
      BY <1>5, <1>e DEF RedisAuthCallback
<1>6. CASE RedisZCOUNTCallback
  <2>1. /\ Answer("ZCOUNT") /\ UNCHANGED <<log, kept>>
        /\ Send(<<Ask("REDIS", {})>>) \/ UNCHANGED cmds
        BY <1>6 DEF RedisZCOUNTCallback
  <2>2. r = DbCount(replies')
        BY <2>1, AnswerPending DEF r
  <2>3. DbCount(cmds') = c
    <3>1. CASE UNCHANGED cmds
          BY <3>1 DEF c
    <3>2. CASE Send(<<Ask("REDIS", {})>>)
          BY <1>d, <3>2 DEF Kinds
    <3> QED BY <2>1, <3>1, <3>2
  <2>4. Pending' \in Nat /\ Pending' =< Pending
        BY <1>a, <2>2, <2>3
  <2> QED BY <2>1, <2>4, LogSame
<1>n. CASE RedisResultCallback /\ ~Head(replies).ok
      BY <1>n, <1>e DEF RedisResultCallback
<1>7. CASE RedisResultCallback /\ Head(replies).ok
  <2> DEFINE us == Head(replies).users
  <2>1. Answer("REDIS") /\ Send(<<Ask("DB", us)>>) /\ PrintLines(<<Pre("EXPIRE", us)>>)
        BY <1>7 DEF RedisResultCallback
  <2>2. us \in SUBSET User /\ Cardinality(us) =< Batch
    <3>1. /\ Head(replies) \in Request /\ Head(replies).op = "REDIS"
          /\ Head(replies) = replies[1] /\ 1 \in 1..Len(replies)
          BY <1>a, <2>1, AnswerFacts
    <3>2. replies[1].op = "REDIS" => Cardinality(replies[1].users) =< Batch
          BY <3>1, LinesTypes DEF RequestInv
    <3> QED BY <3>1, <3>2, RequestFields
  <2> HIDE DEF us
  <2> DEFINE l == Pre("EXPIRE", us)
             q == Ask("DB", us)
  <2>3. l \in Line /\ l.tag = "pre" /\ l.users = us /\ q \in Request /\ q.op = "DB"
        BY <2>2, LineTypes, AskType DEF Kinds
  <2>4. r = DbCount(replies')
        BY <2>1, AnswerPending DEF r
  <2> HIDE DEF l, q
  <2>5. DbCount(cmds') = c + 1
    <3>1. ctx = "up"
          BY <2>1, AnswerUp
    <3>2. cmds' = Append(cmds, q)
          BY <1>a, <2>1, <2>3, <3>1, SendOne DEF q
    <3> QED BY <1>a, <2>3, <3>2, DbAppend DEF c
  <2> DEFINE k == Pending
             j == Pending + 1
  <2>6. Pending' = j /\ j \in Nat /\ k \in Nat /\ k = j - 1
        BY <1>a, <2>4, <2>5, SMTT(30)
  <2>7. log' = Append(log, l) /\ kept' = kept
        BY <1>a, <2>1, <2>3, Printed DEF l
  <2>8. LogOK(Append(log, l), j) /\ Len(Append(log, l)) = Len(log) + 1
    <3>1. LogOK(log, k) /\ Cardinality(l.users) =< Batch
          BY <1>a, <2>2, <2>3
    <3> HIDE DEF j, k
    <3>2. k = IF l.tag = "pre" THEN j - 1 ELSE j + 1
          BY <2>3, <2>6
    <3> QED BY <2>3, <2>6, <3>1, <3>2, LogAppend
  <2>9. LogOK(log', Pending')
        BY <2>6, <2>7, <2>8
  <2>10. kept' \in 0..Len(log')
        BY <1>a, <2>7, <2>8
  <2> QED BY <2>9, <2>10 DEF LogInv
<1>8. CASE RedisToDBCallback
  <2> DEFINE l == Done("EXPIRE")
  <2>1. /\ Answer("DB") /\ cmds' = cmds
        /\ PrintLines(<<l>> \o SyncLines) \/ PrintLines(<<l>>)
        BY <1>8 DEF RedisToDBCallback
  <2>2. l \in Line /\ l.tag = "done" /\ Cardinality(l.users) =< Batch
        BY LineTypes, FS_EmptySet, BatchNat
  <2> HIDE DEF l
  <2>3. r = DbCount(replies') + 1 /\ DbCount(replies') \in Nat /\ DbCount(cmds') = c
        BY <2>1, AnswerPending DEF r, c
  <2> DEFINE k == Pending
             j == Pending'
  <2>4. j \in Nat /\ k \in Nat /\ k = j + 1 /\ LogOK(log, k)
        BY <1>a, <2>3, SMTT(30)
  <2>5. /\ log' = AfterSync(Append(log, l)) \/ log' = Append(log, l)
        /\ kept' = kept
        BY <1>a, <2>1, <2>2, Printed
  <2> HIDE DEF j, k
  <2>6. LogOK(Append(log, l), j) /\ Len(Append(log, l)) = Len(log) + 1
    <3>1. k = IF l.tag = "pre" THEN j - 1 ELSE j + 1
          BY <2>2, <2>4
    <3> QED BY <2>2, <2>4, <3>1, LogAppend
  <2> DEFINE one == Append(log, l)
  <2> HIDE DEF one
  <2>7. LogOK(AfterSync(one), j) /\ Len(AfterSync(one)) = Len(one) + 2
        BY <2>4, <2>6, LogSync DEF one
  <2>8. Len(log') >= Len(log) /\ Len(log') \in Nat
        BY <1>a, <2>5, <2>6, <2>7 DEF one
  <2>9. kept' \in 0..Len(log')
        BY <1>a, <2>5, <2>8
  <2>10. LogOK(log', Pending')
        BY <2>5, <2>6, <2>7 DEF one, j
  <2> QED BY <2>9, <2>10 DEF LogInv
<1>m. CASE RedisRestoreToDBCallback /\ ~Head(replies).ok
      BY <1>m, <1>e DEF RedisRestoreToDBCallback
<1>9. CASE RedisRestoreToDBCallback /\ Head(replies).ok
  <2>1. Answer("RSTOREDB") /\ PrintLines(SyncLines) /\ cmds' = cmds
        BY <1>9 DEF RedisRestoreToDBCallback
  <2>2. r = DbCount(replies') /\ DbCount(cmds') = c
        BY <2>1, AnswerPending DEF r, c
  <2>3. Pending' = Pending
        BY <1>a, <2>2
  <2>4. log' = AfterSync(log) /\ kept' = kept
        BY <1>a, <2>1, Printed
  <2>5. LogOK(AfterSync(log), Pending) /\ Len(AfterSync(log)) = Len(log) + 2
        BY <1>a, LogSync
  <2>6. kept' \in 0..Len(log')
        BY <1>a, <2>4, <2>5
  <2>7. LogOK(log', Pending')
        BY <2>3, <2>4, <2>5
  <2> QED BY <2>6, <2>7 DEF LogInv
<1>10. CASE ContextError
      BY <1>10, <1>c, NothingPending DEF ContextError
<1>12. CASE Crash
  <2>1. PICK k \in kept..Len(log) : kept' = k /\ log' = SubSeq(log, 1, k)
        BY <1>12 DEF Crash
  <2> DEFINE less == SubSeq(log, 1, k)
  <2>2. Pending' = 0
        BY <1>12, NothingPending DEF Crash
  <2>3. k \in 0..Len(log)
        BY <1>a, <2>1
  <2>4. /\ less \in Seq(Line) /\ Len(less) = k /\ Balanced(less, 0)
        /\ \A i \in 1..k : less[i] = log[i]
        BY <1>a, <2>3, BalancedPrefix DEF LogOK
  <2>5. log' = less /\ kept' = k
        BY <2>1
  <2> HIDE DEF less
  <2>6. Small(less)
        BY <1>a, <2>3, <2>4 DEF LogOK, Small
  <2>7. kept' \in 0..Len(log')
        BY <2>3, <2>4, <2>5
  <2>8. LogOK(log', Pending')
        BY <2>2, <2>4, <2>5, <2>6 DEF LogOK
  <2> QED BY <2>7, <2>8 DEF LogInv
<1>14. CASE CrashInCallback
  <2>1. /\ cmds' = <<>> /\ replies' = <<>> /\ kept' = Len(log')
        BY <1>14 DEF CrashInCallback
  <2>2. Pending' = 0
        BY <2>1, NothingPending
  <2>3. LogOK(log', 0) /\ Len(log') \in Nat
        BY <1>14, CutShortLog
  <2> QED BY <2>1, <2>2, <2>3 DEF LogInv
<1>13. CASE Timer
  <2> DEFINE x == RedisTodoAuth
             y == Ask("RSTOREDB", Restore(log))
  <2>1. ctx = "down" /\ UNCHANGED <<log, kept, replies>> /\ cmds' = <<x, y>>
        BY <1>13 DEF Timer
  <2>2. x.op # "DB" /\ y.op # "DB"
        BY DEF RedisTodoAuth, Ask
  <2> HIDE DEF x, y
  <2>3. DbIn(<<x, y>>) = {}
        BY <2>2 DEF DbIn
  <2>4. DbCount(cmds') = 0
        BY <2>1, <2>3, FS_EmptySet DEF DbCount
  <2>5. DbCount(replies') = r
        BY <2>1 DEF r
  <2>6. Pending' \in Nat /\ Pending' =< Pending
        BY <1>a, <2>4, <2>5
  <2> QED BY <2>1, <2>6, LogSame
<1> QED BY <1>l, <1>1, <1>2, <1>3, <1>4, <1>5, <1>6, <1>n, <1>7, <1>8, <1>m, <1>9, <1>10,
           <1>12, <1>13, <1>14 DEF Next

\* The players of redis.
RedisOK ==
    /\ heap \in Seq(User) /\ IsInjective(heap) /\ aged \subseteq Range(heap)
    /\ data \in [User -> {"none", "live", "ttl"}] /\ unsynced \subseteq User

LEMMA RedisStep ==
    ASSUME LinesInv, Next
    PROVE  RedisOK'
<1>a. RedisOK /\ TypeOK
      BY LinesTypes DEF TypeOK, RedisOK
<1>b. ASSUME UNCHANGED redis, unsynced' \subseteq unsynced PROVE RedisOK'
      BY <1>a, <1>b DEF RedisOK, redis
<1>1. ASSUME NEW u \in User, Login(u) PROVE RedisOK'
  <2>1. /\ u \notin Range(heap) /\ heap' = Append(heap, u) /\ aged' = aged
        /\ data' = [data EXCEPT ![u] = "live"] \/ data' = data
        /\ unsynced' = unsynced \cup {u}
        BY <1>1 DEF Login
  <2>2. /\ heap' \in Seq(User) /\ Len(heap) \in Nat /\ Len(heap') = Len(heap) + 1
        /\ heap'[Len(heap) + 1] = u /\ \A i \in 1..Len(heap) : heap'[i] = heap[i]
        /\ DOMAIN heap = 1..Len(heap) /\ DOMAIN heap' = 1..Len(heap')
        BY <1>a, <2>1, AppendProperties DEF RedisOK
  <2>3. \A i \in 1..Len(heap) : heap[i] # u
        BY <2>1, <2>2 DEF Range
  <2>4. \A i \in 1..Len(heap') : i \in 1..Len(heap) \/ i = Len(heap) + 1
        BY <2>2
  <2>5. IsInjective(heap')
    <3>1. \A i, j \in 1..Len(heap) : heap[i] = heap[j] => i = j
          BY <1>a, <2>2 DEF RedisOK, IsInjective
    <3>2. \A i, j \in 1..Len(heap') : heap'[i] = heap'[j] => i = j
          BY <2>2, <2>3, <2>4, <3>1
    <3> QED BY <2>2, <3>2 DEF IsInjective
  <2>6. aged' \subseteq Range(heap')
    <3>1. \A i \in 1..Len(heap) : i \in 1..Len(heap')
          BY <2>2
    <3>2. aged \subseteq {heap[i] : i \in 1..Len(heap)}
          BY <1>a, <2>2 DEF RedisOK, Range
    <3> QED BY <2>1, <2>2, <3>1, <3>2 DEF Range
  <2>7. data' \in [User -> {"none", "live", "ttl"}]
        BY <1>a, <2>1 DEF RedisOK
  <2>8. unsynced' \subseteq User
        BY <1>a, <2>1 DEF RedisOK
  <2> QED BY <2>2, <2>5, <2>6, <2>7, <2>8 DEF RedisOK
<1>2. ASSUME NEW u \in User, TimeToLive(u) PROVE RedisOK'
      BY <1>a, <1>2 DEF TimeToLive, RedisOK
<1>3. CASE Age
  <2>1. PICK i \in 1..Len(heap) : aged' = aged \cup {heap[i]}
        BY <1>3 DEF Age
  <2>2. UNCHANGED <<heap, data, unsynced>>
        BY <1>3 DEF Age
  <2>3. DOMAIN heap = 1..Len(heap)
        BY <1>a DEF RedisOK
  <2>4. aged' \subseteq Range(heap)
        BY <1>a, <2>1, <2>3 DEF RedisOK, Range
  <2> QED BY <1>a, <2>2, <2>4 DEF RedisOK
<1>4. CASE Execute
  <2>1. PICK q, a : Executed(q, a)
        BY <1>4, <1>a, ExecuteFacts
  <2>2. unsynced' = unsynced
        BY <1>4 DEF Execute
  <2>3. data' \in [User -> {"none", "live", "ttl"}]
    <3>1. CASE q.op = "DB"
      <4>1. data' = [u \in User |-> IF u \in Found(q) THEN "ttl" ELSE data[u]]
            BY <2>1, <3>1 DEF Executed
      <4> QED BY <1>a, <4>1 DEF RedisOK
    <3>2. CASE q.op # "DB"
          BY <1>a, <2>1, <3>2 DEF RedisOK, Executed
    <3> QED BY <3>1, <3>2
  <2>4. heap' \in Seq(User) /\ IsInjective(heap') /\ aged' \subseteq Range(heap')
    <3>1. CASE heap' = heap /\ aged' = aged
          BY <1>a, <3>1 DEF RedisOK
    <3>2. CASE heap' = Left /\ aged' = aged \ Taken
          BY <1>a, <3>2, TakenFacts
    <3> QED BY <2>1, <3>1, <3>2 DEF Executed
  <2> QED BY <1>a, <2>2, <2>3, <2>4 DEF RedisOK
<1>5. CASE ServerTimeoutCallback \/ RedisAuthCallback \/ RedisZCOUNTCallback \/ RedisResultCallback
      BY <1>5, <1>b DEF ServerTimeoutCallback, RedisAuthCallback, RedisZCOUNTCallback,
                        RedisResultCallback
<1>8. CASE Refuse \/ CrashInCallback
      BY <1>8, <1>b DEF Refuse, CrashInCallback
<1>6. CASE RedisToDBCallback \/ RedisRestoreToDBCallback
      BY <1>6, <1>b DEF RedisToDBCallback, RedisRestoreToDBCallback
<1>7. CASE ContextError \/ Crash \/ Timer
      BY <1>7, <1>b DEF ContextError, Crash, Timer
<1> QED BY <1>1, <1>2, <1>3, <1>4, <1>5, <1>6, <1>7, <1>8 DEF Next

ServerOK ==
    /\ ctx \in {"down", "up", "lost"} /\ apart \in BOOLEAN
    /\ auth \in BOOLEAN /\ exposed \subseteq User
    /\ logins \in 0..MaxLogins /\ lives \in 0..MaxLives

LEMMA ServerStep ==
    ASSUME LinesInv, Next
    PROVE  ServerOK'
<1>a. ServerOK
      BY LinesTypes DEF TypeOK, ServerOK
<1> USE BatchNat
<1>1. ASSUME NEW u \in User, Login(u) PROVE ServerOK'
      BY <1>a, <1>1 DEF Login, server, ServerOK
<1>2. ASSUME NEW u \in User, TimeToLive(u) PROVE ServerOK'
      BY <1>a, <1>2 DEF TimeToLive, server, history, ServerOK
<1>3. CASE Age \/ Execute \/ RedisAuthCallback
      BY <1>a, <1>3 DEF Age, Execute, RedisAuthCallback, server, history, ServerOK
<1>4. CASE ServerTimeoutCallback \/ RedisZCOUNTCallback \/ Refuse
      BY <1>a, <1>4 DEF ServerTimeoutCallback, RedisZCOUNTCallback, Refuse, server, history, ServerOK
<1>5. CASE RedisResultCallback
      BY <1>a, <1>5 DEF RedisResultCallback, server, ServerOK
<1>6. CASE RedisToDBCallback \/ RedisRestoreToDBCallback
      BY <1>a, <1>6 DEF RedisToDBCallback, RedisRestoreToDBCallback, server, history, ServerOK
<1>7. CASE ContextError \/ Timer
  <2>1. auth' \in BOOLEAN
        BY <1>a, <1>7, Zenon DEF ContextError, Timer, ServerOK
  <2>2. /\ ctx' \in {"down", "up", "lost"} /\ lives' \in 0..MaxLives
        /\ UNCHANGED <<logins, apart, exposed>>
        BY <1>a, <1>7 DEF ContextError, Timer, history, ServerOK
  <2> QED BY <1>a, <2>1, <2>2 DEF ServerOK
<1>8. CASE Crash
  <2>1. apart' \in BOOLEAN
        BY <1>8, Zenon DEF Crash
  <2>2. ctx' = "down" /\ UNCHANGED <<lives, logins, auth, exposed>>
        BY <1>8 DEF Crash
  <2> QED BY <1>a, <2>1, <2>2 DEF ServerOK
<1>9. CASE CrashInCallback
  <2>1. /\ ctx' = "down" /\ UNCHANGED <<lives, logins, auth, apart>>
        /\ exposed' = exposed \cup Head(replies).users /\ replies # <<>>
        BY <1>9 DEF CrashInCallback
  <2>2. Head(replies) \in Request
        BY <2>1, LinesTypes
  <2>3. Head(replies).users \in SUBSET User
        BY <2>2, RequestFields
  <2> QED BY <1>a, <2>1, <2>3 DEF ServerOK
<1> QED BY <1>1, <1>2, <1>3, <1>4, <1>5, <1>6, <1>7, <1>8, <1>9 DEF Next

LEMMA LinesInit == Init => LinesInv
<1> SUFFICES ASSUME Init PROVE LinesInv
    OBVIOUS
<1> USE BatchNat
<1>1. /\ heap = <<>> /\ aged = {} /\ cmds = <<>> /\ replies = <<>> /\ log = <<>> /\ kept = 0
      /\ unsynced = {} /\ data = [u \in User |-> "none"]
      BY DEF Init
<1>2. IsInjective(<<>>)
      BY DEF IsInjective
<1>3. TypeOK
  <2>1. /\ heap \in Seq(User) /\ IsInjective(heap) /\ aged \subseteq Range(heap)
        /\ data \in [User -> {"none", "live", "ttl"}] /\ unsynced \subseteq User
        BY <1>1, <1>2
  <2>2. /\ cmds \in Seq(Request) /\ replies \in Seq(Request)
        /\ log \in Seq(Line) /\ kept \in 0..Len(log)
        /\ \A i \in 1..Len(log) : Cardinality(log[i].users) =< Batch
        BY <1>1
  <2>3. auth \in BOOLEAN /\ apart \in BOOLEAN
        BY Zenon DEF Init
  <2>4. /\ ctx \in {"down", "up", "lost"} /\ exposed \subseteq User
        /\ logins \in 0..MaxLogins /\ lives \in 0..MaxLives
        BY DEF Init
  <2> QED BY <2>1, <2>2, <2>3, <2>4 DEF TypeOK
<1>4. RequestInv
      BY <1>1 DEF RequestInv
<1>5. LogInv
  <2>1. Pending = 0
        BY <1>1, DbCountEmpty DEF Pending
  <2>2. Tagged(<<>>, 0, "done") = {} /\ Tagged(<<>>, 0, "pre") = {}
        BY DEF Tagged
  <2>3. Count(<<>>, 0, "done") = 0 /\ Count(<<>>, 0, "pre") = 0
        BY <2>2, FS_EmptySet DEF Count
  <2>4. Len(<<>>) = 0 /\ 0..0 = {0} /\ <<>> \in Seq(Line)
        OBVIOUS
  <2>5. Balanced(<<>>, 0)
        BY <2>3, <2>4 DEF Balanced
  <2>6. Small(<<>>)
        BY <2>4 DEF Small
  <2> QED BY <1>1, <2>1, <2>4, <2>5, <2>6 DEF LogInv, LogOK
<1> QED BY <1>3, <1>4, <1>5 DEF LinesInv

LEMMA LinesStep == LinesInv /\ [Next]_vars => LinesInv'
<1> SUFFICES ASSUME LinesInv, [Next]_vars PROVE LinesInv'
    OBVIOUS
<1>1. CASE Next
  <2>1. RequestInv' /\ cmds' \in Seq(Request) /\ replies' \in Seq(Request)
        BY <1>1, RequestStep
  <2>2. LogInv' /\ kept' \in 0..Len(log')
        BY <1>1, LogStep
  <2>3. RedisOK' /\ ServerOK'
        BY <1>1, RedisStep, ServerStep
  <2>4. TypeOK'
        BY <2>1, <2>2, <2>3 DEF TypeOK, LogInv, LogOK, Small, RedisOK, ServerOK
  <2> QED BY <2>1, <2>2, <2>4 DEF LinesInv
<1>2. CASE UNCHANGED vars
  <2>1. Pending' = Pending
        BY <1>2 DEF Pending, vars
  <2> QED BY <1>2, <2>1 DEF LinesInv, TypeOK, RequestInv, LogInv, vars
<1> QED BY <1>1, <1>2

LEMMA LinesAlways == Spec => []LinesInv
BY LinesInit, LinesStep, PTL DEF Spec

\* However logins, timers, answers and crashes come, the heap holds nobody
\* twice and no line of the output names more players than a batch has, so that
\* Logger::Restore has room for the positions of its blanks.
THEOREM ExpiryTypeCorrect == Spec => []TypeOK
<1>1. LinesInv => TypeOK
      BY DEF LinesInv
<1> QED BY <1>1, LinesAlways, PTL

\* Logger::Restore never pops an empty stack: whatever prefix of the output a
\* crash left, and however many batches were under way at once, a "done:" line
\* has its "pre:" line before it.
THEOREM RestoreHasWhatItPops == Spec => []RestoreNeverUnderflows
<1>1. LinesInv => RestoreNeverUnderflows
      BY DEF LinesInv, LogInv, LogOK, Balanced, Count, Tagged, RestoreNeverUnderflows
<1> QED BY <1>1, LinesAlways, PTL

-----------------------------------------------------------------------------
(* What a restart would fetch *)

Top(st) == st[Len(st)]
Below(st) == SubSeq(st, 1, Len(st) - 1)

\* The players whose hash is about to expire although it was not written.
Expiring == {u \in unsynced \ exposed : data[u] = "ttl"}

\* Every batch of s is one of t.
SubDb(s, t) == \A i \in DbIn(s) : \E j \in DbIn(t) : s[i].users = t[j].users
Fewer(s, t) == SubDb(s, t) /\ DbCount(s) \in Nat /\ DbCount(s) =< DbCount(t)

\* With one batch at a time and no line lost, the top of the stack is the batch
\* under way.  While redis has not answered it the players are the ones asked
\* for, and whoever expires is named further down; after that, whoever expires
\* is in the answer or further down.
ApartInv ==
    apart =>
        /\ Pending =< 1
        /\ Pending = 1 => Stack(log) # <<>> /\ Top(Stack(log)).of = "EXPIRE"
        /\ \A i \in DbIn(cmds) :
              /\ cmds[i].users = Top(Stack(log)).users
              /\ Expiring \subseteq Named(Below(Stack(log)))
        /\ \A i \in DbIn(replies) :
              /\ replies[i].users \subseteq Top(Stack(log)).users
              /\ Expiring \subseteq replies[i].users \cup Named(Below(Stack(log)))
        /\ Expiring \subseteq Named(Stack(log))

LEMMA StackSplit ==
    ASSUME NEW st \in Seq(Line), st # <<>>, NEW u
    PROVE  u \in Named(st) <=> \/ Top(st).of = "EXPIRE" /\ u \in Top(st).users
                               \/ u \in Named(Below(st))
<1> DEFINE n == Len(st)
           b == SubSeq(st, 1, n - 1)
<1>1. n \in Nat \ {0} /\ n - 1 \in 0..n
      BY EmptySeq
<1>2. b \in Seq(Line) /\ Len(b) = n - 1 /\ \A i \in 1..(n - 1) : b[i] = st[i]
  <2> DEFINE m == n - 1
  <2>1. m \in 0..Len(st)
        BY <1>1
  <2> HIDE DEF m
  <2>2. /\ SubSeq(st, 1, m) \in Seq(Line) /\ Len(SubSeq(st, 1, m)) = m
        /\ \A i \in 1..m : SubSeq(st, 1, m)[i] = st[i]
        BY <2>1
  <2> QED BY <2>2 DEF m
<1>3. b = Below(st) /\ Top(st) = st[n]
      BY DEF Below, Top
<1> HIDE DEF n, b
<1>4. \A i \in 1..n : i = n \/ i \in 1..(n - 1)
      BY <1>1
<1>5. n \in 1..n /\ \A i \in 1..(n - 1) : i \in 1..n
      BY <1>1
<1>6. u \in Named(st) <=> \E i \in 1..n : st[i].of = "EXPIRE" /\ u \in st[i].users
      BY NamedIff DEF n
<1>7. u \in Named(b) <=> \E i \in 1..(n - 1) : b[i].of = "EXPIRE" /\ u \in b[i].users
      BY <1>2, NamedIff
<1> QED BY <1>2, <1>3, <1>4, <1>5, <1>6, <1>7

LEMMA DbNone ==
    ASSUME NEW s \in Seq(Request)
    PROVE  DbCount(s) = 0 <=> DbIn(s) = {}
BY DbCountType, FS_EmptySet DEF DbCount

LEMMA FewerSame == ASSUME NEW s \in Seq(Request) PROVE Fewer(s, s)
BY DbCountType DEF Fewer, SubDb

LEMMA FewerEmpty == ASSUME NEW s \in Seq(Request) PROVE Fewer(<<>>, s)
<1>1. DbIn(<<>>) = {} /\ DbCount(<<>>) = 0 /\ DbCount(s) \in Nat
      BY DbCountEmpty, DbCountType
<1> QED BY <1>1 DEF Fewer, SubDb

LEMMA FewerTail ==
    ASSUME NEW s \in Seq(Request), s # <<>>
    PROVE  Fewer(Tail(s), s)
<1>1. \A i \in DbIn(Tail(s)) : i + 1 \in DbIn(s) /\ Tail(s)[i] = s[i + 1]
      BY DbTail
<1>2. DbCount(Tail(s)) \in Nat /\ DbCount(s) \in Nat
  <2>1. Tail(s) \in Seq(Request)
        OBVIOUS
  <2> QED BY <2>1, DbCountType
<1>3. DbCount(s) = IF Head(s).op = "DB" THEN DbCount(Tail(s)) + 1 ELSE DbCount(Tail(s))
      BY DbTail
<1>4. DbCount(Tail(s)) =< DbCount(s)
      BY <1>2, <1>3
<1>5. SubDb(Tail(s), s)
      BY <1>1 DEF SubDb
<1> QED BY <1>2, <1>4, <1>5 DEF Fewer

LEMMA FewerAppend ==
    ASSUME NEW s \in Seq(Request), NEW q \in Request, q.op # "DB"
    PROVE  Fewer(Append(s, q), s)
<1>1. DbIn(Append(s, q)) = DbIn(s) /\ DbCount(Append(s, q)) = DbCount(s) /\ DbCount(s) \in Nat
      BY DbAppend, DbCountType
<1>2. \A i \in DbIn(s) : Append(s, q)[i] = s[i]
  <2>1. \A i \in 1..Len(s) : Append(s, q)[i] = s[i]
        BY AppendProperties
  <2> QED BY <2>1 DEF DbIn
<1>3. SubDb(Append(s, q), s)
  <2> DEFINE t == Append(s, q)
  <2>1. DbIn(t) = DbIn(s) /\ \A i \in DbIn(s) : t[i] = s[i]
        BY <1>1, <1>2
  <2> HIDE DEF t
  <2>2. SubDb(t, s)
        BY <2>1 DEF SubDb
  <2> QED BY <2>2 DEF t
<1>4. DbCount(Append(s, q)) \in Nat /\ DbCount(Append(s, q)) =< DbCount(s)
      BY <1>1
<1> QED BY <1>3, <1>4 DEF Fewer

\* A step that opens no batch and makes nobody expire.
LEMMA ApartSame ==
    ASSUME LinesInv, ApartInv, apart' => apart /\ Stack(log') = Stack(log),
           Fewer(cmds', cmds), Fewer(replies', replies), Expiring' \subseteq Expiring
    PROVE  ApartInv'
<1> SUFFICES ASSUME apart' PROVE ApartInv'
    BY DEF ApartInv
<1> DEFINE st == Stack(log)
<1>1. /\ apart /\ st = Stack(log')
      /\ Pending =< 1
      /\ Pending = 1 => st # <<>> /\ Top(st).of = "EXPIRE"
      /\ \A i \in DbIn(cmds) :
            /\ cmds[i].users = Top(st).users
            /\ Expiring \subseteq Named(Below(st))
      /\ \A i \in DbIn(replies) :
            /\ replies[i].users \subseteq Top(st).users
            /\ Expiring \subseteq replies[i].users \cup Named(Below(st))
      /\ Expiring \subseteq Named(st)
      BY DEF ApartInv
<1> HIDE DEF st
<1>2. Pending \in Nat /\ Pending' \in Nat /\ Pending' =< Pending
  <2>1. DbCount(cmds) \in Nat /\ DbCount(replies) \in Nat
        BY LinesTypes
  <2>2. /\ DbCount(cmds') \in Nat /\ DbCount(cmds') =< DbCount(cmds)
        /\ DbCount(replies') \in Nat /\ DbCount(replies') =< DbCount(replies)
        BY DEF Fewer
  <2> QED BY <2>1, <2>2 DEF Pending
<1>3. Pending' =< 1 /\ (Pending' = 1 => Pending = 1)
      BY <1>1, <1>2
<1>4. \A i \in DbIn(cmds') : cmds'[i].users = Top(st).users /\ Expiring' \subseteq Named(Below(st))
      BY <1>1 DEF SubDb, Fewer
<1>5. \A i \in DbIn(replies') :
            /\ replies'[i].users \subseteq Top(st).users
            /\ Expiring' \subseteq replies'[i].users \cup Named(Below(st))
      BY <1>1 DEF SubDb, Fewer
<1>6. Expiring' \subseteq Named(st)
      BY <1>1
<1> QED BY <1>1, <1>3, <1>4, <1>5, <1>6 DEF ApartInv

LEMMA BelowPushed ==
    ASSUME NEW st \in Seq(Line), NEW sp \in Seq(Line), Len(sp) = Len(st) + 1,
           \A i \in 1..Len(st) : sp[i] = st[i]
    PROVE  Below(sp) = st
<1>1. Len(st) \in Nat /\ (Len(st) + 1) - 1 = Len(st)
      OBVIOUS
<1>2. Below(sp) = SubSeq(sp, 1, Len(st))
      BY <1>1 DEF Below
<1> DEFINE sub == SubSeq(sp, 1, Len(st))
<1>3. sub \in Seq(Line) /\ Len(sub) = Len(st) /\ \A i \in 1..Len(st) : sub[i] = sp[i]
      BY <1>1
<1> HIDE DEF sub
<1>4. \A i \in 1..Len(sub) : sub[i] = st[i]
      BY <1>3
<1>5. sub = st
      BY <1>3, <1>4, SeqEqual
<1> QED BY <1>2, <1>5 DEF sub

\* The batch that was taken is named on top of the stack.
LEMMA ApartResult ==
    ASSUME LinesInv, ApartInv, RedisResultCallback, Head(replies).ok
    PROVE  ApartInv'
<1> SUFFICES ASSUME apart' PROVE ApartInv'
    BY DEF ApartInv
<1> DEFINE us == Head(replies).users
           st == Stack(log)
<1>1. /\ Answer("REDIS") /\ Send(<<Ask("DB", us)>>) /\ PrintLines(<<Pre("EXPIRE", us)>>)
      /\ apart /\ Open = {} /\ OpenReplies = {} /\ UNCHANGED <<redis, unsynced, exposed>>
      BY DEF RedisResultCallback
<1>2. cmds \in Seq(Request) /\ replies \in Seq(Request) /\ log \in Seq(Line)
      BY LinesTypes
<1>3. us \in SUBSET User
      BY <1>1, <1>2, AnswerFacts, RequestFields
<1>4. Expiring \subseteq Named(st)
      BY <1>1 DEF ApartInv
<1> HIDE DEF us, st
<1> DEFINE l == Pre("EXPIRE", us)
           q == Ask("DB", us)
<1>5. /\ l \in Line /\ l.tag = "pre" /\ l.users = us /\ l.of = "EXPIRE"
      /\ q \in Request /\ q.op = "DB" /\ q.users = us
      BY <1>3, LineTypes, AskType DEF Kinds
<1> HIDE DEF l, q
<1>6. cmds' = Append(cmds, q)
  <2>1. ctx = "up"
        BY <1>1, AnswerUp
  <2> QED BY <1>1, <1>2, <1>5, <2>1, SendOne DEF q
<1>7. log' = Append(log, l)
      BY <1>1, <1>2, <1>5, Printed DEF l
<1> DEFINE sp == Push(st, l)
<1>8. Stack(log') = sp
      BY <1>2, <1>5, <1>7, StackAppend DEF st
<1>9. st \in Seq(Line) /\ Len(st) \in Nat
      BY <1>2, StackType DEF st
<1>10. /\ sp \in Seq(Line) /\ Len(sp) = Len(st) + 1 /\ sp[Len(st) + 1] = l
       /\ \A i \in 1..Len(st) : sp[i] = st[i]
      BY <1>5, <1>9, PushType
<1> HIDE DEF sp
<1>11. Top(sp) = l /\ sp # <<>>
      BY <1>9, <1>10 DEF Top
<1>12. Named(st) \subseteq Named(sp)
  <2>1. \A i \in 1..Len(st) : i \in 1..Len(sp)
        BY <1>9, <1>10
  <2> QED BY <1>9, <1>10, <2>1, NamedIff
<1>13. DbIn(cmds) = {} /\ DbIn(replies) = {}
      BY <1>1 DEF Open, OpenReplies, DbIn
<1>14. DbIn(replies') = {} /\ DbCount(replies') = 0
  <2>1. replies # <<>> /\ replies' = Tail(replies) /\ Tail(replies) \in Seq(Request)
        BY <1>1, <1>2, AnswerFacts
  <2>2. \A i \in DbIn(Tail(replies)) : i + 1 \in DbIn(replies)
        BY <1>2, <2>1, DbTail
  <2>3. DbIn(Tail(replies)) = {}
        BY <1>13, <2>2
  <2> QED BY <2>1, <2>3, DbNone
<1>15. DbIn(cmds') = {Len(cmds) + 1} /\ cmds'[Len(cmds) + 1] = q /\ DbCount(cmds') = 1
  <2>1. DbIn(cmds') = DbIn(cmds) \cup {Len(cmds) + 1}
        BY <1>2, <1>5, <1>6, DbAppend
  <2>2. cmds'[Len(cmds) + 1] = q
        BY <1>2, <1>6, AppendProperties
  <2>3. DbIn(cmds') = {Len(cmds) + 1}
        BY <1>13, <2>1
  <2>4. Cardinality({Len(cmds) + 1}) = 1
        BY FS_Singleton
  <2> QED BY ONLY <2>2, <2>3, <2>4 DEF DbCount
<1>16. Pending' = 1
      BY <1>14, <1>15 DEF Pending
<1>17. Expiring' = Expiring
      BY <1>1 DEF Expiring, redis
<1>18. Below(sp) = st
      BY <1>9, <1>10, BelowPushed
<1> QED BY <1>4, <1>5, <1>8, <1>11, <1>12, <1>14, <1>15, <1>16, <1>17, <1>18 DEF ApartInv

\* The batch that was written leaves the stack.
LEMMA ApartToDB ==
    ASSUME LinesInv, ApartInv, RedisToDBCallback
    PROVE  ApartInv'
<1> SUFFICES ASSUME apart' PROVE ApartInv'
    BY DEF ApartInv
<1> DEFINE l == Done("EXPIRE")
           st == Stack(log)
           us == Head(replies).users
<1>1. /\ Answer("DB") /\ cmds' = cmds /\ apart /\ UNCHANGED <<redis, exposed>>
      /\ \/ PrintLines(<<l>> \o SyncLines) /\ unsynced' = unsynced \ us
         \/ PrintLines(<<l>>) /\ ~Head(replies).ok /\ unsynced' = unsynced
      BY DEF RedisToDBCallback, history
<1>2. /\ cmds \in Seq(Request) /\ replies \in Seq(Request) /\ log \in Seq(Line)
      /\ LogOK(log, Pending) /\ DbCount(cmds) \in Nat
      BY LinesTypes
<1>3. /\ replies # <<>> /\ Head(replies) = replies[1] /\ Head(replies).op = "DB"
      /\ replies' = Tail(replies) /\ Tail(replies) \in Seq(Request) /\ 1 \in DbIn(replies)
  <2>1. /\ replies # <<>> /\ Head(replies) = replies[1] /\ Head(replies).op = "DB"
        /\ replies' = Tail(replies) /\ Tail(replies) \in Seq(Request)
        BY <1>1, <1>2, AnswerFacts
  <2> QED BY <1>2, <2>1, DbTail
<1>4. /\ Pending =< 1
      /\ Expiring \subseteq us \cup Named(Below(st))
      /\ Pending = 1 => st # <<>>
      BY <1>1, <1>3 DEF ApartInv
<1>u. unsynced' \subseteq unsynced \ us
  <2>1. 1 \in 1..Len(replies)
        BY <1>3 DEF DbIn
  <2>2. ~Head(replies).ok => us = {}
        BY <1>3, <2>1, LinesTypes DEF RequestInv
  <2> QED BY <1>1, <2>2
<1>5. /\ DbCount(replies) = DbCount(replies') + 1 /\ DbCount(replies') \in Nat
      BY <1>1, AnswerPending
<1>6. DbCount(cmds') = 0 /\ DbCount(replies') = 0 /\ Pending' = 0 /\ Pending = 1
      BY <1>1, <1>2, <1>4, <1>5 DEF Pending
<1>7. DbIn(cmds') = {} /\ DbIn(replies') = {}
      BY <1>1, <1>2, <1>3, <1>6, DbNone
<1>8. l \in Line /\ l.tag # "pre" /\ l.tag = "done" /\ Cardinality(l.users) =< Batch
      BY LineTypes, FS_EmptySet, BatchNat
<1> HIDE DEF l, st, us
<1>9. log' = AfterSync(Append(log, l)) \/ log' = Append(log, l)
      BY <1>1, <1>2, <1>8, Printed
<1>10. Stack(log') = Below(st)
  <2> DEFINE one == Append(log, l)
  <2>1. LogOK(log, 1) /\ 1 = IF l.tag = "pre" THEN 0 - 1 ELSE 0 + 1
        BY <1>2, <1>6, <1>8
  <2>2. LogOK(one, 0) /\ Stack(one) = Push(st, l)
        BY <1>8, <2>1, LogAppend DEF st
  <2> HIDE DEF one
  <2>3. Stack(AfterSync(one)) = Stack(one)
        BY <2>2, LogSync
  <2>4. st \in Seq(Line)
        BY <1>2, StackType DEF st
  <2>5. Push(st, l) = Below(st)
        BY <1>8, <2>4, PushType DEF Below
  <2> QED BY <1>9, <2>2, <2>3, <2>5 DEF one
<1>11. Expiring' \subseteq Named(Below(st))
  <2>1. Expiring' \subseteq Expiring \ us
        BY <1>1, <1>u DEF Expiring, redis
  <2> QED BY <1>4, <2>1
<1> QED BY <1>6, <1>7, <1>10, <1>11 DEF ApartInv

\* Redis executes the batch: whoever begins to expire is found, and so is in the
\* answer.
LEMMA ApartExecuteDB ==
    ASSUME LinesInv, ApartInv, Execute, NEW q, NEW a, Executed(q, a), q.op = "DB"
    PROVE  ApartInv'
<1> SUFFICES ASSUME apart' PROVE ApartInv'
    BY DEF ApartInv
<1> DEFINE st == Stack(log)
<1>1. apart /\ log' = log /\ unsynced' = unsynced /\ exposed' = exposed
      BY DEF Execute, history
<1>2. /\ cmds \in Seq(Request) /\ replies \in Seq(Request) /\ log \in Seq(Line)
      /\ DbCount(cmds) \in Nat /\ DbCount(replies) \in Nat /\ unsynced \subseteq User
      BY LinesTypes DEF TypeOK
<1>3. /\ a \in Request /\ a.op = "DB" /\ cmds # <<>> /\ q = Head(cmds)
      /\ cmds' = Tail(cmds) /\ replies' = Append(replies, a)
      /\ a.users = Found(q)
      /\ data' = [u \in User |-> IF u \in Found(q) THEN "ttl" ELSE data[u]]
      BY DEF Executed, Moved
<1>4. /\ Pending =< 1
      /\ Pending = 1 => st # <<>> /\ Top(st).of = "EXPIRE"
      /\ \A i \in DbIn(cmds) :
            /\ cmds[i].users = Top(st).users
            /\ Expiring \subseteq Named(Below(st))
      BY <1>1 DEF ApartInv
<1>5. st \in Seq(Line)
      BY <1>2, StackType
<1> HIDE DEF st
<1>6. /\ DbCount(cmds) = DbCount(cmds') + 1 /\ DbCount(cmds') \in Nat
      /\ 1 \in DbIn(cmds) /\ cmds[1] = q
  <2>1. Tail(cmds) \in Seq(Request)
        BY <1>2, <1>3
  <2>2. DbCount(Tail(cmds)) \in Nat
        BY <2>1, DbCountType
  <2> QED BY <1>2, <1>3, <2>2, DbTail
<1>7. DbCount(replies) = 0 /\ DbCount(cmds') = 0 /\ Pending = 1
      BY <1>2, <1>4, <1>6 DEF Pending
<1>8. DbIn(cmds') = {}
  <2>1. cmds' \in Seq(Request)
        BY <1>2, <1>3
  <2> QED BY <1>7, <2>1, DbNone
<1>9. /\ DbIn(replies') = {Len(replies) + 1} /\ replies'[Len(replies) + 1] = a
      /\ DbCount(replies') = 1
  <2>1. DbIn(replies) = {}
        BY <1>2, <1>7, DbNone
  <2>2. DbIn(replies') = DbIn(replies) \cup {Len(replies) + 1} /\ DbCount(replies') = DbCount(replies) + 1
        BY <1>2, <1>3, DbAppend
  <2>3. replies'[Len(replies) + 1] = a
        BY <1>2, <1>3, AppendProperties
  <2> QED BY <1>7, <2>1, <2>2, <2>3
<1>10. Pending' = 1
      BY <1>7, <1>9 DEF Pending
<1>11. q.users = Top(st).users /\ st # <<>> /\ Top(st).of = "EXPIRE"
      BY <1>4, <1>6, <1>7
<1>12. a.users \subseteq Top(st).users
      BY <1>3, <1>11 DEF Found
<1>13. ASSUME NEW u \in Expiring' PROVE u \in a.users \cup Named(Below(st))
  <2>1. u \in unsynced \ exposed /\ u \in User /\ data'[u] = "ttl"
        BY <1>1, <1>2, <1>13 DEF Expiring
  <2>2. CASE u \in Found(q)
        BY <1>3, <2>2
  <2>3. CASE u \notin Found(q)
    <3>1. data[u] = "ttl"
          BY <1>3, <2>1, <2>3
    <3>2. u \in Expiring
          BY <2>1, <3>1 DEF Expiring
    <3> QED BY <1>4, <1>6, <3>2
  <2> QED BY <2>2, <2>3
<1>14. Expiring' \subseteq Named(st)
  <2>1. \A u : u \in Top(st).users \/ u \in Named(Below(st)) => u \in Named(st)
        BY <1>5, <1>11, StackSplit
  <2> QED BY <1>12, <1>13, <2>1
<1>15. Stack(log') = st
      BY <1>1 DEF st
<1> QED BY <1>8, <1>9, <1>10, <1>11, <1>12, <1>13, <1>14, <1>15 DEF ApartInv

\* Redis refuses the batch: nobody begins to expire.
LEMMA ApartRefuseDB ==
    ASSUME LinesInv, ApartInv, Refuse, NEW q, NEW a, Moved(q, a), a.users = {}, q.op = "DB"
    PROVE  ApartInv'
<1> SUFFICES ASSUME apart' PROVE ApartInv'
    BY DEF ApartInv
<1> DEFINE st == Stack(log)
<1>1. apart /\ log' = log /\ UNCHANGED <<unsynced, exposed, data>>
      BY DEF Refuse, history, redis
<1>2. /\ cmds \in Seq(Request) /\ replies \in Seq(Request) /\ log \in Seq(Line)
      /\ DbCount(cmds) \in Nat /\ DbCount(replies) \in Nat
      BY LinesTypes
<1>3. /\ a \in Request /\ a.op = "DB" /\ cmds # <<>> /\ q = Head(cmds)
      /\ cmds' = Tail(cmds) /\ replies' = Append(replies, a)
      BY DEF Moved
<1>4. /\ Pending =< 1
      /\ Pending = 1 => st # <<>> /\ Top(st).of = "EXPIRE"
      /\ \A i \in DbIn(cmds) : Expiring \subseteq Named(Below(st))
      /\ Expiring \subseteq Named(st)
      BY <1>1 DEF ApartInv
<1> HIDE DEF st
<1>6. /\ DbCount(cmds) = DbCount(cmds') + 1 /\ DbCount(cmds') \in Nat /\ 1 \in DbIn(cmds)
  <2>1. Tail(cmds) \in Seq(Request)
        BY <1>2, <1>3
  <2>2. DbCount(Tail(cmds)) \in Nat
        BY <2>1, DbCountType
  <2> QED BY <1>2, <1>3, <2>2, DbTail
<1>7. DbCount(replies) = 0 /\ DbCount(cmds') = 0 /\ Pending = 1
      BY <1>2, <1>4, <1>6 DEF Pending
<1>8. DbIn(cmds') = {}
  <2>1. cmds' \in Seq(Request)
        BY <1>2, <1>3
  <2> QED BY <1>7, <2>1, DbNone
<1>9. /\ DbIn(replies') = {Len(replies) + 1} /\ replies'[Len(replies) + 1] = a
      /\ DbCount(replies') = 1
  <2>1. DbIn(replies) = {}
        BY <1>2, <1>7, DbNone
  <2>2. DbIn(replies') = DbIn(replies) \cup {Len(replies) + 1} /\ DbCount(replies') = DbCount(replies) + 1
        BY <1>2, <1>3, DbAppend
  <2>3. replies'[Len(replies) + 1] = a
        BY <1>2, <1>3, AppendProperties
  <2> QED BY <1>7, <2>1, <2>2, <2>3
<1>10. Pending' = 1
      BY <1>7, <1>9 DEF Pending
<1>11. Expiring' = Expiring
      BY <1>1 DEF Expiring
<1>12. Expiring \subseteq Named(Below(st))
      BY <1>4, <1>6
<1>13. Stack(log') = st
      BY <1>1 DEF st
<1> QED BY <1>4, <1>7, <1>8, <1>9, <1>10, <1>11, <1>12, <1>13 DEF ApartInv

\* A player logs in: it does not expire, or it is exposed, and so it need not be
\* in the answers whose data is out of date.
LEMMA ApartLogin ==
    ASSUME LinesInv, ApartInv, NEW u \in User, Login(u)
    PROVE  ApartInv'
<1> SUFFICES ASSUME apart' PROVE ApartInv'
    BY DEF ApartInv
<1> DEFINE st == Stack(log)
           o == Outdated(u)
<1>1. /\ apart /\ UNCHANGED <<cmds, log>> /\ replies' = o /\ unsynced' = unsynced \cup {u}
      /\ \/ data' = [data EXCEPT ![u] = "live"] /\ exposed' = exposed \ {u}
         \/ data' = data /\ exposed' = exposed \cup {u}
      BY DEF Login
<1>2. /\ data \in [User -> {"none", "live", "ttl"}] /\ unsynced \subseteq User
      /\ replies \in Seq(Request)
      BY LinesTypes DEF TypeOK
<1>3. /\ Pending =< 1
      /\ Pending = 1 => st # <<>> /\ Top(st).of = "EXPIRE"
      /\ \A i \in DbIn(cmds) :
            /\ cmds[i].users = Top(st).users
            /\ Expiring \subseteq Named(Below(st))
      /\ \A i \in DbIn(replies) :
            /\ replies[i].users \subseteq Top(st).users
            /\ Expiring \subseteq replies[i].users \cup Named(Below(st))
      /\ Expiring \subseteq Named(st)
      BY <1>1 DEF ApartInv
<1>4. Expiring' \subseteq Expiring \ {u}
      BY <1>1, <1>2 DEF Expiring
<1>5. /\ DbIn(o) = DbIn(replies) /\ DbCount(o) = DbCount(replies)
      /\ \A i \in 1..Len(replies) : /\ o[i].users \subseteq replies[i].users
                                    /\ replies[i].users \subseteq o[i].users \cup {u}
      BY <1>2, OutdatedFacts
<1> HIDE DEF st, o
<1>6. Pending' = Pending
      BY <1>1, <1>5 DEF Pending
<1>7. \A i \in DbIn(o) :
            /\ o[i].users \subseteq Top(st).users
            /\ Expiring' \subseteq o[i].users \cup Named(Below(st))
  <2>1. \A i \in DbIn(replies) : i \in 1..Len(replies)
        BY DEF DbIn
  <2> QED BY <1>3, <1>4, <1>5, <2>1
<1>8. Stack(log') = st
      BY <1>1 DEF st
<1>9. \A i \in DbIn(cmds') : cmds'[i].users = Top(st).users /\ Expiring' \subseteq Named(Below(st))
      BY <1>1, <1>3, <1>4
<1> QED BY <1>1, <1>3, <1>4, <1>6, <1>7, <1>8, <1>9 DEF ApartInv

\* A crash in a callback: the batch on top of the stack may have been popped
\* unwritten, and its players are exposed.
LEMMA ApartCutShort ==
    ASSUME LinesInv, ApartInv, CrashInCallback
    PROVE  ApartInv'
<1> SUFFICES ASSUME apart' PROVE ApartInv'
    BY DEF ApartInv
<1> DEFINE st == Stack(log)
           us == Head(replies).users
           d == Done("EXPIRE")
<1>1. /\ apart /\ cmds' = <<>> /\ replies' = <<>> /\ replies # <<>>
      /\ exposed' = exposed \cup us /\ UNCHANGED <<unsynced, data>>
      BY DEF CrashInCallback, redis
<1>2. replies \in Seq(Request) /\ log \in Seq(Line)
      BY LinesTypes
<1>3. Pending' = 0 /\ DbIn(cmds') = {} /\ DbIn(replies') = {}
      BY <1>1, NothingPending, DbCountEmpty
<1>4. Expiring' \subseteq Expiring \ us
      BY <1>1 DEF Expiring
<1>5. Expiring' \subseteq Named(Stack(log'))
  <2>1. CASE Head(replies).op = "DB"
    <3>1. 1 \in DbIn(replies) /\ replies[1] = Head(replies)
          BY <1>1, <1>2, <2>1, DbTail
    <3>2. Expiring \subseteq us \cup Named(Below(st))
          BY <1>1, <3>1 DEF ApartInv
    <3>3. d \in Line /\ d.tag # "pre" /\ st \in Seq(Line)
          BY <1>2, LineTypes, StackType
    <3>4. Push(st, d) = Below(st)
      <4> HIDE DEF st, d
      <4> QED BY <3>3, PushType DEF Below
    <3>5. Named(Stack(log')) = Named(Push(st, d))
          BY <2>1, CutShortLog
    <3> QED BY <1>4, <3>2, <3>4, <3>5
  <2>2. CASE Head(replies).op # "DB"
    <3>1. Expiring \subseteq Named(st)
          BY <1>1 DEF ApartInv
    <3>2. Named(Stack(log')) = Named(st)
          BY <2>2, CutShortLog
    <3> QED BY <1>4, <3>1, <3>2
  <2> QED BY <2>1, <2>2
<1> QED BY <1>3, <1>5 DEF ApartInv

LEMMA ApartStep == LinesInv /\ ApartInv /\ [Next]_vars => ApartInv'
<1> SUFFICES ASSUME LinesInv, ApartInv, [Next]_vars PROVE ApartInv'
    OBVIOUS
<1>a. /\ cmds \in Seq(Request) /\ replies \in Seq(Request) /\ log \in Seq(Line)
      /\ TypeOK /\ LogOK(log, Pending) /\ Pending \in Nat
      BY LinesTypes
<1>b. Fewer(cmds, cmds) /\ Fewer(replies, replies)
      BY <1>a, FewerSame
\* A callback that opens no batch.
<1>c. ASSUME NEW op, Answer(op), Fewer(cmds', cmds), Expiring' \subseteq Expiring,
             apart' = apart, Stack(log') = Stack(log)
      PROVE  ApartInv'
  <2>1. replies # <<>> /\ replies' = Tail(replies)
        BY <1>a, <1>c, AnswerFacts
  <2>2. Fewer(replies', replies)
        BY <1>a, <2>1, FewerTail
  <2> QED BY <1>c, <2>2, ApartSame
\* A request that is no batch.
<1>d. ASSUME NEW op \in Kinds, NEW us \in SUBSET User, op # "DB", Send(<<Ask(op, us)>>)
      PROVE  Fewer(cmds', cmds)
  <2> DEFINE q == Ask(op, us)
  <2>1. q \in Request /\ q.op # "DB"
        BY <1>d, AskType
  <2> HIDE DEF q
  <2>2. cmds' = Append(cmds, q) \/ cmds' = cmds
        BY <1>a, <1>d, <2>1, SendOne DEF q
  <2>3. Fewer(Append(cmds, q), cmds)
        BY <1>a, <2>1, FewerAppend
  <2> QED BY <1>b, <2>2, <2>3
<1>1. ASSUME NEW u \in User, Login(u) PROVE ApartInv'
      BY <1>1, ApartLogin
<1>2. ASSUME NEW u \in User, TimeToLive(u) PROVE ApartInv'
  <2>1. /\ UNCHANGED <<cmds, replies, log, apart, unsynced, exposed>>
        /\ data' = [data EXCEPT ![u] = "none"]
        BY <1>2 DEF TimeToLive, history
  <2>2. Expiring' \subseteq Expiring
    <3>1. data \in [User -> {"none", "live", "ttl"}] /\ unsynced \subseteq User
          BY <1>a DEF TypeOK
    <3> QED BY <2>1, <3>1 DEF Expiring
  <2> QED BY <1>b, <2>1, <2>2, ApartSame
<1>3. CASE Age
  <2>1. UNCHANGED <<cmds, replies, log, apart, unsynced, exposed, data>>
        BY <1>3 DEF Age, history
  <2>2. Expiring' \subseteq Expiring
        BY <2>1 DEF Expiring
  <2> QED BY <1>b, <2>1, <2>2, ApartSame
\* A request that is no batch is answered.
<1>e. ASSUME NEW q, NEW a, Moved(q, a), q.op # "DB", UNCHANGED <<log, unsynced, exposed, apart, data>>
      PROVE  ApartInv'
  <2>1. /\ a \in Request /\ a.op # "DB" /\ cmds # <<>> /\ cmds' = Tail(cmds)
        /\ replies' = Append(replies, a)
        BY <1>e DEF Moved
  <2>2. Fewer(cmds', cmds) /\ Fewer(replies', replies)
        BY <1>a, <2>1, FewerTail, FewerAppend
  <2>3. Expiring' \subseteq Expiring
        BY <1>e DEF Expiring
  <2> QED BY <1>e, <2>2, <2>3, ApartSame
<1>4. CASE Execute
  <2>1. PICK q, a : Executed(q, a)
        BY <1>4, <1>a, ExecuteFacts
  <2>2. CASE q.op = "DB"
        BY <1>4, <2>1, <2>2, ApartExecuteDB
  <2>3. CASE q.op # "DB"
    <3>1. UNCHANGED <<log, unsynced, exposed, apart>>
          BY <1>4 DEF Execute, history
    <3>2. Moved(q, a) /\ data' = data
          BY <2>1, <2>3 DEF Executed
    <3> QED BY <1>e, <2>3, <3>1, <3>2
  <2> QED BY <2>2, <2>3
<1>16. CASE Refuse
  <2>1. PICK q, a : Moved(q, a) /\ a.users = {}
        BY <1>16, <1>a, RefuseFacts
  <2>2. CASE q.op = "DB"
        BY <1>16, <2>1, <2>2, ApartRefuseDB
  <2>3. CASE q.op # "DB"
    <3>1. UNCHANGED <<log, unsynced, exposed, apart, data>>
          BY <1>16 DEF Refuse, history, redis
    <3> QED BY <1>e, <2>1, <2>3, <3>1
  <2> QED BY <2>2, <2>3
<1>5. CASE ServerTimeoutCallback
  <2>1. /\ Send(<<Ask("ZCOUNT", aged)>>) /\ UNCHANGED <<redis, unsynced, replies, log, history>>
        /\ "ZCOUNT" \in Kinds
        BY <1>5 DEF ServerTimeoutCallback, Kinds
  <2>2. aged \in SUBSET User
    <3>1. DOMAIN heap = 1..Len(heap) /\ \A i \in 1..Len(heap) : heap[i] \in User
          BY <1>a DEF TypeOK
    <3> QED BY <1>a, <3>1 DEF TypeOK, Range
  <2>3. Fewer(cmds', cmds)
        BY <1>d, <2>1, <2>2
  <2>4. Expiring' \subseteq Expiring
        BY <2>1 DEF Expiring, redis, history
  <2> QED BY <1>b, <2>1, <2>3, <2>4, ApartSame DEF history
<1>6. CASE RedisAuthCallback
  <2>1. Answer("AUTH") /\ UNCHANGED <<redis, unsynced, cmds, log, history>>
        BY <1>6 DEF RedisAuthCallback
  <2>2. Expiring' \subseteq Expiring
        BY <2>1 DEF Expiring, redis, history
  <2> QED BY <1>b, <1>c, <2>1, <2>2 DEF history
<1>7. CASE RedisZCOUNTCallback
  <2>1. /\ Answer("ZCOUNT") /\ UNCHANGED <<redis, unsynced, log, history>> /\ "REDIS" \in Kinds
        /\ Send(<<Ask("REDIS", {})>>) \/ UNCHANGED cmds
        BY <1>7 DEF RedisZCOUNTCallback, Kinds
  <2>2. Fewer(cmds', cmds)
        BY <1>b, <1>d, <2>1
  <2>3. Expiring' \subseteq Expiring
        BY <2>1 DEF Expiring, redis, history
  <2> QED BY <1>c, <2>1, <2>2, <2>3 DEF history
<1>8. CASE RedisResultCallback
  <2>1. CASE Head(replies).ok
        BY <1>8, <2>1, ApartResult
  <2>2. CASE ~Head(replies).ok
    <3>1. Answer("REDIS") /\ UNCHANGED <<redis, unsynced, cmds, log, history>>
          BY <1>8, <2>2 DEF RedisResultCallback, history
    <3>2. Expiring' \subseteq Expiring
          BY <3>1 DEF Expiring, redis, history
    <3> QED BY <1>b, <1>c, <3>1, <3>2 DEF history
  <2> QED BY <2>1, <2>2
<1>9. CASE RedisToDBCallback
      BY <1>9, ApartToDB
<1>10. CASE RedisRestoreToDBCallback
  <2>1. /\ Answer("RSTOREDB")
        /\ PrintLines(SyncLines) \/ log' = log
        /\ UNCHANGED <<redis, cmds, history>>
        /\ unsynced' \subseteq unsynced
        BY <1>10 DEF RedisRestoreToDBCallback
  <2>2. log' = AfterSync(log) \/ log' = log
        BY <1>a, <2>1, Printed
  <2>3. Stack(log') = Stack(log)
        BY <1>a, <2>2, LogSync
  <2>4. Expiring' \subseteq Expiring
        BY <2>1 DEF Expiring, redis, history
  <2>5. Answer("RSTOREDB") /\ apart' = apart /\ cmds' = cmds
        BY <2>1 DEF history
  <2>6. Fewer(cmds', cmds)
        BY <1>b, <2>5
  <2> QED BY <1>c, <2>3, <2>4, <2>5, <2>6
<1>11. CASE ContextError
  <2>1. cmds' = <<>> /\ replies' = <<>> /\ UNCHANGED <<redis, unsynced, log, history>>
        BY <1>11 DEF ContextError
  <2>2. Fewer(cmds', cmds) /\ Fewer(replies', replies)
        BY <1>a, <2>1, FewerEmpty
  <2>3. Expiring' \subseteq Expiring
        BY <2>1 DEF Expiring, redis, history
  <2> QED BY <2>1, <2>2, <2>3, ApartSame DEF history
<1>13. CASE Crash
  <2>1. PICK k \in kept..Len(log) :
            log' = SubSeq(log, 1, k) /\ (apart' => apart /\ k = Len(log))
        BY <1>13 DEF Crash
  <2>2. cmds' = <<>> /\ replies' = <<>> /\ UNCHANGED <<redis, unsynced, exposed>>
        BY <1>13 DEF Crash
  <2>3. apart' => apart /\ log' = log
        BY <1>a, <2>1, SubSeqFull
  <2>4. Fewer(cmds', cmds) /\ Fewer(replies', replies)
        BY <1>a, <2>2, FewerEmpty
  <2>5. Expiring' \subseteq Expiring
        BY <2>2 DEF Expiring, redis, history
  <2>6. apart' => apart /\ Stack(log') = Stack(log)
        BY <2>3
  <2> QED BY <2>4, <2>5, <2>6, ApartSame
<1>17. CASE CrashInCallback
      BY <1>17, ApartCutShort
<1>14. CASE Timer
  <2> DEFINE x == RedisTodoAuth
             y == Ask("RSTOREDB", Restore(log))
  <2>1. cmds' = <<x, y>> /\ UNCHANGED <<redis, unsynced, replies, log, history>>
        BY <1>14 DEF Timer
  <2>2. x.op # "DB" /\ y.op # "DB"
        BY DEF RedisTodoAuth, Ask
  <2> HIDE DEF x, y
  <2>3. DbIn(<<x, y>>) = {}
        BY <2>2 DEF DbIn
  <2>4. DbCount(cmds') = 0 /\ DbIn(cmds') = {}
        BY <2>1, <2>3, FS_EmptySet DEF DbCount
  <2>5. Fewer(cmds', cmds)
    <3>1. DbCount(cmds) \in Nat
          BY <1>a, DbCountType
    <3> QED BY <2>4, <3>1 DEF Fewer, SubDb
  <2>6. Expiring' \subseteq Expiring
        BY <2>1 DEF Expiring, redis, history
  <2> QED BY <1>b, <2>1, <2>5, <2>6, ApartSame DEF history
<1>15. CASE UNCHANGED vars
  <2>1. UNCHANGED <<redis, unsynced, cmds, replies, log, history>>
        BY <1>15 DEF vars, redis, history
  <2>2. Expiring' \subseteq Expiring
        BY <2>1 DEF Expiring, redis, history
  <2> QED BY <1>b, <2>1, <2>2, ApartSame DEF history
<1> QED BY <1>1, <1>2, <1>3, <1>4, <1>5, <1>6, <1>7, <1>8, <1>9, <1>10, <1>11, <1>13, <1>14,
           <1>15, <1>16, <1>17 DEF Next

\* As long as batches came one at a time and no crash lost a line, the output
\* names every player whose hash is about to expire unwritten, so that a
\* restarted server fetches it again (Timer::RedisResultCallback prints before
\* it sends, Timer::RedisToDBCallback prints once the answer is here), whatever
\* redis refused.  It does not name the player who came back to an expiring
\* hash, nor the one whose batch was being written at a crash.
THEOREM RestartFetchesUnwritten == Spec => []UnsyncedIsRestored
<1>1. Init => ApartInv
  <2> SUFFICES ASSUME Init PROVE ApartInv
      OBVIOUS
  <2>1. cmds = <<>> /\ replies = <<>> /\ log = <<>> /\ unsynced = {}
        BY DEF Init
  <2>2. Pending = 0 /\ DbIn(cmds) = {} /\ DbIn(replies) = {}
        BY <2>1, DbCountEmpty DEF Pending
  <2>3. Expiring = {}
        BY <2>1 DEF Expiring
  <2> QED BY <2>2, <2>3 DEF ApartInv
<1>2. LinesInv /\ ApartInv /\ [Next]_vars => ApartInv'
      BY ApartStep
<1>3. ApartInv => UnsyncedIsRestored
  <2> SUFFICES ASSUME ApartInv, apart, NEW u \in unsynced \ exposed, data[u] = "ttl"
               PROVE  u \in Restore(log)
      BY DEF UnsyncedIsRestored
  <2>1. u \in Expiring
        BY DEF Expiring
  <2>2. Restore(log) = Named(Stack(log))
        BY DEF Restore, Named
  <2> QED BY <2>1, <2>2 DEF ApartInv
<1> QED BY <1>1, <1>2, <1>3, LinesAlways, PTL DEF Spec

=============================================================================
