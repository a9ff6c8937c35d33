---------------------------- MODULE StorageProofs ----------------------------
(***************************************************************************)
(* What a running server has in memory and on disk agree, and what restart *)
(* reads back, for any number of nodes, terms, entries and lives, any base *)
(* of the texts of indexes, any failed writes and any crashes.             *)
(***************************************************************************)
EXTENDS Storage, TLAPS, SequenceTheorems, FiniteSetTheorems, NaturalsInduction,
        WellFoundedInduction

-----------------------------------------------------------------------------
(* The text of an index *)

\* A set of numbers has a least one.
LEMMA LeastNat ==
    ASSUME NEW S, S \subseteq Nat, S # {}
    PROVE  \E m \in S : \A k \in S : m <= k
<1> DEFINE R == OpToRel(<, Nat)
<1>1. IsWellFoundedOn(R, Nat)
      BY NatLessThanWellFounded
<1>2. \A x, y \in Nat : x < y => <<x, y>> \in R
      BY DEF OpToRel
<1> HIDE DEF R
<1>3. PICK m \in S : \A k \in S : ~(<<k, m>> \in R)
      BY <1>1, WFMin
<1>4. ASSUME NEW k \in S PROVE m <= k
  <2>1. m \in Nat /\ k \in Nat
        OBVIOUS
  <2>2. ~(k < m)
        BY <1>2, <1>3, <2>1
  <2> QED BY <2>1, <2>2
<1> QED BY <1>4

\* Division by the base.
LEMMA Division ==
    ASSUME NEW i \in Nat
    PROVE  /\ i \div Base \in Nat /\ i % Base \in Nat
           /\ Base * (i \div Base) + (i % Base) = i
           /\ i >= Base => i \div Base < i
<1> DEFINE d == i \div Base
           m == i % Base
<1>1. d \in Nat /\ m \in 0..(Base - 1) /\ i = Base * d + m
      BY StorageBounds
<1> HIDE DEF d, m
<1>2. m \in Nat /\ m < Base /\ Base \in Nat /\ Base >= 2
      BY <1>1, StorageBounds
<1>3. i >= Base => d < i
  <2> SUFFICES ASSUME i >= Base, ~(d < i) PROVE FALSE
      OBVIOUS
  <2>1. d >= 1 /\ d >= i
        BY <1>1, <1>2
  <2>2. Base * d >= 2 * d
        BY <1>1, <1>2
  <2> QED BY <1>1, <1>2, <2>1, <2>2
<1> QED BY <1>1, <1>2, <1>3 DEF d, m

\* One level of the recursion of Digits, and a function that obeys it up to n.
DigitStep(f, i) == IF i < Base THEN <<i>> ELSE f[i \div Base] \o <<i % Base>>

DigitSol(f, n) == f = [i \in 0..n |-> DigitStep(f, i)]

LEMMA DigitSolsAgree ==
    ASSUME NEW n \in Nat, NEW m \in Nat, NEW f, NEW g, DigitSol(f, n), DigitSol(g, m)
    PROVE  \A i \in 0..n : i <= m => f[i] = g[i]
<1> DEFINE Bad == {i \in 0..n : i <= m /\ f[i] # g[i]}
<1>1. ASSUME Bad # {} PROVE FALSE
  <2>1. PICK i \in Bad : \A j \in Bad : i <= j
    <3>1. Bad \subseteq Nat
          OBVIOUS
    <3> HIDE DEF Bad
    <3> QED BY <1>1, <3>1, LeastNat
  <2>2. i \in 0..n /\ i \in 0..m /\ i \in Nat /\ f[i] # g[i]
        OBVIOUS
  <2>3. f[i] = DigitStep(f, i) /\ g[i] = DigitStep(g, i)
        BY <2>2 DEF DigitSol
  <2>4. CASE i < Base
        BY <2>2, <2>3, <2>4 DEF DigitStep
  <2>5. CASE ~(i < Base)
    <3> DEFINE d == i \div Base
    <3>1. d \in Nat /\ d < i
          BY <2>2, <2>5, Division, StorageBounds
    <3>2. f[i] = f[d] \o <<i % Base>> /\ g[i] = g[d] \o <<i % Base>>
          BY <2>3, <2>5 DEF DigitStep
    <3> HIDE DEF d
    <3>3. d \notin Bad /\ d \in 0..n /\ d <= m
          BY <2>1, <2>2, <3>1
    <3>4. f[d] = g[d]
          BY <3>3
    <3> QED BY <2>2, <3>2, <3>4
  <2> QED BY <2>4, <2>5
<1> QED BY <1>1

LEMMA DigitSolsExist == \A n \in Nat : \E f : DigitSol(f, n)
<1> DEFINE Bad == {n \in Nat : ~ \E f : DigitSol(f, n)}
<1>1. ASSUME Bad # {} PROVE FALSE
  <2>1. PICK n \in Bad : \A j \in Bad : n <= j
        BY <1>1, LeastNat
  <2>2. n \in Nat /\ ~ \E f : DigitSol(f, n)
        OBVIOUS
  <2>3. CASE n = 0
    <3> DEFINE f == [i \in 0..0 |-> <<i>>]
    <3>1. \A i \in 0..0 : DigitStep(f, i) = <<i>>
          BY StorageBounds DEF DigitStep
    <3>2. f = [i \in 0..0 |-> DigitStep(f, i)]
          BY <3>1
    <3> HIDE DEF f
    <3> QED BY <2>2, <2>3, <3>2 DEF DigitSol
  <2>4. CASE n # 0
    <3>1. n - 1 \in Nat /\ n - 1 \notin Bad
          BY <2>1, <2>2, <2>4
    <3>2. PICK g : DigitSol(g, n - 1)
          BY <3>1
    <3> DEFINE f == [i \in 0..n |-> DigitStep(g, i)]
    <3>3. ASSUME NEW i \in 0..n PROVE DigitStep(g, i) = DigitStep(f, i)
      <4>1. CASE i < Base
            BY <4>1 DEF DigitStep
      <4>2. CASE ~(i < Base)
        <5> DEFINE d == i \div Base
        <5>1. d \in Nat /\ d < i /\ i \in Nat
              BY <4>2, Division, StorageBounds
        <5> HIDE DEF d
        <5>2. d \in 0..(n - 1) /\ d \in 0..n
              BY <2>2, <3>1, <5>1
        <5>3. f[d] = DigitStep(g, d) /\ g[d] = DigitStep(g, d)
              BY <3>2, <5>2 DEF DigitSol
        <5> HIDE DEF f
        <5>4. f[i \div Base] = g[i \div Base]
              BY <5>3 DEF d
        <5> QED BY <4>2, <5>4 DEF DigitStep
      <4> QED BY <4>1, <4>2
    <3>4. f = [i \in 0..n |-> DigitStep(f, i)]
          BY <3>3
    <3> HIDE DEF f
    <3> QED BY <2>2, <3>4 DEF DigitSol
  <2> QED BY <2>3, <2>4
<1> QED BY <1>1

\* The recursive definition of Digits has a solution, so Digits obeys it.
LEMMA DigitsUnfolds ==
    ASSUME NEW i \in Nat
    PROVE  Digits[i] = IF i < Base THEN <<i>> ELSE Digits[i \div Base] \o <<i % Base>>
<1> DEFINE sol(n) == CHOOSE f : DigitSol(f, n)
           F == [j \in Nat |-> sol(j)[j]]
<1>1. \A n \in Nat : DigitSol(sol(n), n)
      BY DigitSolsExist
<1> HIDE DEF sol
<1>2. ASSUME NEW j \in Nat PROVE F[j] = DigitStep(F, j)
  <2>1. DigitSol(sol(j), j) /\ j \in 0..j
        BY <1>1
  <2>2. sol(j)[j] = DigitStep(sol(j), j)
        BY <2>1 DEF DigitSol
  <2>3. CASE j < Base
        BY <2>2, <2>3 DEF DigitStep
  <2>4. CASE ~(j < Base)
    <3> DEFINE d == j \div Base
    <3>1. d \in Nat /\ d < j
          BY <2>4, Division, StorageBounds
    <3> HIDE DEF d
    <3> DEFINE f == sol(j)
               g == sol(d)
    <3>2. DigitSol(f, j) /\ DigitSol(g, d)
          BY <1>1, <3>1
    <3>3. F[d] = g[d] /\ F[j] = DigitStep(f, j)
          BY <2>2, <3>1
    <3> HIDE DEF f, g, F
    <3>4. d \in 0..j /\ d <= d
          BY <3>1
    <3>5. f[d] = g[d]
          BY <3>1, <3>2, <3>4, DigitSolsAgree
    <3>6. f[j \div Base] = F[j \div Base]
          BY <3>3, <3>5 DEF d
    <3> QED BY <2>4, <3>3, <3>6 DEF DigitStep
  <2> QED BY <2>3, <2>4
<1>3. F = [j \in Nat |-> IF j < Base THEN <<j>> ELSE F[j \div Base] \o <<j % Base>>]
  <2>1. F = [j \in Nat |-> F[j]]
        OBVIOUS
  <2> HIDE DEF F
  <2> QED BY <1>2, <2>1, Zenon DEF DigitStep
<1> HIDE DEF F
<1>4. Digits = [j \in Nat |-> IF j < Base THEN <<j>> ELSE Digits[j \div Base] \o <<j % Base>>]
      BY <1>3, Zenon DEF Digits
<1> QED BY <1>4

\* A key is a sequence of numbers.
LEMMA DigitsTyped == \A i \in Nat : Digits[i] \in Seq(Nat)
<1> DEFINE Bad == {i \in Nat : Digits[i] \notin Seq(Nat)}
<1>1. ASSUME Bad # {} PROVE FALSE
  <2>1. PICK i \in Bad : \A j \in Bad : i <= j
        BY <1>1, LeastNat
  <2>2. i \in Nat /\ Digits[i] \notin Seq(Nat)
        OBVIOUS
  <2>3. CASE i < Base
    <3>1. Digits[i] = <<i>>
          BY <2>2, <2>3, DigitsUnfolds
    <3> QED BY <2>2, <3>1
  <2>4. CASE ~(i < Base)
    <3> DEFINE d == i \div Base
               m == i % Base
    <3>0. i >= Base
          BY <2>2, <2>4, StorageBounds
    <3>1. d \in Nat /\ d < i /\ m \in Nat
          BY <2>2, <3>0, Division
    <3>2. Digits[i] = Digits[d] \o <<m>>
          BY <2>2, <2>4, DigitsUnfolds
    <3> HIDE DEF d, m
    <3>3. Digits[d] \in Seq(Nat)
      <4>1. ~(i <= d)
            BY <2>2, <3>1
      <4>2. d \notin Bad
        <5> HIDE DEF Bad
        <5> QED BY <2>1, <4>1
      <4> QED BY <3>1, <4>2
    <3>4. <<m>> \in Seq(Nat)
          BY <3>1
    <3>5. Digits[d] \o <<m>> \in Seq(Nat)
          BY ONLY <3>3, <3>4, ConcatProperties
    <3> QED BY <2>2, <3>2, <3>5
  <2> QED BY <2>3, <2>4
<1> QED BY <1>1

\* The same for the number a key spells.
NumberStep(f, k, j) == IF j = 0 THEN 0 ELSE Base * f[j - 1] + k[j]

NumberSol(f, k, n) == f = [j \in 0..n |-> NumberStep(f, k, j)]

SameTo(k, l, n) == \A j \in 1..n : k[j] = l[j]

LEMMA NumberSolsAgree ==
    ASSUME NEW k, NEW l, NEW n \in Nat, NEW m \in Nat, n <= m, SameTo(k, l, n),
           NEW f, NEW g, NumberSol(f, k, n), NumberSol(g, l, m)
    PROVE  \A j \in 0..n : f[j] = g[j]
<1> DEFINE Bad == {j \in 0..n : f[j] # g[j]}
<1>1. ASSUME Bad # {} PROVE FALSE
  <2>1. PICK j \in Bad : \A h \in Bad : j <= h
    <3>1. Bad \subseteq Nat
          OBVIOUS
    <3> HIDE DEF Bad
    <3> QED BY <1>1, <3>1, LeastNat
  <2>2. j \in 0..n /\ j \in 0..m /\ j \in Nat /\ f[j] # g[j]
        OBVIOUS
  <2>3. f[j] = NumberStep(f, k, j) /\ g[j] = NumberStep(g, l, j)
        BY <2>2 DEF NumberSol
  <2>4. CASE j = 0
        BY <2>2, <2>3, <2>4 DEF NumberStep
  <2>5. CASE j # 0
    <3> DEFINE h == j - 1
    <3>1. h \in 0..n /\ ~(j <= h) /\ j \in 1..n
          BY <2>2, <2>5
    <3>2. f[j] = Base * f[h] + k[j] /\ g[j] = Base * g[h] + l[j]
          BY <2>3, <2>5 DEF NumberStep
    <3> HIDE DEF h
    <3>3. h \notin Bad
      <4> HIDE DEF Bad
      <4> QED BY <2>1, <3>1
    <3>4. f[h] = g[h]
          BY <3>1, <3>3
    <3> QED BY <2>2, <3>1, <3>2, <3>4 DEF SameTo
  <2> QED BY <2>4, <2>5
<1> QED BY <1>1

LEMMA NumberSolsExist == \A k : \A n \in Nat : \E f : NumberSol(f, k, n)
<1> SUFFICES ASSUME NEW k PROVE \A n \in Nat : \E f : NumberSol(f, k, n)
    OBVIOUS
<1> DEFINE Bad == {n \in Nat : ~ \E f : NumberSol(f, k, n)}
<1>1. ASSUME Bad # {} PROVE FALSE
  <2>1. PICK n \in Bad : \A j \in Bad : n <= j
        BY <1>1, LeastNat
  <2>2. n \in Nat /\ ~ \E f : NumberSol(f, k, n)
        OBVIOUS
  <2>3. CASE n = 0
    <3> DEFINE f == [j \in 0..0 |-> 0]
    <3>1. \A j \in 0..0 : NumberStep(f, k, j) = 0
          BY DEF NumberStep
    <3>2. f = [j \in 0..0 |-> NumberStep(f, k, j)]
          BY <3>1
    <3> HIDE DEF f
    <3> QED BY <2>2, <2>3, <3>2 DEF NumberSol
  <2>4. CASE n # 0
    <3>1. n - 1 \in Nat /\ n - 1 \notin Bad
          BY <2>1, <2>2, <2>4
    <3>2. PICK g : NumberSol(g, k, n - 1)
          BY <3>1
    <3> DEFINE f == [j \in 0..n |-> NumberStep(g, k, j)]
    <3>3. ASSUME NEW j \in 0..n PROVE NumberStep(g, k, j) = NumberStep(f, k, j)
      <4>1. CASE j = 0
            BY <4>1 DEF NumberStep
      <4>2. CASE j # 0
        <5> DEFINE h == j - 1
        <5>1. h \in 0..(n - 1) /\ h \in 0..n
              BY <2>2, <4>2
        <5> HIDE DEF h
        <5>2. f[h] = NumberStep(g, k, h) /\ g[h] = NumberStep(g, k, h)
              BY <3>2, <5>1 DEF NumberSol
        <5> HIDE DEF f
        <5>3. f[j - 1] = g[j - 1]
              BY <5>2 DEF h
        <5> QED BY <4>2, <5>3 DEF NumberStep
      <4> QED BY <4>1, <4>2
    <3>4. f = [j \in 0..n |-> NumberStep(f, k, j)]
          BY <3>3
    <3> HIDE DEF f
    <3> QED BY <2>2, <3>4 DEF NumberSol
  <2> QED BY <2>3, <2>4
<1> QED BY <1>1

LEMMA NumberIsSol ==
    ASSUME NEW k \in Seq(Nat)
    PROVE  \E f : NumberSol(f, k, Len(k)) /\ Number(k) = f[Len(k)]
<1> DEFINE f == CHOOSE n : n = [j \in 0..Len(k) |-> IF j = 0 THEN 0 ELSE Base * n[j - 1] + k[j]]
<1>1. Len(k) \in Nat
      OBVIOUS
<1>2. PICK g : NumberSol(g, k, Len(k))
      BY <1>1, NumberSolsExist
<1>3. g = [j \in 0..Len(k) |-> IF j = 0 THEN 0 ELSE Base * g[j - 1] + k[j]]
      BY <1>2 DEF NumberSol, NumberStep
<1>4. f = [j \in 0..Len(k) |-> IF j = 0 THEN 0 ELSE Base * f[j - 1] + k[j]]
      BY <1>3
<1>5. Number(k) = f[Len(k)]
      BY DEF Number
<1> HIDE DEF f
<1>6. NumberSol(f, k, Len(k))
      BY <1>4 DEF NumberSol, NumberStep
<1> QED BY <1>5, <1>6

LEMMA NumberOfDigit ==
    ASSUME NEW i \in Nat
    PROVE  Number(<<i>>) = i
<1>1. <<i>> \in Seq(Nat) /\ Len(<<i>>) = 1 /\ <<i>>[1] = i
      OBVIOUS
<1> DEFINE k == <<i>>
<1>2. PICK f : NumberSol(f, k, Len(k)) /\ Number(k) = f[Len(k)]
      BY <1>1, NumberIsSol
<1>3. NumberSol(f, k, 1) /\ Number(k) = f[1] /\ k[1] = i
      BY <1>1, <1>2
<1> HIDE DEF k
<1>4. f[0] = 0 /\ f[1] = Base * f[0] + k[1]
      BY <1>3 DEF NumberSol, NumberStep
<1> QED BY <1>3, <1>4, StorageBounds DEF k

LEMMA NumberAppend ==
    ASSUME NEW k \in Seq(Nat), NEW d \in Nat
    PROVE  Number(k \o <<d>>) = Base * Number(k) + d
<1> DEFINE l == k \o <<d>>
           n == Len(k)
<1>1. l \in Seq(Nat) /\ Len(l) = n + 1 /\ l[n + 1] = d /\ n \in Nat
         /\ \A j \in 1..n : k[j] = l[j]
  <2>1. <<d>> \in Seq(Nat) /\ Len(<<d>>) = 1 /\ <<d>>[1] = d /\ n \in Nat
        OBVIOUS
  <2> DEFINE e == <<d>>
  <2>2. e \in Seq(Nat) /\ Len(e) = 1 /\ e[1] = d
        BY <2>1
  <2> HIDE DEF e
  <2>3. /\ k \o e \in Seq(Nat) /\ Len(k \o e) = Len(k) + Len(e)
        /\ \A j \in 1..(Len(k) + Len(e)) : (k \o e)[j] = IF j <= Len(k) THEN k[j] ELSE e[j - Len(k)]
        BY ONLY k \in Seq(Nat), <2>2, ConcatProperties
  <2>4. l = k \o e
        BY DEF e
  <2> HIDE DEF l, n
  <2>5. n = Len(k)
        BY DEF n
  <2>6. n + 1 \in 1..(Len(k) + Len(e)) /\ ~(n + 1 <= Len(k)) /\ (n + 1) - Len(k) = 1
        BY <2>1, <2>2, <2>5
  <2>7. l[n + 1] = d
        BY <2>2, <2>3, <2>4, <2>6
  <2>8. \A j \in 1..n : k[j] = l[j]
    <3>1. \A j \in 1..n : j \in 1..(Len(k) + Len(e)) /\ j <= Len(k)
          BY <2>1, <2>2, <2>5
    <3> QED BY <2>3, <2>4, <3>1
  <2> QED BY <2>1, <2>2, <2>3, <2>4, <2>5, <2>7, <2>8
<1>2. PICK f : NumberSol(f, k, n) /\ Number(k) = f[n]
      BY NumberIsSol
<1> HIDE DEF l, n
<1>3. PICK g : NumberSol(g, l, n + 1) /\ Number(l) = g[n + 1]
      BY <1>1, NumberIsSol
<1>4. n + 1 \in Nat /\ n <= n + 1 /\ n \in 0..n /\ n + 1 \in 0..(n + 1) /\ n + 1 # 0 /\ (n + 1) - 1 = n
      BY <1>1
<1>5. f[n] = g[n]
  <2> DEFINE m == n + 1
  <2>1. /\ n \in Nat /\ m \in Nat /\ n <= m /\ NumberSol(f, k, n) /\ NumberSol(g, l, m)
        /\ SameTo(k, l, n)
        BY <1>1, <1>2, <1>3, <1>4 DEF SameTo
  <2> HIDE DEF m
  <2>2. \A j \in 0..n : f[j] = g[j]
        BY <2>1, NumberSolsAgree
  <2> QED BY <1>4, <2>2
<1>6. g[n + 1] = Base * g[n] + l[n + 1]
  <2> DEFINE m == n + 1
  <2>1. m \in 0..m /\ m # 0 /\ m - 1 = n /\ NumberSol(g, l, m)
        BY <1>3, <1>4
  <2> HIDE DEF m
  <2>2. g[m] = NumberStep(g, l, m)
        BY <2>1 DEF NumberSol
  <2>3. g[m] = Base * g[m - 1] + l[m]
        BY <2>1, <2>2 DEF NumberStep
  <2> QED BY <2>1, <2>3 DEF m
<1> QED BY <1>1, <1>2, <1>3, <1>5, <1>6 DEF l

\* IndexComparator reads back the number that std::to_string wrote.
LEMMA KeysSpell == \A i \in Nat : Key(i) \in Seq(Nat) /\ Number(Key(i)) = i
<1> DEFINE Bad == {i \in Nat : Number(Digits[i]) # i}
<1>1. ASSUME Bad # {} PROVE FALSE
  <2>1. PICK i \in Bad : \A j \in Bad : i <= j
        BY <1>1, LeastNat
  <2>2. i \in Nat /\ Number(Digits[i]) # i
        OBVIOUS
  <2>3. CASE i < Base
        BY <2>2, <2>3, DigitsUnfolds, NumberOfDigit
  <2>4. CASE ~(i < Base)
    <3> DEFINE d == i \div Base
               m == i % Base
    <3>0. i >= Base
          BY <2>2, <2>4, StorageBounds
    <3>1. d \in Nat /\ d < i /\ m \in Nat /\ Base * d + m = i
          BY <2>2, <3>0, Division
    <3>2. Digits[i] = Digits[d] \o <<m>>
          BY <2>2, <2>4, DigitsUnfolds
    <3> HIDE DEF d, m
    <3>3. Number(Digits[d]) = d
      <4>1. ~(i <= d)
            BY <2>2, <3>1
      <4>2. d \notin Bad
        <5> HIDE DEF Bad
        <5> QED BY <2>1, <4>1
      <4> QED BY <3>1, <4>2
    <3>4. Number(Digits[d] \o <<m>>) = Base * Number(Digits[d]) + m
          BY <3>1, DigitsTyped, NumberAppend
    <3> QED BY <2>2, <3>1, <3>2, <3>3, <3>4
  <2> QED BY <2>3, <2>4
<1> QED BY <1>1, DigitsTyped DEF Key

\* Different indexes have different texts.
LEMMA KeysDiffer == \A i, j \in Nat : Key(i) = Key(j) => i = j
BY KeysSpell

-----------------------------------------------------------------------------
(* The lives of a process *)

\* What holds between the lives: a process begins with an empty log and term
\* 0, and every stored entry is of a life so far.
LifeInv ==
    /\ stage \in {"off", "running", "restarted"}
    /\ lives \in Nat
    /\ stage = "running" => entries \in Seq(Entry) /\ currentTerm \in Term
    /\ pending \in Seq(Entry)
    /\ stage # "running" => pending = <<>>
    /\ stage = "off" => entries = <<>>
    /\ stage # "running" => currentTerm = 0
    /\ \A i \in 0..(MaxLog - 1) :
          Key(i) \in DOMAIN entriesDb =>
              entriesDb[Key(i)].life \in Nat /\ entriesDb[Key(i)].life <= lives

-----------------------------------------------------------------------------
(* An entry that was written *)

\* What AppendCfgLog does when the write succeeds.
Written(e, c) ==
    /\ pending' = <<e>>
    /\ entriesDb' = Put(entriesDb, Key(Index), [entry |-> e, clean |-> c, life |-> lives])

\* The key of the index gets the entry, and no other key is touched.
LEMMA WrittenFacts ==
    ASSUME NEW e, NEW c, Written(e, c)
    PROVE  /\ DOMAIN entriesDb' = DOMAIN entriesDb \cup {Key(Index)}
           /\ entriesDb'[Key(Index)] = [entry |-> e, clean |-> c, life |-> lives]
           /\ \A x \in DOMAIN entriesDb : x # Key(Index) => entriesDb'[x] = entriesDb[x]
<1> DEFINE k == Key(Index)
           v == [entry |-> e, clean |-> c, life |-> lives]
<1>1. entriesDb' = Put(entriesDb, k, v)
      BY DEF Written
<1> HIDE DEF v, k
<1>2. /\ DOMAIN Put(entriesDb, k, v) = DOMAIN entriesDb \cup {k}
      /\ Put(entriesDb, k, v)[k] = v
      /\ \A x \in DOMAIN entriesDb : x # k => Put(entriesDb, k, v)[x] = entriesDb[x]
      BY DEF Put
<1>3. /\ DOMAIN entriesDb' = DOMAIN entriesDb \cup {k}
      /\ entriesDb'[k] = v
      /\ \A x \in DOMAIN entriesDb : x # k => entriesDb'[x] = entriesDb[x]
      BY <1>1, <1>2
<1> QED BY <1>3 DEF k, v

\* An append is written or does nothing.
LEMMA AppendCases ==
    ASSUME NEW n \in Node, AppendCfgLog(n)
    PROVE  /\ stage = "running" /\ pending = <<>> /\ Len(entries) < MaxLog
           /\ UNCHANGED <<stage, lives, entries, currentTerm, proxys, stateDb, lastLog>>
           /\ \/ \E c \in BOOLEAN : Written([node |-> n, term |-> currentTerm], c)
              \/ UNCHANGED <<pending, entriesDb>>
BY DEF AppendCfgLog, Idle, Written

\* The log of a running process is a sequence of entries.
LEMMA LogTyped ==
    ASSUME LifeInv, stage = "running"
    PROVE  Log \in Seq(Entry) /\ Len(Log) \in Nat
BY DEF LifeInv, Log

\* What is not being appended is in memory.
LEMMA LogInMemory ==
    ASSUME NEW S, entries \in Seq(S), pending = <<>>
    PROVE  Log = entries
BY DEF Log

\* An entry that is written lies behind the log.
LEMMA LogGrows ==
    ASSUME LifeInv, stage = "running", pending = <<>>, NEW e, NEW c, Written(e, c),
           UNCHANGED entries
    PROVE  Log' = Append(Log, e) /\ Log = entries
<1>1. Log = entries
      BY LogInMemory DEF LifeInv
<1>2. Log' = entries \o <<e>>
      BY DEF Written, Log
<1>3. entries \in Seq(Entry)
      BY DEF LifeInv
<1>4. entries \o <<e>> = Append(entries, e)
  <2> DEFINE S == Entry \cup {e}
  <2>1. entries \in Seq(S) /\ e \in S
        BY <1>3
  <2> HIDE DEF S
  <2> QED BY <2>1
<1> QED BY <1>1, <1>2, <1>4

\* Appending in memory what is on disk leaves the log as it is.
LEMMA PushBackKeepsLog ==
    ASSUME LifeInv, PushBack
    PROVE  /\ Log' = Log /\ entries' = Log /\ pending' = <<>> /\ Log \in Seq(Entry)
           /\ stage = "running"
           /\ UNCHANGED <<stage, lives, currentTerm, proxys, stateDb, entriesDb, lastLog>>
<1>1. /\ entries' = Log /\ pending' = <<>> /\ stage = "running"
      /\ UNCHANGED <<stage, lives, currentTerm, proxys, stateDb, entriesDb, lastLog>>
      BY DEF PushBack
<1>2. Log \in Seq(Entry)
      BY <1>1, LogTyped
<1>3. Log' = Log \o <<>>
      BY <1>1 DEF Log
<1> HIDE DEF Log
<1>4. Log \o <<>> = Log
      BY <1>2
<1> QED BY <1>1, <1>2, <1>3, <1>4

-----------------------------------------------------------------------------
(* LifeInv is inductive. *)

LEMMA LifeInit == Init => LifeInv
BY StorageBounds DEF Init, LifeInv

LEMMA LifeStep == LifeInv /\ [Next]_vars => LifeInv'
<1> SUFFICES ASSUME LifeInv, [Next]_vars PROVE LifeInv'
    OBVIOUS
<1> USE StorageBounds
<1>1. CASE Launch
      BY <1>1 DEF LifeInv, Launch, Term
<1>2. CASE Crash
      BY <1>2 DEF LifeInv, Crash, Ends
<1>3. CASE LoadEntries
  <2>1. stage' = "restarted" /\ UNCHANGED <<lives, pending, currentTerm, entriesDb>> /\ stage = "off"
        BY <1>3 DEF LoadEntries
  <2> QED BY <2>1 DEF LifeInv
<1>4. CASE MainReturns
      BY <1>4 DEF LifeInv, MainReturns
<1>5. ASSUME NEW n \in Node, AppendCfgLog(n) PROVE LifeInv'
  <2> DEFINE e == [node |-> n, term |-> currentTerm]
  <2>1. stage = "running" /\ UNCHANGED <<stage, lives, entries, currentTerm>>
        BY <1>5, AppendCases
  <2>2. entries \in Seq(Entry) /\ currentTerm \in Term /\ e \in Entry
        BY <2>1 DEF LifeInv, Entry
  <2>3. CASE UNCHANGED <<pending, entriesDb>>
        BY <2>1, <2>2, <2>3 DEF LifeInv
  <2>4. ASSUME NEW c \in BOOLEAN, Written(e, c) PROVE LifeInv'
    <3>a. /\ DOMAIN entriesDb' = DOMAIN entriesDb \cup {Key(Index)}
          /\ entriesDb'[Key(Index)] = [entry |-> e, clean |-> c, life |-> lives]
          /\ \A x \in DOMAIN entriesDb : x # Key(Index) => entriesDb'[x] = entriesDb[x]
      <4> HIDE DEF e
      <4> QED BY <2>4, WrittenFacts, Zenon
    <3>1. pending' \in Seq(Entry)
          BY <2>2, <2>4 DEF Written
    <3>2. ASSUME NEW i \in 0..(MaxLog - 1), Key(i) \in DOMAIN entriesDb'
          PROVE  entriesDb'[Key(i)].life \in Nat /\ entriesDb'[Key(i)].life <= lives
      <4>1. CASE Key(i) = Key(Index)
        <5>1. entriesDb'[Key(i)].life = lives
              BY <3>a, <4>1
        <5> QED BY <5>1 DEF LifeInv
      <4>2. CASE Key(i) # Key(Index)
        <5>1. Key(i) \in DOMAIN entriesDb /\ entriesDb'[Key(i)] = entriesDb[Key(i)]
              BY <3>a, <3>2, <4>2
        <5> QED BY <5>1 DEF LifeInv
      <4> QED BY <4>1, <4>2
    <3> QED BY <2>1, <2>2, <3>1, <3>2 DEF LifeInv
  <2> QED BY <1>5, <2>3, <2>4, AppendCases
<1>6. ASSUME NEW t \in Term, SetAndPersistTerm(t) PROVE LifeInv'
  <2>1. stage = "running" /\ UNCHANGED <<lives, entriesDb>>
        BY <1>6 DEF SetAndPersistTerm, Idle
  <2>2. CASE Ends
        BY <2>1, <2>2 DEF LifeInv, Ends
  <2>3. CASE currentTerm' = t /\ UNCHANGED <<stage, entries, pending>>
        BY <2>1, <2>3 DEF LifeInv
  <2> QED BY <1>6, <2>2, <2>3 DEF SetAndPersistTerm
<1>7. CASE BecomeCandidate
      BY <1>7 DEF LifeInv, BecomeCandidate, Idle, Term
<1>8. CASE UNCHANGED vars
      BY <1>8 DEF LifeInv, vars
<1>9. CASE PushBack
  <2>1. /\ entries' \in Seq(Entry) /\ pending' = <<>> /\ stage = "running"
        /\ UNCHANGED <<stage, lives, currentTerm, entriesDb>>
        BY <1>9, PushBackKeepsLog
  <2>2. pending' \in Seq(Entry)
        BY <2>1
  <2> QED BY <2>1, <2>2 DEF LifeInv
<1> QED BY <1>1, <1>2, <1>3, <1>4, <1>5, <1>6, <1>7, <1>8, <1>9 DEF Next

-----------------------------------------------------------------------------
(* Terms *)

\* The terms of a log are terms.
LEMMA EntryTerms ==
    ASSUME NEW log \in Seq(Entry) PROVE \A i \in 1..Len(log) : log[i].term \in Term
<1>1. \A i \in 1..Len(log) : log[i] \in Entry
      OBVIOUS
<1>2. \A e \in Entry : e.term \in Term
      BY DEF Entry
<1> QED BY <1>1, <1>2

LEMMA TermsStep == LifeInv /\ TermsOrdered /\ [Next]_vars => TermsOrdered'
<1> SUFFICES ASSUME LifeInv, TermsOrdered, [Next]_vars PROVE TermsOrdered'
    OBVIOUS
<1> USE StorageBounds
<1>1. CASE Launch
  <2>1. Log' = <<>> /\ Len(<<>>) = 0
        BY <1>1 DEF LifeInv, Launch, Log
  <2> QED BY <2>1 DEF TermsOrdered
<1>2. CASE Crash
      BY <1>2 DEF TermsOrdered, Crash, Ends
<1>3. CASE LoadEntries
      BY <1>3 DEF TermsOrdered, LoadEntries
<1>4. CASE MainReturns
      BY <1>4 DEF TermsOrdered, MainReturns
<1>5. ASSUME NEW n \in Node, AppendCfgLog(n) PROVE TermsOrdered'
  <2> DEFINE e == [node |-> n, term |-> currentTerm]
  <2>1. stage = "running" /\ pending = <<>> /\ UNCHANGED <<stage, entries, currentTerm>>
        BY <1>5, AppendCases
  <2>2. Log \in Seq(Entry) /\ Len(Log) \in Nat /\ currentTerm \in Term
        BY <2>1, LogTyped DEF LifeInv
  <2>3. CASE UNCHANGED pending
        BY <2>1, <2>3 DEF TermsOrdered, Log
  <2>4. ASSUME NEW c \in BOOLEAN, Written(e, c) PROVE TermsOrdered'
    <3> HIDE DEF e
    <3>0. Log' = Append(Log, e)
          BY <2>1, <2>4, LogGrows
    <3> HIDE DEF Log
    <3>1. \A i \in 1..Len(Log') :
              Log'[i] = IF i = Len(Log) + 1 THEN e ELSE Log[i]
          BY <2>2, <3>0
    <3>2. Len(Log') = Len(Log) + 1
          BY <2>2, <3>0
    <3>3. \A i \in 1..Len(Log) : Log[i].term <= currentTerm
          BY <2>1 DEF TermsOrdered
    <3>4. e.term = currentTerm /\ currentTerm <= currentTerm
          BY <2>2 DEF Term, e
    <3>5. \A i, j \in 1..Len(Log) : i < j => Log[i].term <= Log[j].term
          BY <2>1 DEF TermsOrdered
    <3>6. \A i \in 1..Len(Log') : Log'[i].term <= currentTerm
          BY <3>1, <3>2, <3>3, <3>4, <2>2
    <3>7. \A i, j \in 1..Len(Log') : i < j => Log'[i].term <= Log'[j].term
          BY <3>1, <3>2, <3>3, <3>4, <3>5, <2>2
    <3> QED BY <2>1, <3>6, <3>7 DEF TermsOrdered
  <2> QED BY <1>5, <2>3, <2>4, AppendCases
<1>6. ASSUME NEW t \in Term, SetAndPersistTerm(t) PROVE TermsOrdered'
  <2>1. CASE Ends
        BY <2>1 DEF TermsOrdered, Ends
  <2>2. CASE currentTerm' = t /\ UNCHANGED <<stage, entries, pending>>
    <3>1. stage = "running" /\ t > currentTerm
          BY <1>6 DEF SetAndPersistTerm, Idle, IsNewTerm
    <3>2. Log \in Seq(Entry) /\ currentTerm \in Term /\ Log' = Log
          BY <2>2, <3>1, LogTyped DEF LifeInv, Log
    <3>3. \A i \in 1..Len(Log) : Log[i].term \in Term
          BY <3>2, EntryTerms
    <3> HIDE DEF Log
    <3> QED BY <2>2, <3>1, <3>2, <3>3 DEF TermsOrdered, Term
  <2> QED BY <1>6, <2>1, <2>2 DEF SetAndPersistTerm
<1>7. CASE BecomeCandidate
  <2>1. /\ stage = "running" /\ UNCHANGED <<stage, entries, pending>>
        /\ currentTerm' = currentTerm + 1
        BY <1>7 DEF BecomeCandidate, Idle
  <2>2. Log \in Seq(Entry) /\ currentTerm \in Term /\ Log' = Log
        BY <2>1, LogTyped DEF LifeInv, Log
  <2>3. \A i \in 1..Len(Log) : Log[i].term \in Term
        BY <2>2, EntryTerms
  <2> HIDE DEF Log
  <2>4. /\ \A i \in 1..Len(Log) : Log[i].term <= currentTerm
        /\ \A i, j \in 1..Len(Log) : i < j => Log[i].term <= Log[j].term
        BY <2>1 DEF TermsOrdered
  <2> QED BY <2>1, <2>2, <2>3, <2>4 DEF TermsOrdered, Term
<1>8. CASE UNCHANGED vars
      BY <1>8 DEF TermsOrdered, Log, vars
<1>9. CASE PushBack
      BY <1>9, PushBackKeepsLog DEF TermsOrdered
<1> QED BY <1>1, <1>2, <1>3, <1>4, <1>5, <1>6, <1>7, <1>8, <1>9 DEF Next

\* Within a life the terms of the log never decrease and the server's own term
\* is not behind them, whatever terms messages and time-outs bring
\* (BecomeCandidate, SetAndPersistTerm, AppendCfgLog).
THEOREM TermsStayOrdered == Spec => []TermsOrdered
<1>1. Init => LifeInv /\ TermsOrdered
      BY LifeInit DEF Init, TermsOrdered
<1>2. LifeInv /\ TermsOrdered /\ [Next]_vars => (LifeInv /\ TermsOrdered)'
      BY LifeStep, TermsStep
<1> QED BY <1>1, <1>2, PTL DEF Spec

-----------------------------------------------------------------------------
(* Memory and disk *)

LEMMA MemoryStep == LifeInv /\ MemoryIsOnDisk /\ [Next]_vars => MemoryIsOnDisk'
<1> SUFFICES ASSUME LifeInv, MemoryIsOnDisk, [Next]_vars PROVE MemoryIsOnDisk'
    OBVIOUS
<1> USE StorageBounds
<1>1. CASE Launch
  <2>1. /\ stage = "off" /\ lives' = lives + 1 /\ UNCHANGED <<entries, pending, entriesDb>>
        BY <1>1 DEF Launch
  <2>2. Log' = <<>> /\ Len(<<>>) = 0 /\ lives \in Nat
        BY <2>1 DEF LifeInv, Log
  <2>3. \A i \in 0..(MaxLog - 1) :
            Key(i) \in DOMAIN entriesDb => entriesDb[Key(i)].life < lives + 1
        BY DEF LifeInv
  <2> QED BY <2>1, <2>2, <2>3 DEF MemoryIsOnDisk
<1>2. CASE Crash
      BY <1>2 DEF MemoryIsOnDisk, Crash, Ends
<1>3. CASE LoadEntries
      BY <1>3 DEF MemoryIsOnDisk, LoadEntries
<1>4. CASE MainReturns
      BY <1>4 DEF MemoryIsOnDisk, MainReturns
<1>5. ASSUME NEW n \in Node, AppendCfgLog(n) PROVE MemoryIsOnDisk'
  <2> DEFINE e == [node |-> n, term |-> currentTerm]
  <2>1. /\ stage = "running" /\ pending = <<>> /\ Len(entries) < MaxLog
        /\ UNCHANGED <<stage, lives, entries>>
        BY <1>5, AppendCases
  <2>2. Log = entries /\ Log \in Seq(Entry) /\ Len(Log) \in 0..MaxLog
        BY <2>1, LogTyped, LogInMemory DEF LifeInv
  <2>3. CASE UNCHANGED <<pending, entriesDb>>
        BY <2>1, <2>3 DEF MemoryIsOnDisk, Log
  <2>4. ASSUME NEW c \in BOOLEAN, Written(e, c) PROVE MemoryIsOnDisk'
    <3>a. /\ DOMAIN entriesDb' = DOMAIN entriesDb \cup {Key(Index)}
          /\ entriesDb'[Key(Index)] = [entry |-> e, clean |-> c, life |-> lives]
          /\ \A x \in DOMAIN entriesDb : x # Key(Index) => entriesDb'[x] = entriesDb[x]
      <4> HIDE DEF e
      <4> QED BY <2>4, WrittenFacts, Zenon
    <3>1. Log' = Append(Log, e) /\ Index = Len(Log)
      <4> HIDE DEF e
      <4> QED BY <2>1, <2>2, <2>4, LogGrows DEF Index
    <3> HIDE DEF Log, Index
    <3>2. /\ Len(Log') = Len(Log) + 1
          /\ Log'[Len(Log) + 1] = e
          /\ \A i \in 1..Len(Log) : Log'[i] = Log[i]
      <4> HIDE DEF e
      <4> QED BY <2>2, <3>1
    <3>3. ASSUME NEW i \in 0..(MaxLog - 1)
          PROVE  IF i < Len(Log')
                 THEN Key(i) \in DOMAIN entriesDb' /\ entriesDb'[Key(i)].entry = Log'[i + 1]
                 ELSE Key(i) \in DOMAIN entriesDb' => entriesDb'[Key(i)].life < lives
      <4>1. CASE i = Len(Log)
        <5>1. Key(i) \in DOMAIN entriesDb' /\ entriesDb'[Key(i)].entry = e
              BY <3>a, <3>1, <4>1
        <5> QED BY <2>2, <3>2, <4>1, <5>1
      <4>2. CASE i # Len(Log)
        <5>1. Key(i) # Key(Index)
              BY <2>2, <3>1, <4>2, KeysDiffer
        <5>2. /\ Key(i) \in DOMAIN entriesDb' <=> Key(i) \in DOMAIN entriesDb
              /\ Key(i) \in DOMAIN entriesDb => entriesDb'[Key(i)] = entriesDb[Key(i)]
              BY <3>a, <5>1
        <5>3. IF i < Len(Log)
              THEN Key(i) \in DOMAIN entriesDb /\ entriesDb[Key(i)].entry = Log[i + 1]
              ELSE Key(i) \in DOMAIN entriesDb => entriesDb[Key(i)].life < lives
              BY <2>1 DEF MemoryIsOnDisk
        <5>4. CASE i < Len(Log)
          <6>1. Log'[i + 1] = Log[i + 1]
                BY <2>2, <3>2, <5>4
          <6>2. i < Len(Log')
                BY <2>2, <3>2, <5>4
          <6> QED BY <5>2, <5>3, <5>4, <6>1, <6>2
        <5>5. CASE ~(i < Len(Log))
          <6>1. ~(i < Len(Log'))
                BY <2>2, <3>2, <4>2, <5>5
          <6> QED BY <5>2, <5>3, <5>5, <6>1
        <5> QED BY <5>4, <5>5
      <4> QED BY <4>1, <4>2
    <3> QED BY <2>1, <3>3 DEF MemoryIsOnDisk
  <2> QED BY <1>5, <2>3, <2>4, AppendCases
<1>6. ASSUME NEW t \in Term, SetAndPersistTerm(t) PROVE MemoryIsOnDisk'
      BY <1>6 DEF MemoryIsOnDisk, SetAndPersistTerm, Ends, Log
<1>7. CASE BecomeCandidate
      BY <1>7 DEF MemoryIsOnDisk, BecomeCandidate, Idle, Log
<1>8. CASE UNCHANGED vars
      BY <1>8 DEF MemoryIsOnDisk, Log, vars
<1>9. CASE PushBack
      BY <1>9, PushBackKeepsLog DEF MemoryIsOnDisk
<1> QED BY <1>1, <1>2, <1>3, <1>4, <1>5, <1>6, <1>7, <1>8, <1>9 DEF Next

\* While a process runs, every entry it has in memory is the one on disk at its
\* index, and whatever lies behind them on disk is older than the process
\* (AppendCfgLog appends only what was written).
THEOREM DiskHoldsMemory == Spec => []MemoryIsOnDisk
<1>1. Init => LifeInv /\ MemoryIsOnDisk
      BY LifeInit DEF Init, MemoryIsOnDisk
<1>2. LifeInv /\ MemoryIsOnDisk /\ [Next]_vars => (LifeInv /\ MemoryIsOnDisk)'
      BY LifeStep, MemoryStep
<1> QED BY <1>1, <1>2, PTL DEF Spec

-----------------------------------------------------------------------------
(* No holes *)

LEMMA KeysStep ==
    LifeInv /\ MemoryIsOnDisk /\ KeysContiguous /\ [Next]_vars => KeysContiguous'
<1> SUFFICES ASSUME LifeInv, MemoryIsOnDisk, KeysContiguous, [Next]_vars
             PROVE  KeysContiguous'
    OBVIOUS
<1> USE StorageBounds
<1>1. CASE UNCHANGED entriesDb
      BY <1>1 DEF KeysContiguous
<1>2. ASSUME NEW n \in Node, AppendCfgLog(n) PROVE KeysContiguous'
  <2> DEFINE e == [node |-> n, term |-> currentTerm]
             len == Len(entries)
  <2>1. stage = "running" /\ len < MaxLog /\ len \in 0..MaxLog
    <3>1. stage = "running" /\ len < MaxLog
          BY <1>2, AppendCases
    <3>2. len \in Nat
          BY <3>1 DEF LifeInv
    <3> QED BY <3>1, <3>2
  <2>2. PICK m \in 0..MaxLog : DOMAIN entriesDb = {Key(i) : i \in 0..(m - 1)}
        BY DEF KeysContiguous
  <2>3. len <= m
    <3>1. SUFFICES ASSUME len > m PROVE FALSE
          BY <2>1
    <3>2. m \in 0..(MaxLog - 1) /\ m < len
          BY <2>1, <3>1
    <3>3. Key(m) \in DOMAIN entriesDb
      <4>1. Log = entries
            BY <1>2, <2>1, AppendCases, LogInMemory DEF LifeInv
      <4> QED BY <2>1, <3>2, <4>1 DEF MemoryIsOnDisk
    <3>4. PICK i \in 0..(m - 1) : Key(m) = Key(i)
          BY <2>2, <3>3
    <3> QED BY <3>2, <3>4, KeysDiffer
  <2>4. CASE UNCHANGED entriesDb
        BY <2>4, <1>1
  <2>5. ASSUME NEW c \in BOOLEAN, Written(e, c) PROVE KeysContiguous'
    <3>1. DOMAIN entriesDb' = DOMAIN entriesDb \cup {Key(len)}
          BY <2>5, WrittenFacts DEF Index
    <3>2. CASE len < m
      <4>1. DOMAIN entriesDb' = {Key(i) : i \in 0..(m - 1)}
            BY <2>1, <2>2, <3>1, <3>2
      <4> QED BY <4>1 DEF KeysContiguous
    <3>3. CASE len = m
      <4>1. 0..((m + 1) - 1) = 0..(m - 1) \cup {m}
            OBVIOUS
      <4>2. DOMAIN entriesDb' = {Key(i) : i \in 0..((m + 1) - 1)}
            BY <2>2, <3>1, <3>3, <4>1
      <4>3. m + 1 \in 0..MaxLog
            BY <2>1, <3>3
      <4> QED BY <4>2, <4>3 DEF KeysContiguous
    <3> QED BY <2>1, <2>3, <3>2, <3>3
  <2> QED BY <1>2, <2>4, <2>5, AppendCases
<1>3. ASSUME NEW t \in Term, SetAndPersistTerm(t) PROVE UNCHANGED entriesDb
      BY <1>3 DEF SetAndPersistTerm
<1> QED BY <1>1, <1>2, <1>3
        DEF Next, Launch, Crash, LoadEntries, MainReturns, PushBack, BecomeCandidate, vars

\* The keys of entries_db are the indexes from 0 on without a hole, however
\* many writes failed and lives ended, so that LoadEntries, which counts the
\* entries it meets, gives each one its own index.
THEOREM NoHolesInStore == Spec => []KeysContiguous
<1>1. Init => KeysContiguous
  <2>1. ASSUME Init PROVE DOMAIN entriesDb = {Key(i) : i \in 0..(0 - 1)} /\ 0 \in 0..MaxLog
        BY <2>1, StorageBounds DEF Init
  <2> QED BY <2>1 DEF KeysContiguous
<1>2. Init => LifeInv /\ MemoryIsOnDisk
      BY LifeInit DEF Init, MemoryIsOnDisk
<1>3. LifeInv /\ MemoryIsOnDisk /\ KeysContiguous /\ [Next]_vars
          => (LifeInv /\ MemoryIsOnDisk /\ KeysContiguous)'
      BY LifeStep, MemoryStep, KeysStep
<1> QED BY <1>1, <1>2, <1>3, PTL DEF Spec

-----------------------------------------------------------------------------
(* The order of an iterator *)

KeysTo(n) == {Key(i) : i \in 0..(n - 1)}

LEMMA KeysCounted ==
    ASSUME NEW n \in Nat
    PROVE  IsFiniteSet(KeysTo(n)) /\ Cardinality(KeysTo(n)) = n
<1> DEFINE S == 0..(n - 1)
           T == KeysTo(n)
           f == [i \in S |-> Key(i)]
<1>1. IsFiniteSet(S) /\ Cardinality(S) = n
  <2>1. 0 \in Int /\ n - 1 \in Int
        OBVIOUS
  <2>2. IsFiniteSet(0..(n - 1)) /\ Cardinality(0..(n - 1)) = IF 0 > n - 1 THEN 0 ELSE (n - 1) - 0 + 1
        BY ONLY <2>1, FS_Interval
  <2> QED BY <2>2
<1>2. f \in [S -> T] /\ \A i \in S : f[i] = Key(i)
      BY DEF KeysTo
<1>3. \A i, j \in S : Key(i) = Key(j) => i = j
      BY KeysDiffer
<1>4. \A y \in T : \E i \in S : Key(i) = y
      BY DEF KeysTo
<1> HIDE DEF f, S, T
<1>5. f \in Bijection(S, T)
  <2>1. DOMAIN f = S
        BY <1>2
  <2>2. IsInjective(f)
        BY <1>2, <1>3, <2>1 DEF IsInjective
  <2>3. \A y \in T : \E i \in S : f[i] = y
        BY <1>2, <1>4
  <2> QED BY <1>2, <2>2, <2>3 DEF Bijection, Injection, Surjection
<1>6. ExistsBijection(S, T)
      BY <1>5 DEF ExistsBijection
<1>7. IsFiniteSet(T) /\ Cardinality(T) = Cardinality(S)
      BY <1>1, <1>6, FS_Bijection
<1> QED BY <1>1, <1>7 DEF T

\* An iterator meets the entry of index j - 1 at place j.
LEMMA IteratedInOrder ==
    ASSUME NEW db, NEW n \in Nat, DOMAIN db = KeysTo(n)
    PROVE  /\ DOMAIN Iterated(db) = 1..n
           /\ \A j \in 1..n : Iterated(db)[j] = db[Key(j - 1)]
<1>1. Cardinality(DOMAIN db) = n
      BY KeysCounted
<1>2. \A i \in 0..(n - 1) : Rank(db, Key(i)) = i
  <2> SUFFICES ASSUME NEW i \in 0..(n - 1) PROVE Rank(db, Key(i)) = i
      OBVIOUS
  <2>1. i \in Nat /\ i <= n - 1
        OBVIOUS
  <2>2. {x \in KeysTo(n) : Number(x) < Number(Key(i))} = KeysTo(i)
    <3>1. \A h \in 0..(n - 1) : Number(Key(h)) = h
          BY KeysSpell
    <3>2. ASSUME NEW x \in KeysTo(n), Number(x) < Number(Key(i)) PROVE x \in KeysTo(i)
      <4>1. PICK h \in 0..(n - 1) : x = Key(h)
            BY DEF KeysTo
      <4>2. h < i
            BY <3>1, <3>2, <4>1
      <4>3. h \in 0..(i - 1)
            BY <2>1, <4>2
      <4> QED BY <4>1, <4>3 DEF KeysTo
    <3>3. ASSUME NEW x \in KeysTo(i) PROVE x \in KeysTo(n) /\ Number(x) < Number(Key(i))
      <4>1. PICK h \in 0..(i - 1) : x = Key(h)
            BY DEF KeysTo
      <4>2. h \in 0..(n - 1) /\ h < i
            BY <2>1
      <4> QED BY <3>1, <4>1, <4>2 DEF KeysTo
    <3> QED BY <3>2, <3>3
  <2>3. Rank(db, Key(i)) = Cardinality(KeysTo(i))
        BY <2>2 DEF Rank, Compare
  <2> QED BY <2>1, <2>3, KeysCounted
<1>3. ASSUME NEW j \in 1..n
      PROVE  KeyAt(db, j) = Key(j - 1)
  <2> DEFINE h == j - 1
             k == CHOOSE x \in DOMAIN db : Rank(db, x) = h
  <2>1. h \in 0..(n - 1)
        OBVIOUS
  <2>2. \E x \in DOMAIN db : Rank(db, x) = h
    <3> HIDE DEF h
    <3>1. Key(h) \in DOMAIN db /\ Rank(db, Key(h)) = h
          BY <1>2, <2>1 DEF KeysTo
    <3> QED BY <3>1
  <2>3. k \in DOMAIN db /\ Rank(db, k) = h
        BY <2>2
  <2> HIDE DEF h, k
  <2>4. PICK i \in 0..(n - 1) : k = Key(i)
        BY <2>3 DEF KeysTo
  <2>5. i = h
        BY <1>2, <2>3, <2>4
  <2> QED BY <2>4, <2>5 DEF h, k, KeyAt
<1>4. DOMAIN Iterated(db) = 1..n
      BY <1>1 DEF Iterated
<1>5. \A j \in 1..n : Iterated(db)[j] = db[KeyAt(db, j)]
      BY <1>1 DEF Iterated
<1>6. \A j \in 1..n : Iterated(db)[j] = db[Key(j - 1)]
      BY <1>3, <1>5
<1> QED BY <1>4, <1>6

-----------------------------------------------------------------------------
(* What "restart" loads *)

\* The log of the last process that was launched with start or join is still
\* on disk once it has ended, and after a first life nothing else is.
LastInv ==
    /\ stage # "running" =>
          \A i \in 1..Len(lastLog) : /\ Key(i - 1) \in DOMAIN entriesDb
                                     /\ entriesDb[Key(i - 1)].entry = lastLog[i]
    /\ lives = 0 => stage = "off" /\ DOMAIN entriesDb = {}
    /\ lives = 1 => DOMAIN entriesDb =
                       KeysTo(IF stage = "running" THEN Len(Log) ELSE Len(lastLog))

\* A restarted process has every stored entry at its own index.
LoadInv ==
    stage = "restarted" =>
        /\ entries \in Seq(Entry \cup {Garbled})
        /\ DOMAIN entriesDb = KeysTo(Len(entries))
        /\ \A j \in 1..Len(entries) :
              /\ entries[j] = Read(entriesDb[Key(j - 1)])
              /\ entries[j] # Garbled => entries[j].node \in proxys

RestoreInv ==
    TypeOK /\ LifeInv /\ MemoryIsOnDisk /\ KeysContiguous /\ LastInv /\ LoadInv

\* Nothing that was stored looks garbled.
LEMMA GarbledIsNoEntry == Garbled \notin Entry
<1>1. Garbled.term = -1
      BY DEF Garbled
<1>2. \A e \in Entry : e.term \in 0..MaxTerm
      BY DEF Entry, Term
<1>3. -1 \notin 0..MaxTerm
      BY StorageBounds
<1> QED BY <1>1, <1>2, <1>3

LEMMA StoredFields ==
    ASSUME NEW v \in Stored
    PROVE  v.entry \in Entry /\ v.entry.node \in Node /\ v.clean \in BOOLEAN
<1>1. v.entry \in Entry /\ v.clean \in BOOLEAN
      BY DEF Stored
<1>2. \A e \in Entry : e.node \in Node
      BY DEF Entry
<1> QED BY <1>1, <1>2

LEMMA LoadFacts ==
    ASSUME TypeOK, KeysContiguous, LoadEntries
    PROVE  /\ entries' \in Seq(Entry \cup {Garbled})
           /\ Len(entries') \in 0..MaxLog
           /\ DOMAIN entriesDb = KeysTo(Len(entries'))
           /\ \A j \in 1..Len(entries') :
                 /\ entries'[j] = Read(entriesDb[Key(j - 1)])
                 /\ entries'[j] # Garbled => entries'[j].node \in proxys'
           /\ proxys' \subseteq Node
<1> USE StorageBounds
<1>1. PICK n \in 0..MaxLog : DOMAIN entriesDb = KeysTo(n)
      BY DEF KeysContiguous, KeysTo
<1> DEFINE vs    == Iterated(entriesDb)
           log   == [i \in DOMAIN vs |-> Read(vs[i])]
           named == {log[i].node : i \in {j \in DOMAIN log : log[j] # Garbled}}
<1>2. /\ entries' = log
      /\ \E more \in SUBSET Node : proxys' = named \cup more
      BY DEF LoadEntries
<1>3. DOMAIN vs = 1..n /\ \A j \in 1..n : vs[j] = entriesDb[Key(j - 1)]
      BY <1>1, IteratedInOrder
<1>4. DOMAIN log = 1..n /\ \A j \in 1..n : log[j] = Read(entriesDb[Key(j - 1)])
      BY <1>3
<1>5. ASSUME NEW j \in 1..n
      PROVE  /\ Read(entriesDb[Key(j - 1)]) \in Entry \cup {Garbled}
             /\ Read(entriesDb[Key(j - 1)]) # Garbled => Read(entriesDb[Key(j - 1)]).node \in Node
  <2>1. Key(j - 1) \in DOMAIN entriesDb
    <3>1. j - 1 \in 0..(n - 1)
          OBVIOUS
    <3> QED BY <1>1, <3>1 DEF KeysTo
  <2>2. entriesDb[Key(j - 1)] \in Stored
        BY <2>1 DEF TypeOK
  <2> DEFINE v == entriesDb[Key(j - 1)]
  <2> HIDE DEF v
  <2>3. v \in Stored
        BY <2>2 DEF v
  <2>4. v.entry \in Entry /\ v.entry.node \in Node
        BY <2>3, StoredFields
  <2>5. Read(v) = v.entry \/ Read(v) = Garbled
        BY DEF Read
  <2> QED BY <2>4, <2>5 DEF v
<1> HIDE DEF log
<1>6. log \in Seq(Entry \cup {Garbled}) /\ Len(log) = n
  <2>1. log \in [1..n -> Entry \cup {Garbled}]
    <3>1. \A j \in 1..n : log[j] \in Entry \cup {Garbled}
          BY <1>4, <1>5
    <3>2. log = [j \in 1..n |-> log[j]]
      <4>1. log = [j \in DOMAIN log |-> log[j]]
            BY DEF log
      <4> QED BY <1>4, <4>1
    <3> QED BY <3>1, <3>2
  <2>2. n \in Nat
        OBVIOUS
  <2> QED BY <2>1, <2>2
<1>7. \A j \in 1..n : log[j] # Garbled => log[j].node \in proxys'
      BY <1>2, <1>4
<1>8. proxys' \subseteq Node
  <2>1. named \subseteq Node
        BY <1>4, <1>5
  <2> QED BY <1>2, <2>1
<1> QED BY <1>1, <1>2, <1>4, <1>6, <1>7, <1>8

LEMMA RestoreInit == Init => RestoreInv
<1> SUFFICES ASSUME Init PROVE RestoreInv
    OBVIOUS
<1> USE StorageBounds
<1>1. DOMAIN entriesDb = {} /\ entries = <<>> /\ pending = <<>> /\ lastLog = <<>>
      BY DEF Init
<1>2. KeysContiguous
  <2>1. DOMAIN entriesDb = {Key(i) : i \in 0..(0 - 1)} /\ 0 \in 0..MaxLog
        BY <1>1
  <2> QED BY <2>1 DEF KeysContiguous
<1>3. LifeInv /\ MemoryIsOnDisk
      BY LifeInit DEF Init, MemoryIsOnDisk
<1>4. LastInv /\ LoadInv
      BY <1>1 DEF Init, LastInv, LoadInv
<1>5. TypeOK
  <2>1. Garbled \notin Range(entries)
        BY <1>1 DEF Range
  <2>2. Len(Log) = 0 /\ Len(pending) = 0
        BY <1>1 DEF Log
  <2> QED BY <1>1, <2>1, <2>2 DEF Init, TypeOK, Term
<1> QED BY <1>2, <1>3, <1>4, <1>5 DEF RestoreInv

\* A log of entries holds nothing garbled.
LEMMA LogNotGarbled ==
    ASSUME NEW log \in Seq(Entry) PROVE log \in Seq(Entry \cup {Garbled}) /\ Garbled \notin Range(log)
<1>1. \A i \in 1..Len(log) : log[i] \in Entry
      OBVIOUS
<1>2. DOMAIN log = 1..Len(log)
      OBVIOUS
<1>3. Garbled \notin Range(log)
      BY <1>1, <1>2, GarbledIsNoEntry DEF Range
<1>4. log \in Seq(Entry \cup {Garbled})
  <2> DEFINE E == Entry \cup {Garbled}
  <2>1. Entry \subseteq E
        OBVIOUS
  <2> HIDE DEF E
  <2>2. log \in Seq(E)
        BY <2>1
  <2> QED BY <2>2 DEF E
<1> QED BY <1>3, <1>4

LEMMA TypeStep == RestoreInv /\ [Next]_vars => TypeOK'
<1> SUFFICES ASSUME RestoreInv, [Next]_vars PROVE TypeOK'
    OBVIOUS
<1> USE StorageBounds
<1>a. /\ TypeOK /\ LifeInv /\ KeysContiguous
      /\ lives = 0 => stage = "off"
      BY DEF RestoreInv, LastInv
<1>e. <<>> \in Seq(Entry \cup {Garbled}) /\ Garbled \notin Range(<<>>) /\ Len(<<>>) = 0
  <2>1. Range(<<>>) = {}
        BY DEF Range
  <2> QED BY <2>1
<1>l. ASSUME entries' = <<>>, pending' = <<>> PROVE Len(Log') = 0 /\ Len(pending') = 0
      BY <1>l DEF Log
<1>1. CASE Launch
      BY <1>1, <1>a, <1>e, <1>l DEF TypeOK, LifeInv, Launch, Log
<1>t. ASSUME Ends, UNCHANGED <<lives, entriesDb>>, stateDb' \in Term \cup {-1}, stage = "running"
      PROVE  TypeOK'
  <2>1. Log \in Seq(Entry)
        BY <1>a, <1>t, LogTyped
  <2>2. lastLog' \in Seq(Entry) /\ Len(lastLog') <= MaxLog
        BY <2>1, <1>a, <1>t DEF Ends, TypeOK
  <2>3. entries' = <<>> /\ pending' = <<>>
        BY <1>t DEF Ends
  <2>4. Len(Log') = 0 /\ Len(pending') = 0 /\ pending' \in Seq(Entry)
        BY <2>3, <1>l
  <2> HIDE DEF Log
  <2> QED BY <2>2, <2>4, <1>a, <1>e, <1>t DEF Ends, TypeOK, Term
<1>2. CASE Crash
      BY <1>2, <1>a, <1>t DEF Crash, TypeOK
<1>3. CASE LoadEntries
  <2>1. /\ stage' = "restarted"
        /\ pending = <<>>
        /\ UNCHANGED <<lives, pending, currentTerm, stateDb, entriesDb, lastLog>>
        BY <1>3, <1>a DEF LoadEntries, LifeInv
  <2>2. /\ entries' \in Seq(Entry \cup {Garbled}) /\ Len(entries') \in 0..MaxLog
        /\ proxys' \subseteq Node
        BY <1>3, <1>a, LoadFacts
  <2>3. Log' = entries'
        BY <2>1, <2>2 DEF Log
  <2> HIDE DEF Log
  <2> QED BY <2>1, <2>2, <2>3, <1>a DEF TypeOK
<1>4. CASE MainReturns
      BY <1>4, <1>a, <1>e, <1>l DEF TypeOK, MainReturns, LifeInv
<1>5. ASSUME NEW n \in Node, AppendCfgLog(n) PROVE TypeOK'
  <2> DEFINE e == [node |-> n, term |-> currentTerm]
  <2>1. /\ stage = "running" /\ pending = <<>> /\ Len(entries) < MaxLog
        /\ UNCHANGED <<stage, lives, entries, currentTerm, proxys, stateDb, lastLog>>
        BY <1>5, AppendCases
  <2>2. entries \in Seq(Entry) /\ currentTerm \in Term
        BY <2>1, <1>a DEF LifeInv
  <2>3. CASE UNCHANGED <<pending, entriesDb>>
        BY <2>1, <2>3, <1>a DEF TypeOK, Log
  <2>4. ASSUME NEW c \in BOOLEAN, Written(e, c) PROVE TypeOK'
    <3>a. /\ DOMAIN entriesDb' = DOMAIN entriesDb \cup {Key(Index)}
          /\ entriesDb'[Key(Index)] = [entry |-> e, clean |-> c, life |-> lives]
          /\ \A x \in DOMAIN entriesDb : x # Key(Index) => entriesDb'[x] = entriesDb[x]
      <4> HIDE DEF e
      <4> QED BY <2>4, WrittenFacts, Zenon
    <3>b. e \in Entry
          BY <2>2 DEF Entry
    <3>c. [entry |-> e, clean |-> c, life |-> lives] \in Stored
      <4> HIDE DEF e
      <4>1. lives \in 1..MaxLives
            BY <2>1, <1>a DEF TypeOK
      <4> QED BY <3>b, <4>1 DEF Stored
    <3> HIDE DEF e
    <3>1. pending' = <<e>> /\ Log' = Append(entries, e)
          BY <2>1, <2>4, <1>a, LogGrows DEF Written
    <3>2. pending' \in Seq(Entry) /\ Len(pending') = 1 /\ Len(Log') = Len(entries) + 1
      <4> HIDE DEF Log
      <4> QED BY <2>2, <3>b, <3>1
    <3>3. entries' \in Seq(Entry \cup {Garbled}) /\ Garbled \notin Range(entries')
          BY <2>1, <2>2, LogNotGarbled
    <3>4. Len(Log') <= MaxLog
      <4>1. Len(entries) \in Nat
            BY <2>2
      <4> QED BY <2>1, <3>2, <4>1
    <3>5. DOMAIN entriesDb' \subseteq {Key(i) : i \in 0..(MaxLog - 1)}
      <4>1. Index \in 0..(MaxLog - 1)
        <5>1. Len(entries) \in Nat
              BY <2>2
        <5> QED BY <2>1, <5>1 DEF Index
      <4>2. DOMAIN entriesDb \subseteq {Key(i) : i \in 0..(MaxLog - 1)}
            BY <1>a DEF TypeOK
      <4> HIDE DEF Index
      <4>3. Key(Index) \in {Key(i) : i \in 0..(MaxLog - 1)}
            BY <4>1
      <4> QED BY <3>a, <4>2, <4>3
    <3>6. \A k \in DOMAIN entriesDb' : entriesDb'[k] \in Stored
      <4>1. \A k \in DOMAIN entriesDb : entriesDb[k] \in Stored
            BY <1>a DEF TypeOK
      <4> QED BY <3>a, <3>c, <4>1
    <3> HIDE DEF Log
    <3> QED BY <2>1, <3>2, <3>3, <3>4, <3>5, <3>6, <1>a DEF TypeOK
  <2> QED BY <1>5, <2>3, <2>4, AppendCases
<1>6. ASSUME NEW t \in Term, SetAndPersistTerm(t) PROVE TypeOK'
  <2>1. CASE Ends /\ stateDb' \in {stateDb, t}
        BY <1>6, <2>1, <1>a, <1>t DEF SetAndPersistTerm, Idle, TypeOK
  <2>2. CASE stateDb' = t /\ currentTerm' = t /\ UNCHANGED <<stage, entries, pending, proxys, lastLog>>
        BY <1>6, <2>2, <1>a DEF SetAndPersistTerm, TypeOK, Log
  <2> QED BY <1>6, <2>1, <2>2 DEF SetAndPersistTerm
<1>7. CASE BecomeCandidate
      BY <1>7, <1>a DEF TypeOK, BecomeCandidate, Idle, Log, Term
<1>8. CASE UNCHANGED vars
      BY <1>8, <1>a DEF TypeOK, Log, vars
<1>9. CASE PushBack
  <2>1. /\ Log' = Log /\ entries' = Log /\ pending' = <<>> /\ Log \in Seq(Entry)
        /\ stage = "running"
        /\ UNCHANGED <<stage, lives, currentTerm, proxys, stateDb, entriesDb, lastLog>>
        BY <1>9, <1>a, PushBackKeepsLog
  <2>2. entries' \in Seq(Entry \cup {Garbled}) /\ Garbled \notin Range(entries')
        BY <2>1, LogNotGarbled
  <2>3. pending' \in Seq(Entry) /\ Len(pending') = 0
        BY <2>1
  <2> HIDE DEF Log
  <2> QED BY <2>1, <2>2, <2>3, <1>a DEF TypeOK
<1> QED BY <1>1, <1>2, <1>3, <1>4, <1>5, <1>6, <1>7, <1>8, <1>9 DEF Next

LEMMA LastStep == RestoreInv /\ [Next]_vars => LastInv'
<1> SUFFICES ASSUME RestoreInv, [Next]_vars PROVE LastInv'
    OBVIOUS
<1> USE StorageBounds
<1>a. TypeOK /\ LifeInv /\ MemoryIsOnDisk /\ LastInv
      BY DEF RestoreInv
<1>b. lives \in Nat /\ stage \in {"off", "running", "restarted"}
      BY <1>a DEF LifeInv
<1>1. CASE Launch
  <2>1. /\ stage = "off" /\ stage' = "running" /\ lives' = lives + 1
        /\ UNCHANGED <<entries, pending, entriesDb>>
        BY <1>1 DEF Launch
  <2>2. Log' = <<>> /\ Len(<<>>) = 0
        BY <2>1, <1>a DEF LifeInv, Log
  <2>3. ASSUME lives' = 1 PROVE DOMAIN entriesDb' = KeysTo(Len(Log'))
    <3>1. lives = 0
          BY <2>1, <2>3, <1>b
    <3>2. DOMAIN entriesDb = {}
          BY <3>1, <1>a DEF LastInv
    <3>3. KeysTo(0) = {}
          BY DEF KeysTo
    <3> QED BY <2>1, <2>2, <3>2, <3>3
  <2>4. lives' # 0
        BY <2>1, <1>b
  <2> QED BY <2>1, <2>3, <2>4 DEF LastInv
<1>t. ASSUME Ends, UNCHANGED <<lives, entriesDb>>, stage = "running" PROVE LastInv'
  <2>1. stage' = "off" /\ lastLog' = Log
        BY <1>t DEF Ends
  <2>2. Log \in Seq(Entry) /\ Len(Log) \in Nat /\ Len(Log) <= MaxLog
        BY <1>a, <1>t, LogTyped DEF TypeOK
  <2>3. ASSUME NEW i \in 1..Len(Log)
        PROVE  Key(i - 1) \in DOMAIN entriesDb /\ entriesDb[Key(i - 1)].entry = Log[i]
    <3> DEFINE h == i - 1
    <3>1. h \in 0..(MaxLog - 1) /\ h < Len(Log) /\ h + 1 = i
          BY <2>2
    <3> HIDE DEF h
    <3>2. Key(h) \in DOMAIN entriesDb /\ entriesDb[Key(h)].entry = Log[h + 1]
          BY <3>1, <1>a, <1>t DEF MemoryIsOnDisk
    <3> QED BY <3>1, <3>2 DEF h
  <2> QED BY <2>1, <2>3, <1>a, <1>t DEF LastInv
<1>2. CASE Crash
      BY <1>2, <1>t DEF Crash
<1>3. CASE LoadEntries
  <2>1. stage = "off" /\ stage' = "restarted" /\ lives > 0 /\ UNCHANGED <<lives, entriesDb, lastLog>>
        BY <1>3 DEF LoadEntries
  <2> QED BY <2>1, <1>a, <1>b DEF LastInv
<1>4. CASE MainReturns
      BY <1>4, <1>a DEF LastInv, MainReturns
<1>5. ASSUME NEW n \in Node, AppendCfgLog(n) PROVE LastInv'
  <2> DEFINE e == [node |-> n, term |-> currentTerm]
  <2>1. /\ stage = "running" /\ pending = <<>> /\ Len(entries) < MaxLog
        /\ UNCHANGED <<stage, lives, entries, lastLog>>
        BY <1>5, AppendCases
  <2>2. CASE UNCHANGED <<pending, entriesDb>>
        BY <2>1, <2>2, <1>a DEF LastInv, Log
  <2>3. ASSUME NEW c \in BOOLEAN, Written(e, c) PROVE LastInv'
    <3> HIDE DEF e
    <3>1. DOMAIN entriesDb' = DOMAIN entriesDb \cup {Key(Len(entries))}
          BY <2>3, WrittenFacts, Zenon DEF Index
    <3>2. entries \in Seq(Entry) /\ Len(entries) \in Nat
          BY <2>1, <1>a DEF LifeInv
    <3>3. Len(Log') = Len(entries) + 1 /\ Log = entries
      <4>1. Log' = Append(Log, e) /\ Log = entries
            BY <2>1, <2>3, <1>a, LogGrows
      <4> HIDE DEF Log
      <4> QED BY <3>2, <4>1
    <3>4. KeysTo(Len(entries) + 1) = KeysTo(Len(entries)) \cup {Key(Len(entries))}
      <4>1. 0..((Len(entries) + 1) - 1) = 0..(Len(entries) - 1) \cup {Len(entries)}
            BY <3>2
      <4> QED BY <4>1 DEF KeysTo
    <3>5. lives # 0
          BY <2>1, <1>a DEF LastInv
    <3>6. ASSUME lives = 1 PROVE DOMAIN entriesDb = KeysTo(Len(entries))
          BY <2>1, <3>3, <3>6, <1>a DEF LastInv
    <3>7. ASSUME lives' = 1 PROVE DOMAIN entriesDb' = KeysTo(Len(Log'))
          BY <2>1, <3>1, <3>3, <3>4, <3>6, <3>7
    <3> QED BY <2>1, <3>5, <3>7 DEF LastInv
  <2> QED BY <1>5, <2>2, <2>3, AppendCases
<1>6. ASSUME NEW t \in Term, SetAndPersistTerm(t) PROVE LastInv'
  <2>1. CASE Ends
        BY <1>6, <2>1, <1>t DEF SetAndPersistTerm, Idle
  <2>2. CASE UNCHANGED <<stage, entries, pending, proxys, lastLog>>
        BY <1>6, <2>2, <1>a DEF SetAndPersistTerm, LastInv, Log
  <2> QED BY <1>6, <2>1, <2>2 DEF SetAndPersistTerm
<1>7. CASE BecomeCandidate
      BY <1>7, <1>a DEF LastInv, BecomeCandidate, Log
<1>8. CASE UNCHANGED vars
      BY <1>8, <1>a DEF LastInv, Log, vars
<1>9. CASE PushBack
      BY <1>9, <1>a, PushBackKeepsLog DEF LastInv
<1> QED BY <1>1, <1>2, <1>3, <1>4, <1>5, <1>6, <1>7, <1>8, <1>9 DEF Next

LEMMA LoadStep == RestoreInv /\ [Next]_vars => LoadInv'
<1> SUFFICES ASSUME RestoreInv, [Next]_vars PROVE LoadInv'
    OBVIOUS
<1>a. TypeOK /\ KeysContiguous /\ LoadInv
      BY DEF RestoreInv
<1>1. CASE LoadEntries
  <2>1. UNCHANGED entriesDb
        BY <1>1 DEF LoadEntries
  <2>2. /\ entries' \in Seq(Entry \cup {Garbled})
        /\ DOMAIN entriesDb = KeysTo(Len(entries'))
        /\ \A j \in 1..Len(entries') :
              /\ entries'[j] = Read(entriesDb[Key(j - 1)])
              /\ entries'[j] # Garbled => entries'[j].node \in proxys'
        BY <1>1, <1>a, LoadFacts
  <2> QED BY <2>1, <2>2 DEF LoadInv
<1>2. CASE Launch \/ Crash \/ MainReturns \/ BecomeCandidate \/ PushBack
      BY <1>2 DEF LoadInv, Launch, Crash, Ends, MainReturns, BecomeCandidate, Idle, PushBack
<1>3. ASSUME NEW n \in Node, AppendCfgLog(n) PROVE LoadInv'
      BY <1>3, AppendCases DEF LoadInv
<1>4. ASSUME NEW t \in Term, SetAndPersistTerm(t) PROVE LoadInv'
      BY <1>4 DEF LoadInv, SetAndPersistTerm, Idle, Ends
<1>5. CASE UNCHANGED vars
      BY <1>5, <1>a DEF LoadInv, vars
<1> QED BY <1>1, <1>2, <1>3, <1>4, <1>5 DEF Next

\* The invariant suffices.
LEMMA RestoreEnough == RestoreInv => RestartRestores
<1> SUFFICES ASSUME RestoreInv, stage = "restarted"
             PROVE  /\ Len(entries) >= Len(lastLog)
                    /\ lives = 1 => Len(entries) = Len(lastLog)
                    /\ \A i \in 1..Len(lastLog) :
                          entriesDb[Key(i - 1)].clean =>
                              entries[i] = lastLog[i] /\ lastLog[i].node \in proxys
    BY DEF RestartRestores
<1> DEFINE n == Len(entries)
           m == Len(lastLog)
<1>1. lastLog \in Seq(Entry) /\ m \in Nat
      BY DEF RestoreInv, TypeOK
<1>2. entries \in Seq(Entry \cup {Garbled}) /\ n \in Nat /\ DOMAIN entriesDb = KeysTo(n)
      BY DEF RestoreInv, LoadInv
<1>3. \A i \in 1..m : Key(i - 1) \in DOMAIN entriesDb /\ entriesDb[Key(i - 1)].entry = lastLog[i]
      BY DEF RestoreInv, LastInv
<1>4. \A j \in 1..n : /\ entries[j] = Read(entriesDb[Key(j - 1)])
                      /\ entries[j] # Garbled => entries[j].node \in proxys
      BY DEF RestoreInv, LoadInv
<1>5. lives = 1 => DOMAIN entriesDb = KeysTo(m)
      BY DEF RestoreInv, LastInv
<1> HIDE DEF n, m
<1>6. n >= m
  <2>1. SUFFICES ASSUME m > n PROVE FALSE
        BY <1>1, <1>2
  <2>2. n + 1 \in 1..m /\ (n + 1) - 1 = n
        BY <1>1, <1>2, <2>1
  <2>3. Key(n) \in KeysTo(n)
        BY <1>2, <1>3, <2>2
  <2>4. PICK i \in 0..(n - 1) : Key(n) = Key(i)
        BY <2>3 DEF KeysTo
  <2>5. n = i
        BY <1>2, <2>4, KeysDiffer
  <2> QED BY <1>2, <2>5
<1>7. lives = 1 => n = m
      BY <1>1, <1>2, <1>5, KeysCounted
<1>8. ASSUME NEW i \in 1..m, entriesDb[Key(i - 1)].clean
      PROVE  entries[i] = lastLog[i] /\ lastLog[i].node \in proxys
  <2>1. i \in 1..n
        BY <1>1, <1>2, <1>6
  <2>2. Read(entriesDb[Key(i - 1)]) = lastLog[i]
        BY <1>3, <1>8 DEF Read
  <2>3. lastLog[i] # Garbled
    <3>1. lastLog[i] \in Entry
          BY <1>1 DEF m
    <3> QED BY <3>1, GarbledIsNoEntry
  <2> QED BY <1>4, <2>1, <2>2, <2>3
<1> QED BY <1>6, <1>7, <1>8 DEF n, m

LEMMA RestoreAlways == Spec => []RestoreInv
<1>1. Init => RestoreInv
      BY RestoreInit
<1>2. RestoreInv /\ [Next]_vars => RestoreInv'
  <2> SUFFICES ASSUME RestoreInv, [Next]_vars PROVE RestoreInv'
      OBVIOUS
  <2>1. LifeInv /\ MemoryIsOnDisk /\ KeysContiguous
        BY DEF RestoreInv
  <2>2. LifeInv' /\ MemoryIsOnDisk' /\ KeysContiguous'
        BY <2>1, LifeStep, MemoryStep, KeysStep
  <2>3. TypeOK' /\ LastInv' /\ LoadInv'
        BY TypeStep, LastStep, LoadStep
  <2> QED BY <2>2, <2>3 DEF RestoreInv
<1> QED BY <1>1, <1>2, PTL DEF Spec

\* Whatever fails and however often the process is launched again, the
\* databases hold entries and terms under texts of indexes, and only a
\* restarted process has read anything garbled.
THEOREM StorageTypeCorrect == Spec => []TypeOK
<1>1. RestoreInv => TypeOK
      BY DEF RestoreInv
<1> QED BY <1>1, RestoreAlways, PTL

\* "restart" brings back the log of the last process in its order, also the
\* entry that was written and not yet appended when it ended, with every
\* entry that was stored clean unchanged and its node a proxy: IndexComparator
\* orders the texts of indexes of any length as numbers (LoadEntries).
THEOREM RestartBringsBackLog == Spec => []RestartRestores
BY RestoreAlways, RestoreEnough, PTL

=============================================================================
