----------------------------- MODULE CodecProofs -----------------------------
(***************************************************************************)
(* What is written is what is read: in frames, in copies and in the store, *)
(* for any numbers, any hosts and any junk, with a field of every wire     *)
(* type that is not known in front of the message or behind it.            *)
(***************************************************************************)
EXTENDS Codec, TLAPS, SequenceTheorems, FiniteSetTheorems, NaturalsInduction,
        WellFoundedInduction

-----------------------------------------------------------------------------
(* Numbers *)

\* A set of numbers has a least one.
LEMMA LeastNat ==
    ASSUME NEW S, S \subseteq Nat, S # {}
    PROVE  \E m \in S : \A k \in S : m <= k
<1> DEFINE R == OpToRel(<, Nat)
<1>1. IsWellFoundedOn(R, Nat)
      BY NatLessThanWellFounded
<1>2. \A x, y \in Nat : x < y => <<x, y>> \in R
      BY DEF OpToRel
<1> HIDE DEF R
<1>3. PICK m \in S : \A k \in S : ~(<<k, m>> \in R)
      BY <1>1, WFMin
<1>4. ASSUME NEW k \in S PROVE m <= k
  <2>1. m \in Nat /\ k \in Nat
        OBVIOUS
  <2>2. ~(k < m)
        BY <1>2, <1>3, <2>1
  <2> QED BY <2>1, <2>2
<1> QED BY <1>4

\* Division by 128.
LEMMA Division ==
    ASSUME NEW v \in Nat
    PROVE  /\ v \div 128 \in Nat /\ v % 128 \in 0..127
           /\ v = 128 * (v \div 128) + (v % 128)
           /\ v >= 128 => v \div 128 < v /\ v \div 128 >= 1
OBVIOUS

\* A number below 128 remains itself.
LEMMA SmallMod ==
    ASSUME NEW v \in 0..127
    PROVE  v % 128 = v /\ (128 + v) % 128 = v
OBVIOUS

\* A number below UintSize remains itself.
LEMMA UintMod ==
    ASSUME NEW v \in 0..(UintSize - 1)
    PROVE  v % UintSize = v
<1>1. UintSize \in Nat /\ UintSize > 0
      BY UintAssumption, SMT
<1> DEFINE d == v \div UintSize
           m == v % UintSize
<1>2. d \in Int /\ m \in 0..(UintSize - 1) /\ v = UintSize * d + m
      BY <1>1
<1> HIDE DEF d, m
<1>3. d = 0
  <2>1. CASE d >= 1
    <3>1. UintSize * d >= UintSize
          BY <1>1, <1>2, <2>1
    <3> QED BY <1>1, <1>2, <3>1
  <2>2. CASE d <= -1
    <3>1. UintSize * d <= -UintSize
          BY <1>1, <1>2, <2>2
    <3> QED BY <1>1, <1>2, <3>1
  <2> QED BY <1>2, <2>1, <2>2
<1>4. m = v
      BY <1>1, <1>2, <1>3
<1> QED BY <1>4 DEF m

\* A number below 128 to the power of five.
LEMMA UintBound ==
    /\ UintSize \in Nat /\ UintSize >= 128 /\ UintSize <= 34359738368
    /\ \E c \in Nat : UintSize = 128 * c
<1>1. UintSize \in Nat /\ UintSize > 0 /\ UintSize % 128 = 0
      BY UintAssumption, SMT
<1>2. UintSize = 128 * (UintSize \div 128) /\ UintSize \div 128 \in Nat
      BY <1>1, SMT
<1> DEFINE u == UintSize - 1
<1>3. u \in Nat /\ u \div 268435456 < 128
      BY <1>1, UintAssumption, SMT
<1> HIDE DEF u
<1>4. u < 34359738368
      BY <1>3, SMT
<1>5. UintSize <= 34359738368
      BY <1>1, <1>4, SMT DEF u
<1> QED BY <1>1, <1>2, <1>5, SMT

LEMMA UintBase == UintSize \in Nat /\ UintSize >= 128 /\ \E c \in Nat : UintSize = 128 * c
BY UintBound, SMT

\* A function on 0..N is given by its first value and a step.
IsIteration(f, V, x, N, G) ==
    f \in [0..N -> V] /\ f[0] = x /\ \A n \in 1..N : f[n] = G[<<n, f[n - 1]>>]

LEMMA Iterate ==
    ASSUME NEW V, NEW x, NEW N, NEW G, x \in V, N \in Nat, G \in [(1..N) \X V -> V]
    PROVE  \E f : IsIteration(f, V, x, N, G)
<1> DEFINE Sol(f, m) == f \in [0..m -> V] /\ f[0] = x /\ \A n \in 1..m : f[n] = G[<<n, f[n - 1]>>]
           Bad == {m \in Nat : m <= N /\ ~ \E f : Sol(f, m)}
<1>1. ASSUME Bad # {} PROVE FALSE
  <2>1. PICK m \in Bad : \A j \in Bad : m <= j
    <3>1. Bad \subseteq Nat
          OBVIOUS
    <3> HIDE DEF Bad
    <3> QED BY <1>1, <3>1, LeastNat
  <2>2. m \in Nat /\ m <= N /\ ~ \E f : Sol(f, m)
        OBVIOUS
  <2>3. CASE m = 0
    <3> DEFINE f == [j \in 0..0 |-> x]
    <3>1. Sol(f, 0)
          OBVIOUS
    <3> HIDE DEF Sol
    <3> QED BY <2>2, <2>3, <3>1
  <2>4. CASE m # 0
    <3> DEFINE h == m - 1
    <3>1. h \in Nat /\ h <= N /\ h < m /\ m \in 1..N /\ m - 1 = h
          BY <2>2, <2>4
    <3> HIDE DEF h
    <3>2. h \notin Bad
      <4> HIDE DEF Bad
      <4> QED BY <2>1, <2>2, <3>1
    <3>3. PICK g : Sol(g, h)
          BY <3>1, <3>2
    <3> DEFINE f == [j \in 0..m |-> IF j = m THEN G[<<m, g[h]>>] ELSE g[j]]
    <3>4. g[h] \in V /\ <<m, g[h]>> \in (1..N) \X V
          BY <3>1, <3>3
    <3>5. G[<<m, g[h]>>] \in V
          BY <3>4
    <3>6. f \in [0..m -> V]
          BY <2>2, <3>1, <3>3, <3>5
    <3>7. f[0] = x /\ f[m] = G[<<m, f[h]>>]
      <4>1. 0 \in 0..m /\ 0 # m /\ h \in 0..m /\ h # m /\ m \in 0..m
            BY <2>2, <2>4, <3>1
      <4>2. f[0] = g[0] /\ f[h] = g[h] /\ f[m] = G[<<m, g[h]>>]
            BY <4>1
      <4> QED BY <3>3, <4>2
    <3>8. ASSUME NEW n \in 1..m PROVE f[n] = G[<<n, f[n - 1]>>]
      <4>1. CASE n = m
            BY <3>1, <3>7, <4>1
      <4>2. CASE n # m
        <5>1. n \in 1..h /\ n \in 0..m /\ n - 1 \in 0..m /\ n - 1 # m
              BY <2>2, <3>1, <4>2
        <5>2. f[n] = g[n] /\ f[n - 1] = g[n - 1]
              BY <4>2, <5>1
        <5> QED BY <3>3, <5>1, <5>2
      <4> QED BY <4>1, <4>2
    <3> HIDE DEF f
    <3>9. Sol(f, m)
          BY <3>6, <3>7, <3>8
    <3> QED BY <2>2, <3>9
  <2> QED BY <2>3, <2>4
<1>2. N \notin Bad
      BY <1>1
<1>3. PICK f : Sol(f, N)
      BY <1>2
<1> QED BY <1>3 DEF IsIteration

-----------------------------------------------------------------------------
(* Varints *)

\* One level of the recursion of Varint, and a function that obeys it up to n.
VarintStep(f, i) == IF i < 128 THEN <<i>> ELSE <<128 + (i % 128)>> \o f[i \div 128]

VarintSol(f, n) == f = [i \in 0..n |-> VarintStep(f, i)]

LEMMA VarintSolsAgree ==
    ASSUME NEW n \in Nat, NEW m \in Nat, NEW f, NEW g, VarintSol(f, n), VarintSol(g, m)
    PROVE  \A i \in 0..n : i <= m => f[i] = g[i]
<1> DEFINE Bad == {i \in 0..n : i <= m /\ f[i] # g[i]}
<1>1. ASSUME Bad # {} PROVE FALSE
  <2>1. PICK i \in Bad : \A j \in Bad : i <= j
    <3>1. Bad \subseteq Nat
          OBVIOUS
    <3> HIDE DEF Bad
    <3> QED BY <1>1, <3>1, LeastNat
  <2>2. i \in 0..n /\ i \in 0..m /\ i \in Nat /\ f[i] # g[i]
        OBVIOUS
  <2>3. f[i] = VarintStep(f, i) /\ g[i] = VarintStep(g, i)
        BY <2>2 DEF VarintSol
  <2>4. CASE i < 128
        BY <2>2, <2>3, <2>4 DEF VarintStep
  <2>5. CASE ~(i < 128)
    <3> DEFINE d == i \div 128
    <3>1. d \in Nat /\ d < i
          BY <2>2, <2>5, Division
    <3>2. f[i] = <<128 + (i % 128)>> \o f[d] /\ g[i] = <<128 + (i % 128)>> \o g[d]
          BY <2>3, <2>5 DEF VarintStep
    <3> HIDE DEF d
    <3>3. d \notin Bad /\ d \in 0..n /\ d <= m
          BY <2>1, <2>2, <3>1
    <3>4. f[d] = g[d]
          BY <3>3
    <3> QED BY <2>2, <3>2, <3>4
  <2> QED BY <2>4, <2>5
<1> QED BY <1>1

LEMMA VarintSolsExist == \A n \in Nat : \E f : VarintSol(f, n)
<1> DEFINE Bad == {n \in Nat : ~ \E f : VarintSol(f, n)}
<1>1. ASSUME Bad # {} PROVE FALSE
  <2>1. PICK n \in Bad : \A j \in Bad : n <= j
        BY <1>1, LeastNat
  <2>2. n \in Nat /\ ~ \E f : VarintSol(f, n)
        OBVIOUS
  <2>3. CASE n = 0
    <3> DEFINE f == [i \in 0..0 |-> <<i>>]
    <3>1. \A i \in 0..0 : VarintStep(f, i) = <<i>>
          BY DEF VarintStep
    <3>2. f = [i \in 0..0 |-> VarintStep(f, i)]
          BY <3>1
    <3> HIDE DEF f
    <3> QED BY <2>2, <2>3, <3>2 DEF VarintSol
  <2>4. CASE n # 0
    <3>1. n - 1 \in Nat /\ n - 1 \notin Bad
          BY <2>1, <2>2, <2>4
    <3>2. PICK g : VarintSol(g, n - 1)
          BY <3>1
    <3> DEFINE f == [i \in 0..n |-> VarintStep(g, i)]
    <3>3. ASSUME NEW i \in 0..n PROVE VarintStep(g, i) = VarintStep(f, i)
      <4>1. CASE i < 128
            BY <4>1 DEF VarintStep
      <4>2. CASE ~(i < 128)
        <5> DEFINE d == i \div 128
        <5>1. d \in Nat /\ d < i /\ i \in Nat
              BY <4>2, Division
        <5> HIDE DEF d
        <5>2. d \in 0..(n - 1) /\ d \in 0..n
              BY <2>2, <3>1, <5>1
        <5>3. f[d] = VarintStep(g, d) /\ g[d] = VarintStep(g, d)
              BY <3>2, <5>2 DEF VarintSol
        <5> HIDE DEF f
        <5>4. f[i \div 128] = g[i \div 128]
              BY <5>3 DEF d
        <5> QED BY <4>2, <5>4 DEF VarintStep
      <4> QED BY <4>1, <4>2
    <3>4. f = [i \in 0..n |-> VarintStep(f, i)]
          BY <3>3
    <3> HIDE DEF f
    <3> QED BY <2>2, <3>4 DEF VarintSol
  <2> QED BY <2>3, <2>4
<1> QED BY <1>1

\* The recursive definition of Varint has a solution, so Varint obeys it.
LEMMA VarintUnfolds ==
    ASSUME NEW i \in Nat
    PROVE  Varint[i] = IF i < 128 THEN <<i>> ELSE <<128 + (i % 128)>> \o Varint[i \div 128]
<1> DEFINE sol(n) == CHOOSE f : VarintSol(f, n)
           F == [j \in Nat |-> sol(j)[j]]
<1>1. \A n \in Nat : VarintSol(sol(n), n)
      BY VarintSolsExist
<1> HIDE DEF sol
<1>2. ASSUME NEW j \in Nat PROVE F[j] = VarintStep(F, j)
  <2>1. VarintSol(sol(j), j) /\ j \in 0..j
        BY <1>1
  <2>2. sol(j)[j] = VarintStep(sol(j), j)
        BY <2>1 DEF VarintSol
  <2>3. CASE j < 128
        BY <2>2, <2>3 DEF VarintStep
  <2>4. CASE ~(j < 128)
    <3> DEFINE d == j \div 128
    <3>1. d \in Nat /\ d < j
          BY <2>4, Division
    <3> HIDE DEF d
    <3> DEFINE f == sol(j)
               g == sol(d)
    <3>2. VarintSol(f, j) /\ VarintSol(g, d)
          BY <1>1, <3>1
    <3>3. F[d] = g[d] /\ F[j] = VarintStep(f, j)
          BY <2>2, <3>1
    <3> HIDE DEF f, g, F
    <3>4. d \in 0..j /\ d <= d
          BY <3>1
    <3>5. f[d] = g[d]
          BY <3>1, <3>2, <3>4, VarintSolsAgree
    <3>6. f[j \div 128] = F[j \div 128]
          BY <3>3, <3>5 DEF d
    <3> QED BY <2>4, <3>3, <3>6 DEF VarintStep
  <2> QED BY <2>3, <2>4
<1>3. F = [j \in Nat |-> IF j < 128 THEN <<j>> ELSE <<128 + (j % 128)>> \o F[j \div 128]]
  <2>1. F = [j \in Nat |-> F[j]]
        OBVIOUS
  <2> HIDE DEF F
  <2> QED BY <1>2, <2>1, Zenon DEF VarintStep
<1> HIDE DEF F
<1>4. Varint = [j \in Nat |-> IF j < 128 THEN <<j>> ELSE <<128 + (j % 128)>> \o Varint[j \div 128]]
      BY <1>3, ZenonT(60) DEF Varint
<1> QED BY <1>4

\* The bytes of a varint: only the last has the eighth bit clear, and only 0 is
\* written with a zero byte.
Byte == 0..255

IsVarint(w, v) ==
    /\ w \in Seq(Byte) /\ Len(w) \in Nat /\ Len(w) >= 1
    /\ w[Len(w)] < 128
    /\ \A k \in 1..Len(w) : k < Len(w) => w[k] >= 128
    /\ v >= 1 => \A k \in 1..Len(w) : w[k] >= 1

\* A byte in front of a sequence.
LEMMA ConsFacts ==
    ASSUME NEW S, NEW x \in S, NEW w \in Seq(S)
    PROVE  /\ <<x>> \o w \in Seq(S) /\ Len(<<x>> \o w) = Len(w) + 1 /\ Len(w) \in Nat
           /\ (<<x>> \o w)[1] = x
           /\ \A k \in 1..Len(w) : (<<x>> \o w)[k + 1] = w[k]
<1>1. <<x>> \in Seq(S) /\ Len(<<x>>) = 1 /\ <<x>>[1] = x /\ Len(w) \in Nat
      OBVIOUS
<1> DEFINE u == <<x>>
<1>2. u \in Seq(S) /\ Len(u) = 1 /\ u[1] = x
      BY <1>1
<1> HIDE DEF u
<1>3. /\ u \o w \in Seq(S) /\ Len(u \o w) = Len(u) + Len(w)
      /\ \A i \in 1..(Len(u) + Len(w)) : (u \o w)[i] = IF i <= Len(u) THEN u[i] ELSE w[i - Len(u)]
      BY ONLY <1>2, w \in Seq(S), ConcatProperties
<1>4. (u \o w)[1] = x
      BY <1>1, <1>2, <1>3
<1>5. ASSUME NEW k \in 1..Len(w) PROVE (u \o w)[k + 1] = w[k]
  <2>1. k + 1 \in 1..(1 + Len(w)) /\ ~(k + 1 <= 1) /\ k + 1 - 1 = k
        BY <1>1
  <2> QED BY <1>2, <1>3, <2>1
<1> QED BY <1>1, <1>2, <1>3, <1>4, <1>5 DEF u

LEMMA VarintSmall ==
    ASSUME NEW v \in Nat, v < 128
    PROVE  Varint[v] = <<v>>
BY VarintUnfolds

LEMMA VarintLarge ==
    ASSUME NEW v \in Nat, v >= 128
    PROVE  Varint[v] = <<128 + (v % 128)>> \o Varint[v \div 128]
<1>1. ~(v < 128)
      OBVIOUS
<1> QED BY <1>1, VarintUnfolds

LEMMA VarintFacts == \A v \in Nat : IsVarint(Varint[v], v)
<1> DEFINE Bad == {v \in Nat : ~IsVarint(Varint[v], v)}
<1>1. ASSUME Bad # {} PROVE FALSE
  <2>1. PICK v \in Bad : \A j \in Bad : v <= j
        BY <1>1, LeastNat
  <2>2. v \in Nat /\ ~IsVarint(Varint[v], v)
        OBVIOUS
  <2>3. CASE v < 128
    <3>1. Varint[v] = <<v>> /\ v \in Byte
          BY <2>2, <2>3, VarintSmall DEF Byte
    <3>2. <<v>> \in Seq(Byte) /\ Len(<<v>>) = 1 /\ <<v>>[1] = v
          BY <3>1
    <3> QED BY <2>2, <2>3, <3>1, <3>2 DEF IsVarint
  <2>4. CASE ~(v < 128)
    <3> DEFINE d == v \div 128
               x == 128 + (v % 128)
               w == Varint[d]
               u == Varint[v]
    <3>1. v >= 128 /\ d \in Nat /\ d < v /\ d >= 1 /\ x \in 128..255 /\ x \in Byte
          BY <2>2, <2>4, Division DEF Byte
    <3>2. u = <<x>> \o w
          BY <2>2, <3>1, VarintLarge
    <3> HIDE DEF d, x, u
    <3>3. IsVarint(w, d)
      <4>1. d \notin Bad
        <5> HIDE DEF Bad
        <5> QED BY <2>1, <2>2, <3>1
      <4> QED BY <3>1, <4>1
    <3> HIDE DEF w
    <3>4. w \in Seq(Byte) /\ Len(w) >= 1
          BY <3>3 DEF IsVarint
    <3>5. /\ u \in Seq(Byte) /\ Len(u) = Len(w) + 1 /\ Len(w) \in Nat
          /\ u[1] = x
          /\ \A k \in 1..Len(w) : u[k + 1] = w[k]
          BY <3>1, <3>2, <3>4, ConsFacts
    <3>6. u[Len(u)] < 128
      <4>1. Len(w) \in 1..Len(w)
            BY <3>4, <3>5
      <4> QED BY <3>3, <3>5, <4>1 DEF IsVarint
    <3>7. ASSUME NEW k \in 1..Len(u) PROVE u[k] >= 1 /\ (k < Len(u) => u[k] >= 128)
      <4>1. CASE k = 1
            BY <3>1, <3>5, <4>1
      <4>2. CASE k # 1
        <5> DEFINE j == k - 1
        <5>1. j \in 1..Len(w) /\ k = j + 1 /\ (k < Len(u) => j < Len(w))
              BY <3>5, <4>2
        <5> HIDE DEF j
        <5>2. u[k] = w[j]
              BY <3>5, <5>1
        <5> QED BY <3>1, <3>3, <5>1, <5>2 DEF IsVarint
      <4> QED BY <4>1, <4>2
    <3>8. IsVarint(u, v)
          BY <3>4, <3>5, <3>6, <3>7 DEF IsVarint
    <3> QED BY <2>2, <3>8 DEF u
  <2> QED BY <2>3, <2>4
<1> QED BY <1>1

\* How long a varint is.
LEMMA VarintLen ==
    ASSUME NEW v \in Nat
    PROVE  /\ v < 128 => Len(Varint[v]) = 1
           /\ v >= 128 /\ v < 16384 => Len(Varint[v]) = 2
           /\ v >= 16384 /\ v < 2097152 => Len(Varint[v]) = 3
           /\ v >= 2097152 /\ v < 268435456 => Len(Varint[v]) = 4
           /\ v >= 268435456 /\ v < 34359738368 => Len(Varint[v]) = 5
<1>1. \A i \in Nat : i < 128 => Len(Varint[i]) = 1
      BY VarintSmall
<1>2. ASSUME NEW i \in Nat, i >= 128
      PROVE  i \div 128 \in Nat /\ Len(Varint[i]) = Len(Varint[i \div 128]) + 1
  <2> DEFINE d == i \div 128
             x == 128 + (i % 128)
             w == Varint[d]
  <2>1. d \in Nat /\ x \in Byte
        BY Division DEF Byte
  <2>2. Varint[i] = <<x>> \o w
        BY <1>2, VarintLarge
  <2> HIDE DEF d, x
  <2>3. w \in Seq(Byte)
        BY <2>1, VarintFacts DEF IsVarint
  <2> HIDE DEF w
  <2>4. Len(Varint[i]) = Len(w) + 1
        BY <2>1, <2>2, <2>3, ConsFacts
  <2> QED BY <2>1, <2>4 DEF w, d
<1>3. \A i \in Nat : i >= 128 /\ i < 16384 => Len(Varint[i]) = 2
  <2> SUFFICES ASSUME NEW i \in Nat, i >= 128, i < 16384 PROVE Len(Varint[i]) = 2
      OBVIOUS
  <2> DEFINE d == i \div 128
  <2>1. d < 128 /\ d >= 1 /\ i >= 128
        BY SMT
  <2>2. d \in Nat /\ Len(Varint[i]) = Len(Varint[d]) + 1
        BY <1>2, <2>1, SMT
  <2> HIDE DEF d
  <2>3. Len(Varint[d]) = 1
        BY <1>1, <2>1, <2>2, SMT
  <2> QED BY <2>2, <2>3, SMT
<1>4. \A i \in Nat : i >= 16384 /\ i < 2097152 => Len(Varint[i]) = 3
  <2> SUFFICES ASSUME NEW i \in Nat, i >= 16384, i < 2097152 PROVE Len(Varint[i]) = 3
      OBVIOUS
  <2> DEFINE d == i \div 128
  <2>1. d < 16384 /\ d >= 128 /\ i >= 128
        BY SMT
  <2>2. d \in Nat /\ Len(Varint[i]) = Len(Varint[d]) + 1
        BY <1>2, <2>1, SMT
  <2> HIDE DEF d
  <2>3. Len(Varint[d]) = 2
        BY <1>3, <2>1, <2>2, SMT
  <2> QED BY <2>2, <2>3, SMT
<1>5. \A i \in Nat : i >= 2097152 /\ i < 268435456 => Len(Varint[i]) = 4
  <2> SUFFICES ASSUME NEW i \in Nat, i >= 2097152, i < 268435456 PROVE Len(Varint[i]) = 4
      BY SMT
  <2> DEFINE d == i \div 128
  <2>1. d < 2097152 /\ d >= 16384 /\ i >= 128
        BY SMT
  <2>2. d \in Nat /\ Len(Varint[i]) = Len(Varint[d]) + 1
        BY <1>2, <2>1, SMT
  <2> HIDE DEF d
  <2>3. Len(Varint[d]) = 3
        BY <1>4, <2>1, <2>2, SMT
  <2> QED BY <2>2, <2>3, SMT
<1>6. v >= 268435456 /\ v < 34359738368 => Len(Varint[v]) = 5
  <2> SUFFICES ASSUME v >= 268435456, v < 34359738368 PROVE Len(Varint[v]) = 5
      BY SMT
  <2> DEFINE d == v \div 128
  <2>1. d < 268435456 /\ d >= 2097152 /\ v >= 128
        BY SMT
  <2>2. d \in Nat /\ Len(Varint[v]) = Len(Varint[d]) + 1
        BY <1>2, <2>1, SMT
  <2> HIDE DEF d
  <2>3. Len(Varint[d]) = 4
        BY <1>5, <2>1, <2>2, SMT
  <2> QED BY <2>2, <2>3, SMT
<1> QED BY <1>1, <1>3, <1>4, <1>5, <1>6, SMT

\* The size that is announced for a number is the length of its varint.
LEMMA VarintSizeIsLen ==
    ASSUME NEW v \in 0..(UintSize - 1)
    PROVE  Len(Varint[v]) = VarintSize(v) /\ Len(Varint[v]) \in 1..5
<1> DEFINE K == {k \in {128, 16384, 2097152, 268435456} : v >= k}
<1>1. v \in Nat /\ v < 34359738368
      BY UintBound, SMT
<1>2. IsFiniteSet({}) /\ Cardinality({}) = 0
      BY FS_EmptySet
<1>3. IsFiniteSet({128}) /\ Cardinality({128}) = 1
      BY FS_Singleton
<1>4. IsFiniteSet({128, 16384}) /\ Cardinality({128, 16384}) = 2
  <2> DEFINE T == {128}
  <2>1. IsFiniteSet(T) /\ Cardinality(T) = 1 /\ 16384 \notin T
        BY <1>3
  <2>2. {128, 16384} = T \cup {16384}
        OBVIOUS
  <2> HIDE DEF T
  <2> QED BY <2>1, <2>2, FS_AddElement, SMT
<1>5. IsFiniteSet({128, 16384, 2097152}) /\ Cardinality({128, 16384, 2097152}) = 3
  <2> DEFINE T == {128, 16384}
  <2>1. IsFiniteSet(T) /\ Cardinality(T) = 2 /\ 2097152 \notin T
        BY <1>4, SMT
  <2>2. {128, 16384, 2097152} = T \cup {2097152}
        BY SMT
  <2> HIDE DEF T
  <2> QED BY <2>1, <2>2, FS_AddElement, SMT
<1>6. Cardinality({128, 16384, 2097152, 268435456}) = 4
  <2> DEFINE T == {128, 16384, 2097152}
  <2>1. IsFiniteSet(T) /\ Cardinality(T) = 3 /\ 268435456 \notin T
        BY <1>5, SMT
  <2>2. {128, 16384, 2097152, 268435456} = T \cup {268435456}
        BY SMT
  <2> HIDE DEF T
  <2> QED BY <2>1, <2>2, FS_AddElement, SMT
<1>7. VarintSize(v) = 1 + Cardinality(K)
      BY DEF VarintSize
<1>8. CASE v < 128
  <2>1. K = {}
        BY <1>1, <1>8, SMT
  <2> HIDE DEF K
  <2>2. VarintSize(v) = 1
        BY <1>2, <1>7, <2>1
  <2>3. Len(Varint[v]) = 1
        BY <1>1, <1>8, VarintSmall
  <2> QED BY <2>2, <2>3
<1>9. CASE v >= 128 /\ v < 16384
  <2>1. K = {128}
        BY <1>1, <1>9, SMT
  <2> HIDE DEF K
  <2> QED BY <1>1, <1>3, <1>7, <1>9, <2>1, VarintLen, SMT
<1>10. CASE v >= 16384 /\ v < 2097152
  <2>1. K = {128, 16384}
        BY <1>1, <1>10, SMT
  <2> HIDE DEF K
  <2> QED BY <1>1, <1>4, <1>7, <1>10, <2>1, VarintLen, SMTT(40)
<1>11. CASE v >= 2097152 /\ v < 268435456
  <2>1. K = {128, 16384, 2097152}
        BY <1>1, <1>11, SMT
  <2> HIDE DEF K
  <2> QED BY <1>1, <1>5, <1>7, <1>11, <2>1, VarintLen, SMTT(40)
<1>12. CASE v >= 268435456
  <2>1. K = {128, 16384, 2097152, 268435456}
        BY <1>1, <1>12, SMT
  <2> HIDE DEF K
  <2> QED BY <1>1, <1>6, <1>7, <1>12, <2>1, VarintLen, SMT
<1> QED BY <1>1, <1>8, <1>9, <1>10, <1>11, <1>12, SMT

-----------------------------------------------------------------------------
(* Reading a varint back *)

\* The bytes w stand in b from position p on.
StandsAt(b, p, w) ==
    /\ b \in Seq(Byte) /\ p \in Nat /\ p >= 1
    /\ p + Len(w) - 1 <= Len(b)
    /\ \A k \in 1..Len(w) : b[p + k - 1] = w[k]

LEMMA MinIs ==
    ASSUME NEW S, S \subseteq Int, NEW m \in S, \A y \in S : m <= y
    PROVE  Min(S) = m
<1> DEFINE P(x) == x \in S /\ \A y \in S : x =< y
<1>1. \A x : P(x) => x = m
      OBVIOUS
<1>2. P(m)
      OBVIOUS
<1>3. P(CHOOSE x : P(x))
      BY <1>2
<1>4. Min(S) = CHOOSE x : P(x)
      BY DEF Min
<1> QED BY <1>1, <1>3, <1>4

\* The end of a varint is behind its first byte with the eighth bit clear.
LEMMA VarintEndAt ==
    ASSUME NEW b \in Seq(Byte), NEW p \in Nat, NEW q \in Nat,
           p >= 1, p <= q, q <= Len(b), q < p + VarintMax, b[q] < 128,
           \A r \in p..(q - 1) : b[r] >= 128
    PROVE  VarintEnd(b, p) = q + 1
<1> DEFINE ends == {r \in p..(p + VarintMax - 1) : r <= Len(b) /\ b[r] < 128}
<1>1. VarintMax \in Nat /\ Len(b) \in Nat
      BY VarintAssumption
<1>2. q \in ends /\ ends \subseteq Int
      BY <1>1
<1>3. ASSUME NEW r \in ends PROVE q <= r
  <2>1. CASE r < q
    <3>1. r \in p..(q - 1)
          BY <1>1, <2>1
    <3>2. r \in 1..Len(b)
          BY <1>1
    <3> DEFINE x == b[r]
    <3>3. x < 128 /\ x >= 128 /\ x \in Byte
          BY <3>1, <3>2
    <3> HIDE DEF x
    <3>4. x \in Int
          BY <3>3 DEF Byte
    <3> QED BY <3>3, <3>4
  <2> QED BY <1>1, <2>1
<1>4. VarintEnd(b, p) = IF ends = {} THEN Failed ELSE Min(ends) + 1
      BY DEF VarintEnd
<1> HIDE DEF ends
<1>5. Min(ends) = q
      BY <1>2, <1>3, MinIs
<1> QED BY <1>2, <1>4, <1>5

\* What VarintValue computes: f[q] is the value of the bytes from q on.
IsValueOf(f, b, p, e) ==
    f = [q \in p..e |-> IF q = e THEN 0 ELSE (128 * f[q + 1] + (b[q] % 128)) % UintSize]

LEMMA UintRest ==
    ASSUME NEW x \in Int
    PROVE  x % UintSize \in 0..(UintSize - 1)
<1>1. UintSize \in Nat /\ UintSize > 0
      BY UintBase
<1> QED BY <1>1

LEMMA ByteRest ==
    ASSUME NEW b \in Seq(Byte), NEW q \in 1..Len(b)
    PROVE  b[q] \in Byte /\ b[q] \in Int /\ b[q] % 128 \in 0..127
<1> DEFINE x == b[q]
<1>1. x \in Byte
      OBVIOUS
<1> HIDE DEF x
<1>2. x \in Int /\ x % 128 \in 0..127
      BY <1>1 DEF Byte
<1> QED BY <1>1, <1>2 DEF x

LEMMA ValueExists ==
    ASSUME NEW b \in Seq(Byte), NEW p \in Nat, NEW e \in Nat, p >= 1, p <= e, e <= Len(b) + 1
    PROVE  \E f : IsValueOf(f, b, p, e)
<1> DEFINE V == 0..(UintSize - 1)
           N == e - p
           G == [nx \in (1..N) \X V |-> (128 * nx[2] + (b[e - nx[1]] % 128)) % UintSize]
<1>1. UintSize \in Nat /\ UintSize > 0 /\ 0 \in V /\ N \in Nat /\ Len(b) \in Nat
      BY UintBase
<1>2. ASSUME NEW n \in 1..N, NEW x \in V
      PROVE  (128 * x + (b[e - n] % 128)) % UintSize \in V
  <2>1. e - n \in 1..Len(b)
        BY <1>1
  <2>2. b[e - n] % 128 \in Int /\ x \in Int
        BY <1>1, <2>1, ByteRest
  <2>3. 128 * x + (b[e - n] % 128) \in Int
        BY <2>2
  <2> QED BY <2>3, UintRest
<1>3. G \in [(1..N) \X V -> V]
      BY <1>2
<1>4. \A n \in 1..N, x \in V : G[<<n, x>>] = (128 * x + (b[e - n] % 128)) % UintSize
      OBVIOUS
<1>5. PICK g \in [0..N -> V] : g[0] = 0 /\ \A n \in 1..N : g[n] = G[<<n, g[n - 1]>>]
  <2> DEFINE z == 0
  <2>1. z \in V /\ N \in Nat /\ G \in [(1..N) \X V -> V]
        BY <1>1, <1>3
  <2> HIDE DEF G, V, N, z
  <2>2. \E g : IsIteration(g, V, z, N, G)
        BY ONLY <2>1, Iterate
  <2> QED BY <2>2 DEF z, IsIteration
<1> DEFINE f == [q \in p..e |-> g[e - q]]
<1>6. ASSUME NEW q \in p..e
      PROVE  f[q] = IF q = e THEN 0 ELSE (128 * f[q + 1] + (b[q] % 128)) % UintSize
  <2>1. CASE q = e
        BY <1>5, <2>1
  <2>2. CASE q # e
    <3> DEFINE n == e - q
    <3>1. n \in 1..N /\ n - 1 \in 0..N /\ e - n = q /\ q + 1 \in p..e /\ e - (q + 1) = n - 1
          BY <1>1, <2>2
    <3>2. f[q] = g[n] /\ f[q + 1] = g[n - 1]
          BY <3>1
    <3> HIDE DEF n, f, G, V, N
    <3>3. g[n - 1] \in V
          BY <1>5, <3>1
    <3>4. g[n] = (128 * g[n - 1] + (b[q] % 128)) % UintSize
          BY <1>4, <1>5, <3>1, <3>3, ZenonT(60)
    <3> QED BY <2>2, <3>2, <3>4
  <2> QED BY <2>1, <2>2
<1>7. f = [q \in p..e |-> f[q]]
      OBVIOUS
<1> HIDE DEF f
<1>8. IsValueOf(f, b, p, e)
      BY <1>6, <1>7 DEF IsValueOf
<1> QED BY <1>8

LEMMA ValueIs ==
    ASSUME NEW b \in Seq(Byte), NEW p \in Nat, NEW e \in Nat, p >= 1, p <= e, e <= Len(b) + 1,
           VarintEnd(b, p) = e
    PROVE  \E f : IsValueOf(f, b, p, e) /\ VarintValue(b, p) = f[p]
<1> DEFINE f == CHOOSE h : h = [q \in p..e |-> IF q = e THEN 0 ELSE (128 * h[q + 1] + (b[q] % 128)) % UintSize]
<1>1. PICK g : IsValueOf(g, b, p, e)
      BY ValueExists
<1>2. f = [q \in p..e |-> IF q = e THEN 0 ELSE (128 * f[q + 1] + (b[q] % 128)) % UintSize]
      BY <1>1, ZenonT(60) DEF IsValueOf
<1>3. VarintValue(b, p) = f[p]
      BY DEF VarintValue
<1> HIDE DEF f
<1>4. IsValueOf(f, b, p, e)
      BY <1>2 DEF IsValueOf
<1> QED BY <1>3, <1>4

\* The values are numbers of the width of a uint32, and the lowest seven bits
\* are those of the first byte.
LEMMA ValueRange ==
    ASSUME NEW b \in Seq(Byte), NEW p \in Nat, NEW e \in Nat, p >= 1, p <= e, e <= Len(b) + 1,
           NEW f, IsValueOf(f, b, p, e)
    PROVE  \A q \in p..e : f[q] \in 0..(UintSize - 1)
<1> DEFINE V == 0..(UintSize - 1)
           Bad == {n \in 0..(e - p) : f[e - n] \notin V}
<1>0. Len(b) \in Nat /\ UintSize \in Nat /\ UintSize > 0
      BY UintBase
<1>1. ASSUME Bad # {} PROVE FALSE
  <2>1. PICK n \in Bad : \A j \in Bad : n <= j
    <3>1. Bad \subseteq Nat
          OBVIOUS
    <3> HIDE DEF Bad
    <3> QED BY <1>1, <3>1, LeastNat
  <2> DEFINE q == e - n
  <2>2. n \in 0..(e - p) /\ q \in p..e /\ f[q] \notin V
        OBVIOUS
  <2>3. CASE n = 0
    <3>1. f[q] = 0
          BY <2>2, <2>3 DEF IsValueOf
    <3> QED BY <1>0, <2>2, <3>1
  <2>4. CASE n # 0
    <3> DEFINE m == n - 1
    <3>1. m \in 0..(e - p) /\ ~(n <= m) /\ e - m = q + 1 /\ q # e /\ q \in 1..Len(b)
          BY <1>0, <2>2, <2>4
    <3> HIDE DEF m, q
    <3>2. m \notin Bad
      <4> HIDE DEF Bad
      <4> QED BY <2>1, <3>1
    <3>3. f[q + 1] \in V
          BY <3>1, <3>2
    <3>4. f[q + 1] \in Int /\ b[q] % 128 \in Int
          BY <1>0, <3>1, <3>3, ByteRest
    <3>5. f[q] = (128 * f[q + 1] + (b[q] % 128)) % UintSize
          BY <2>2, <3>1 DEF IsValueOf
    <3>6. 128 * f[q + 1] + (b[q] % 128) \in Int
          BY <3>4
    <3> QED BY <2>2, <3>5, <3>6, UintRest
  <2> QED BY <2>3, <2>4
<1>2. ASSUME NEW q \in p..e PROVE f[q] \in V
  <2> DEFINE n == e - q
  <2>1. n \in 0..(e - p) /\ e - n = q
        OBVIOUS
  <2> HIDE DEF n
  <2>2. n \notin Bad
        BY <1>1
  <2> QED BY <2>1, <2>2
<1> QED BY <1>2

LEMMA ValueOfVarint ==
    ASSUME NEW b \in Seq(Byte), NEW p \in Nat, NEW e \in Nat, p >= 1, p <= e, e <= Len(b) + 1,
           NEW f, IsValueOf(f, b, p, e)
    PROVE  \A v \in 0..(UintSize - 1) : \A q \in p..e :
               StandsAt(b, q, Varint[v]) /\ q + Len(Varint[v]) = e => f[q] = v
<1> DEFINE Good(v) == \A q \in p..e : StandsAt(b, q, Varint[v]) /\ q + Len(Varint[v]) = e => f[q] = v
           Bad == {v \in 0..(UintSize - 1) : ~Good(v)}
<1>0. UintSize \in Nat /\ UintSize > 0 /\ Len(b) \in Nat
      BY UintBase
<1>1. ASSUME Bad # {} PROVE FALSE
  <2>1. PICK v \in Bad : \A j \in Bad : v <= j
    <3>1. Bad \subseteq Nat
          BY <1>0
    <3> HIDE DEF Bad
    <3> QED BY <1>1, <3>1, LeastNat
  <2>2. v \in 0..(UintSize - 1) /\ v \in Nat /\ ~Good(v)
        BY <1>0
  <2>3. PICK q \in p..e : StandsAt(b, q, Varint[v]) /\ q + Len(Varint[v]) = e /\ f[q] # v
        BY <2>2
  <2> HIDE DEF Bad
  <2>4. v % UintSize = v
        BY <2>2, UintMod
  <2>5. CASE v < 128
    <3>1. Varint[v] = <<v>>
          BY <2>2, <2>5, VarintSmall
    <3>2. Len(<<v>>) = 1 /\ <<v>>[1] = v
          OBVIOUS
    <3>3. q + 1 = e /\ b[q + 1 - 1] = v /\ q + 1 - 1 = q
      <4>1. 1 \in 1..Len(<<v>>)
            BY <3>2
      <4> QED BY <2>3, <3>1, <3>2, <4>1 DEF StandsAt
    <3>4. q # e /\ q + 1 \in p..e /\ f[q + 1] = 0
      <4>1. q # e /\ q + 1 \in p..e /\ q + 1 = e
            BY <3>3
      <4> QED BY <4>1 DEF IsValueOf
    <3>5. f[q] = (128 * 0 + (v % 128)) % UintSize
          BY <3>3, <3>4 DEF IsValueOf
    <3>6. v % 128 = v
          BY <2>2, <2>5, SmallMod
    <3>7. 128 * 0 + (v % 128) = v
          BY <2>2, <3>6
    <3> QED BY <2>3, <2>4, <3>5, <3>7
  <2>6. CASE ~(v < 128)
    <3> DEFINE d == v \div 128
               m == v % 128
               w == Varint[d]
               u == Varint[v]
    <3>1. /\ v >= 128 /\ d \in Nat /\ d < v /\ m \in 0..127 /\ 128 + m \in Byte
          /\ v = 128 * d + m
          BY <2>2, <2>6, Division DEF Byte
    <3>2. u = <<128 + m>> \o w
          BY <2>2, <3>1, VarintLarge
    <3>3. w \in Seq(Byte) /\ Len(w) \in Nat /\ Len(w) >= 1
          BY <3>1, VarintFacts DEF IsVarint
    <3> HIDE DEF d, m, w, u
    <3>4. /\ Len(u) = Len(w) + 1
          /\ u[1] = 128 + m
          /\ \A k \in 1..Len(w) : u[k + 1] = w[k]
          BY <3>1, <3>2, <3>3, ConsFacts
    <3>5. StandsAt(b, q, u) /\ q + Len(u) = e
          BY <2>3 DEF u
    <3>6. b[q] = 128 + m
      <4>1. 1 \in 1..Len(u) /\ q + 1 - 1 = q
            BY <3>3, <3>4
      <4> QED BY <3>4, <3>5, <4>1 DEF StandsAt
    <3>7. StandsAt(b, q + 1, w) /\ q + 1 + Len(w) = e
      <4>1. ASSUME NEW k \in 1..Len(w) PROVE b[q + 1 + k - 1] = w[k]
        <5>1. k + 1 \in 1..Len(u) /\ q + 1 + k - 1 = q + (k + 1) - 1
              BY <3>3, <3>4
        <5> QED BY <3>4, <3>5, <5>1 DEF StandsAt
      <4>2. q + 1 \in Nat /\ q + 1 >= 1 /\ q + 1 + Len(w) - 1 <= Len(b) /\ q + 1 + Len(w) = e
            BY <3>3, <3>4, <3>5 DEF StandsAt
      <4> QED BY <4>1, <4>2 DEF StandsAt
    <3>8. q # e /\ q + 1 \in p..e
          BY <3>3, <3>7
    <3>9. d \in 0..(UintSize - 1) /\ d \notin Bad
      <4>1. ~(v <= d) /\ d \in 0..(UintSize - 1)
            BY <1>0, <2>2, <3>1
      <4> QED BY <2>1, <4>1
    <3>10. Good(d)
          BY <3>9 DEF Bad
    <3>11. f[q + 1] = d
          BY <3>7, <3>8, <3>10 DEF w
    <3>12. (128 + m) % 128 = m
          BY <3>1, SmallMod
    <3>13. f[q] = (128 * d + m) % UintSize
          BY <3>6, <3>8, <3>11, <3>12 DEF IsValueOf
    <3> QED BY <2>3, <2>4, <3>1, <3>13
  <2> QED BY <2>5, <2>6
<1>2. \A v \in 0..(UintSize - 1) : v \notin Bad
      BY <1>1
<1> QED BY <1>2

\* A varint is read back as it was written.
LEMMA ReadVarint ==
    ASSUME NEW b, NEW p, NEW v \in 0..(UintSize - 1), StandsAt(b, p, Varint[v])
    PROVE  /\ Len(Varint[v]) \in 1..5 /\ p + Len(Varint[v]) <= Len(b) + 1
           /\ VarintEnd(b, p) = p + Len(Varint[v])
           /\ VarintValue(b, p) = v
           /\ VarintIsZero(b, p) <=> v = 0
<1> DEFINE w == Varint[v]
           n == Len(w)
           e == p + n
<1>1. v \in Nat /\ n \in 1..5 /\ IsVarint(w, v)
      BY UintBase, VarintSizeIsLen, VarintFacts
<1>2. /\ b \in Seq(Byte) /\ p \in Nat /\ p >= 1 /\ e - 1 <= Len(b) /\ e \in Nat
      /\ \A k \in 1..n : b[p + k - 1] = w[k]
      BY <1>1 DEF StandsAt
<1>3. b[e - 1] < 128 /\ \A r \in p..(e - 2) : b[r] >= 128
  <2>1. n \in 1..n /\ p + n - 1 = e - 1
    <3> HIDE DEF n
    <3> QED BY <1>1, <1>2
  <2>2. b[e - 1] < 128
        BY <1>1, <1>2, <2>1 DEF IsVarint
  <2>3. ASSUME NEW r \in p..(e - 2) PROVE b[r] >= 128
    <3> DEFINE k == r - p + 1
    <3>1. k \in 1..n /\ k < n /\ p + k - 1 = r
          BY <1>1, <1>2
    <3> HIDE DEF k, e
    <3> QED BY <1>1, <1>2, <3>1 DEF IsVarint
  <2> QED BY <2>2, <2>3
<1> HIDE DEF n, e, w
<1>4. VarintEnd(b, p) = e
  <2> DEFINE q == e - 1
  <2>1. /\ q \in Nat /\ p <= q /\ q <= Len(b) /\ q < p + VarintMax /\ b[q] < 128 /\ q + 1 = e
        /\ \A r \in p..(q - 1) : b[r] >= 128
        BY <1>1, <1>2, <1>3, VarintAssumption DEF e
  <2> HIDE DEF q
  <2> QED BY <1>2, <2>1, VarintEndAt
<1>5. p <= e /\ e <= Len(b) + 1 /\ p \in p..e
      BY <1>1, <1>2 DEF e
<1>6. VarintValue(b, p) = v
  <2>1. PICK f : IsValueOf(f, b, p, e) /\ VarintValue(b, p) = f[p]
        BY <1>2, <1>4, <1>5, ValueIs
  <2>2. f[p] = v
        BY <1>2, <1>5, <2>1, ValueOfVarint DEF w, n, e
  <2> QED BY <2>1, <2>2
<1>7. v = 0 => VarintIsZero(b, p)
  <2> SUFFICES ASSUME v = 0, NEW q \in p..(e - 1) PROVE b[q] % 128 = 0
      BY <1>4 DEF VarintIsZero
  <2>0. w = <<0>>
        BY VarintSmall DEF w
  <2>1. n = 1 /\ w[1] = 0
        BY <2>0 DEF n
  <2>2. q = p /\ q = p + 1 - 1 /\ 1 \in 1..n
        BY <1>2, <2>1 DEF e
  <2>3. b[q] = 0
        BY <1>2, <2>1, <2>2
  <2> QED BY <2>3, SmallMod
<1>8. v # 0 => ~VarintIsZero(b, p)
  <2> SUFFICES ASSUME v # 0 PROVE \E q \in p..(e - 1) : b[q] % 128 # 0
      BY <1>4 DEF VarintIsZero
  <2> DEFINE x == w[n]
  <2>1. n \in 1..n /\ p + n - 1 = e - 1 /\ e - 1 \in p..(e - 1)
        BY <1>1, <1>2 DEF e
  <2>2. x < 128 /\ x >= 1 /\ x \in Byte /\ b[e - 1] = x
        BY <1>1, <1>2, <2>1, SMTT(40) DEF IsVarint, n
  <2> HIDE DEF x
  <2>3. x \in 0..127 /\ x # 0
        BY <2>2 DEF Byte
  <2>4. b[e - 1] % 128 # 0
        BY <2>2, <2>3, SmallMod
  <2> QED BY <2>1, <2>4
<1> QED BY <1>1, <1>4, <1>5, <1>6, <1>7, <1>8 DEF w, n, e

-----------------------------------------------------------------------------
(* Sums and concatenations *)

\* f[k] is the concatenation of the first k sequences.
IsFlatten(f, S, s) ==
    /\ f \in [0..Len(s) -> Seq(S)] /\ f[0] = <<>>
    /\ \A k \in 1..Len(s) : f[k] = f[k - 1] \o s[k]
    /\ FlattenSeq(s) = f[Len(s)]

LEMMA FlattenFacts ==
    ASSUME NEW S, NEW s \in Seq(Seq(S))
    PROVE  \E f : IsFlatten(f, S, s)
<1> DEFINE V == Seq(S)
           N == Len(s)
           G == [nx \in (1..N) \X V |-> nx[2] \o s[nx[1]]]
           z == <<>>
<1>1. z \in V /\ N \in Nat /\ \A n \in 1..N : s[n] \in V
      OBVIOUS
<1>2. \A n \in 1..N, x \in V : x \o s[n] \in V
      BY <1>1, ConcatProperties
<1>3. G \in [(1..N) \X V -> V] /\ \A n \in 1..N, x \in V : G[<<n, x>>] = x \o s[n]
      BY <1>2
<1> HIDE DEF G
<1>4. PICK f : IsIteration(f, V, z, N, G)
  <2> HIDE DEF V, N, z
  <2> QED BY <1>1, <1>3, Iterate
<1>5. f \in [0..N -> V] /\ f[0] = z /\ \A n \in 1..N : f[n] = f[n - 1] \o s[n]
  <2>1. f \in [0..N -> V] /\ f[0] = z
        BY <1>4 DEF IsIteration
  <2>2. ASSUME NEW n \in 1..N PROVE f[n] = f[n - 1] \o s[n]
    <3>1. f[n - 1] \in V
      <4>1. n - 1 \in 0..N
            BY <1>1
      <4> QED BY <2>1, <4>1
    <3>2. f[n] = G[<<n, f[n - 1]>>]
          BY <1>4 DEF IsIteration
    <3> QED BY <1>3, <3>1, <3>2
  <2> QED BY <2>1, <2>2
<1>6. CASE N = 0
  <2>1. s = <<>>
        BY <1>6
  <2>2. FlattenSeq(s) = f[N]
        BY <1>5, <1>6, <2>1 DEF FlattenSeq
  <2> QED BY <1>5, <2>2 DEF IsFlatten
<1>7. CASE N # 0
  <2> DEFINE c == CHOOSE h : h = [i \in 1..Len(s) |-> IF i = 1 THEN s[i] ELSE h[i - 1] \o s[i]]
             g == [i \in 1..Len(s) |-> f[i]]
  <2>1. ASSUME NEW i \in 1..Len(s) PROVE g[i] = IF i = 1 THEN s[i] ELSE g[i - 1] \o s[i]
    <3>1. CASE i = 1
      <4>0. 1 \in 1..N /\ 1 - 1 = 0
            BY <1>1, <3>1
      <4>1. f[1] = f[1 - 1] \o s[1] /\ f[1 - 1] = z /\ s[1] \in Seq(S)
            BY <1>1, <1>5, <4>0
      <4>2. z \o s[1] = s[1]
            BY <4>1, ConcatEmptySeq
      <4> QED BY <3>1, <4>1, <4>2
    <3>2. CASE i # 1
      <4>1. i - 1 \in 1..Len(s)
            BY <1>1, <3>2
      <4> QED BY <1>5, <3>2, <4>1
    <3> QED BY <3>1, <3>2
  <2>2. g = [i \in 1..Len(s) |-> g[i]]
        OBVIOUS
  <2> HIDE DEF g
  <2>3. g = [i \in 1..Len(s) |-> IF i = 1 THEN s[i] ELSE g[i - 1] \o s[i]]
        BY <2>1, <2>2, ZenonT(60)
  <2>4. c = [i \in 1..Len(s) |-> IF i = 1 THEN s[i] ELSE c[i - 1] \o s[i]]
        BY <2>3, ZenonT(60)
  <2>5. FlattenSeq(s) = c[N]
        BY <1>7 DEF FlattenSeq
  <2> HIDE DEF c
  <2> DEFINE Bad == {i \in 1..N : c[i] # g[i]}
  <2>6. ASSUME Bad # {} PROVE FALSE
    <3>1. PICK i \in Bad : \A j \in Bad : i <= j
      <4>1. Bad \subseteq Nat
            BY <1>1
      <4> HIDE DEF Bad
      <4> QED BY <2>6, <4>1, LeastNat
    <3>2. i \in 1..N /\ c[i] # g[i]
          OBVIOUS
    <3>3. CASE i = 1
          BY <2>3, <2>4, <3>2, <3>3
    <3>4. CASE i # 1
      <4> DEFINE j == i - 1
      <4>1. j \in 1..N /\ ~(i <= j)
            BY <1>1, <3>2, <3>4
      <4>2. c[i] = c[j] \o s[i] /\ g[i] = g[j] \o s[i]
            BY <2>3, <2>4, <3>2, <3>4, ZenonT(60)
      <4> HIDE DEF j
      <4>3. j \notin Bad
        <5> HIDE DEF Bad
        <5> QED BY <3>1, <4>1
      <4> QED BY <3>2, <4>1, <4>2, <4>3, ZenonT(60)
    <3> QED BY <3>3, <3>4
  <2>7. c[N] = g[N] /\ g[N] = f[N]
    <3>1. N \in 1..N
          BY <1>1, <1>7
    <3> QED BY <2>6, <3>1 DEF g
  <2> QED BY <1>5, <2>5, <2>7 DEF IsFlatten
<1> QED BY <1>6, <1>7

\* f[k] is the sum of the first k numbers.
IsSum(f, s) ==
    /\ f \in [0..Len(s) -> Nat] /\ f[0] = 0
    /\ \A k \in 1..Len(s) : f[k] = f[k - 1] + s[k]
    /\ SumOf(s) = f[Len(s)]

LEMMA SumFacts ==
    ASSUME NEW s \in Seq(Nat)
    PROVE  \E f : IsSum(f, s)
<1> DEFINE N == Len(s)
           G == [nx \in (1..N) \X Nat |-> nx[2] + s[nx[1]]]
           z == 0
           V == Nat
<1>1. z \in V /\ N \in Nat /\ \A n \in 1..N : s[n] \in Nat
      OBVIOUS
<1>2. G \in [(1..N) \X V -> V] /\ \A n \in 1..N, x \in Nat : G[<<n, x>>] = x + s[n]
      BY <1>1, SMTT(40)
<1> HIDE DEF G
<1>3. PICK f : IsIteration(f, V, z, N, G)
  <2> HIDE DEF V, N, z
  <2> QED BY <1>1, <1>2, Iterate
<1>4. f \in [0..N -> Nat] /\ f[0] = 0 /\ \A n \in 1..N : f[n] = f[n - 1] + s[n]
  <2>1. f \in [0..N -> Nat] /\ f[0] = 0
        BY <1>3 DEF IsIteration
  <2>2. ASSUME NEW n \in 1..N PROVE f[n] = f[n - 1] + s[n]
    <3>1. f[n - 1] \in Nat
      <4>1. n - 1 \in 0..N
            BY <1>1
      <4> QED BY <2>1, <4>1
    <3>2. f[n] = G[<<n, f[n - 1]>>]
          BY <1>3 DEF IsIteration
    <3> QED BY <1>2, <3>1, <3>2
  <2> QED BY <2>1, <2>2
<1> DEFINE c == CHOOSE h : h = [i \in 0..Len(s) |-> IF i = 0 THEN 0 ELSE h[i - 1] + s[i]]
<1>5. f = [i \in 0..Len(s) |-> IF i = 0 THEN 0 ELSE f[i - 1] + s[i]]
  <2>1. ASSUME NEW i \in 0..Len(s) PROVE f[i] = IF i = 0 THEN 0 ELSE f[i - 1] + s[i]
    <3>1. i # 0 => i \in 1..N
          BY <1>1
    <3> QED BY <1>4, <3>1
  <2>2. f = [i \in 0..Len(s) |-> f[i]]
        BY <1>4
  <2> QED BY <2>1, <2>2
<1>6. c = [i \in 0..Len(s) |-> IF i = 0 THEN 0 ELSE c[i - 1] + s[i]]
      BY <1>5
<1>7. SumOf(s) = c[N]
      BY DEF SumOf
<1> HIDE DEF c
<1> DEFINE Bad == {i \in 0..N : c[i] # f[i]}
<1>8. ASSUME Bad # {} PROVE FALSE
  <2>1. PICK i \in Bad : \A j \in Bad : i <= j
    <3>1. Bad \subseteq Nat
          BY <1>1
    <3> HIDE DEF Bad
    <3> QED BY <1>8, <3>1, LeastNat
  <2>2. i \in 0..N /\ c[i] # f[i]
        OBVIOUS
  <2>3. CASE i = 0
        BY <1>5, <1>6, <2>2, <2>3
  <2>4. CASE i # 0
    <3> DEFINE j == i - 1
    <3>1. j \in 0..N /\ ~(i <= j)
          BY <1>1, <2>2, <2>4
    <3>2. c[i] = c[j] + s[i] /\ f[i] = f[j] + s[i]
          BY <1>5, <1>6, <2>2, <2>4
    <3> HIDE DEF j
    <3>3. j \notin Bad
      <4> HIDE DEF Bad
      <4> QED BY <2>1, <3>1
    <3> QED BY <2>2, <3>1, <3>2, <3>3
  <2> QED BY <2>3, <2>4
<1>9. c[N] = f[N]
  <2>1. N \in 0..N
        BY <1>1
  <2> QED BY <1>8, <2>1
<1> QED BY <1>4, <1>7, <1>9 DEF IsSum

LEMMA FlattenLen ==
    ASSUME NEW S, NEW s \in Seq(Seq(S)), NEW t \in Seq(Nat), Len(t) = Len(s),
           \A k \in 1..Len(s) : Len(s[k]) = t[k]
    PROVE  FlattenSeq(s) \in Seq(S) /\ Len(FlattenSeq(s)) = SumOf(t)
<1> DEFINE N == Len(s)
<1>1. N \in Nat /\ \A k \in 1..N : s[k] \in Seq(S) /\ t[k] \in Nat
      OBVIOUS
<1>2. PICK f : IsFlatten(f, S, s)
      BY FlattenFacts
<1>3. PICK g : IsSum(g, t)
      BY SumFacts
<1>4. f \in [0..N -> Seq(S)] /\ f[0] = <<>> /\ \A k \in 1..N : f[k] = f[k - 1] \o s[k]
      BY <1>2 DEF IsFlatten
<1>5. g \in [0..N -> Nat] /\ g[0] = 0 /\ \A k \in 1..N : g[k] = g[k - 1] + t[k]
      BY <1>3 DEF IsSum
<1> DEFINE Bad == {k \in 0..N : Len(f[k]) # g[k]}
<1>6. ASSUME Bad # {} PROVE FALSE
  <2>1. PICK k \in Bad : \A j \in Bad : k <= j
    <3>1. Bad \subseteq Nat
          BY <1>1
    <3> HIDE DEF Bad
    <3> QED BY <1>6, <3>1, LeastNat
  <2>2. k \in 0..N /\ Len(f[k]) # g[k]
        OBVIOUS
  <2>3. CASE k = 0
        BY <1>4, <1>5, <2>2, <2>3
  <2>4. CASE k # 0
    <3> DEFINE j == k - 1
    <3>1. j \in 0..N /\ ~(k <= j) /\ k \in 1..N
          BY <1>1, <2>2, <2>4
    <3>2. f[k] = f[j] \o s[k] /\ g[k] = g[j] + t[k]
          BY <1>4, <1>5, <3>1
    <3> HIDE DEF j
    <3>3. j \notin Bad
      <4> HIDE DEF Bad
      <4> QED BY <2>1, <3>1
    <3>4. Len(f[j]) = g[j]
          BY <3>1, <3>3
    <3>5. f[j] \in Seq(S) /\ s[k] \in Seq(S)
          BY <1>1, <1>4, <3>1
    <3>6. Len(f[j] \o s[k]) = Len(f[j]) + Len(s[k])
          BY ONLY <3>5, ConcatProperties
    <3> QED BY <2>2, <3>1, <3>2, <3>4, <3>6
  <2> QED BY <2>3, <2>4
<1>7. N \in 0..N
      BY <1>1
<1>8. Len(f[N]) = g[N]
      BY <1>6, <1>7
<1>9. FlattenSeq(s) = f[N] /\ SumOf(t) = g[N]
      BY <1>2, <1>3 DEF IsFlatten, IsSum
<1>10. f[N] \in Seq(S)
      BY <1>4, <1>7
<1> QED BY <1>8, <1>9, <1>10

-----------------------------------------------------------------------------
(* Messages *)

Classes == {handshake_q, handshake_r, entry, appendentries_q, appendentries_r,
            requestvote_q, requestvote_r}

Types == {"uint32", "bool", "enum", "string", "entries"}

\* The values of the fields: numbers, texts of addresses, and lists of entries.
Uint == 0..(UintSize - 1)

Text == {h \in Seq(1..127) : Len(h) <= 15}

EntryMsgs == {e \in [1..6 -> Uint \cup Text] :
                 e[5] \in Text /\ \A i \in 1..6 : i # 5 => e[i] \in Uint}

IsFieldValue(type, v) ==
    IF type = "bool" THEN v \in {0, 1}
    ELSE IF IsScalar(type) THEN v \in Uint
    ELSE IF type = "string" THEN v \in Text
    ELSE v \in Seq(EntryMsgs)

IsMsg(c, m) == m = [i \in 1..Len(c) |-> m[i]] /\ \A i \in 1..Len(c) : IsFieldValue(c[i], m[i])

LEMMA ClassFacts ==
    ASSUME NEW c \in Classes
    PROVE  /\ Len(c) \in 1..6 /\ DOMAIN c = 1..Len(c)
           /\ IsScalar(c[1])
           /\ \A i \in 1..Len(c) : c[i] \in Types
<1>1. CASE c = handshake_q
      BY <1>1 DEF handshake_q, Types, IsScalar
<1>2. CASE c = handshake_r
      BY <1>2 DEF handshake_r, Types, IsScalar
<1>3. CASE c = entry
      BY <1>3 DEF entry, Types, IsScalar
<1>4. CASE c = appendentries_q
      BY <1>4 DEF appendentries_q, Types, IsScalar
<1>5. CASE c = appendentries_r
      BY <1>5 DEF appendentries_r, Types, IsScalar
<1>6. CASE c = requestvote_q
      BY <1>6 DEF requestvote_q, Types, IsScalar
<1>7. CASE c = requestvote_r
      BY <1>7 DEF requestvote_r, Types, IsScalar
<1> QED BY <1>1, <1>2, <1>3, <1>4, <1>5, <1>6, <1>7 DEF Classes

LEMMA EntryClass ==
    /\ entry \in Classes /\ Len(entry) = 6 /\ DOMAIN entry = 1..6
    /\ \A i \in 1..6 : /\ entry[i] # "entries" /\ entry[i] # "bool"
                       /\ i # 5 <=> IsScalar(entry[i])
                       /\ i = 5 <=> entry[i] = "string"
<1>1. entry \in Classes /\ Len(entry) = 6 /\ DOMAIN entry = 1..6
      BY DEF Classes, entry
<1>2. ASSUME NEW i \in 1..6
      PROVE  /\ entry[i] # "entries" /\ entry[i] # "bool"
             /\ i # 5 <=> IsScalar(entry[i])
             /\ i = 5 <=> entry[i] = "string"
  <2>1. i = 1 \/ i = 2 \/ i = 3 \/ i = 4 \/ i = 5 \/ i = 6
        OBVIOUS
  <2> QED BY <2>1 DEF entry, IsScalar
<1> QED BY <1>1, <1>2

LEMMA EntryMsg ==
    ASSUME NEW e \in EntryMsgs
    PROVE  IsMsg(entry, e)
<1>1. e = [i \in 1..6 |-> e[i]] /\ e[5] \in Text /\ \A i \in 1..6 : i # 5 => e[i] \in Uint
      BY DEF EntryMsgs
<1>2. ASSUME NEW i \in 1..6 PROVE IsFieldValue(entry[i], e[i])
  <2>1. CASE i = 5
    <3>1. entry[5] = "string" /\ ~IsScalar(entry[5]) /\ entry[5] # "bool"
          BY EntryClass
    <3> QED BY <1>1, <2>1, <3>1 DEF IsFieldValue
  <2>2. CASE i # 5
    <3>1. IsScalar(entry[i]) /\ entry[i] # "bool"
          BY <2>2, EntryClass
    <3> QED BY <1>1, <2>2, <3>1 DEF IsFieldValue
  <2> QED BY <2>1, <2>2
<1> QED BY <1>1, <1>2, EntryClass DEF IsMsg

-----------------------------------------------------------------------------
(* The bytes and the size of a field *)

NonZero == 1..255

LEMMA NonZeroIsByte ==
    ASSUME NEW w \in Seq(NonZero)
    PROVE  w \in Seq(Byte)
<1>1. NonZero \subseteq Byte
      BY DEF NonZero, Byte
<1> QED BY <1>1, SeqMonotonic

\* Delimited bytes: the tag, the length, the bytes.
LEMMA DelimitedFacts ==
    ASSUME NEW tag \in NonZero, NEW w \in Seq(Byte), Len(w) \in Uint
    PROVE  /\ Delimited(tag, w) \in Seq(Byte)
           /\ Len(Delimited(tag, w)) = 1 + VarintSize(Len(w)) + Len(w)
           /\ Delimited(tag, w)[1] = tag
           /\ \A k \in 1..Len(Varint[Len(w)]) : Delimited(tag, w)[1 + k] = Varint[Len(w)][k]
           /\ \A k \in 1..Len(w) : Delimited(tag, w)[1 + Len(Varint[Len(w)]) + k] = w[k]
           /\ w \in Seq(NonZero) /\ w # <<>> => Delimited(tag, w) \in Seq(NonZero)
<1> DEFINE n == Len(w)
           u == Varint[n]
           t == <<tag>>
           tu == t \o u
           d == tu \o w
<1>1. n \in Uint /\ n \in Nat
      OBVIOUS
<1> HIDE DEF n
<1>2. u \in Seq(Byte) /\ Len(u) = VarintSize(n) /\ Len(u) \in Nat
      BY <1>1, VarintFacts, VarintSizeIsLen DEF IsVarint, Uint
<1>3. t \in Seq(Byte) /\ Len(t) = 1 /\ t[1] = tag
      BY DEF NonZero, Byte
<1>4. Delimited(tag, w) = d
      BY DEF Delimited, n
<1>5. n = Len(w)
      BY DEF n
<1> HIDE DEF u, t
<1>6. /\ tu \in Seq(Byte) /\ Len(tu) = 1 + Len(u)
      /\ \A i \in 1..(1 + Len(u)) : tu[i] = IF i <= 1 THEN t[i] ELSE u[i - 1]
  <2>1. /\ t \o u \in Seq(Byte) /\ Len(t \o u) = Len(t) + Len(u)
        /\ \A i \in 1..(Len(t) + Len(u)) : (t \o u)[i] = IF i <= Len(t) THEN t[i] ELSE u[i - Len(t)]
        BY ONLY <1>2, <1>3, ConcatProperties
  <2> QED BY <1>3, <2>1
<1> HIDE DEF tu
<1>7. /\ d \in Seq(Byte) /\ Len(d) = 1 + Len(u) + n
      /\ \A i \in 1..(1 + Len(u) + n) : d[i] = IF i <= 1 + Len(u) THEN tu[i] ELSE w[i - (1 + Len(u))]
  <2>1. /\ tu \o w \in Seq(Byte) /\ Len(tu \o w) = Len(tu) + Len(w)
        /\ \A i \in 1..(Len(tu) + Len(w)) : (tu \o w)[i] = IF i <= Len(tu) THEN tu[i] ELSE w[i - Len(tu)]
        BY ONLY <1>6, w \in Seq(Byte), ConcatProperties
  <2> QED BY <1>5, <1>6, <2>1
<1> HIDE DEF d
<1>8. d[1] = tag
  <2>1. 1 \in 1..(1 + Len(u) + n) /\ 1 \in 1..(1 + Len(u)) /\ 1 <= 1 + Len(u)
        BY <1>1, <1>2
  <2> QED BY <1>3, <1>6, <1>7, <2>1
<1>9. ASSUME NEW k \in 1..Len(u) PROVE d[1 + k] = u[k]
  <2>1. /\ 1 + k \in 1..(1 + Len(u) + n) /\ 1 + k \in 1..(1 + Len(u)) /\ 1 + k <= 1 + Len(u)
        /\ ~(1 + k <= 1) /\ 1 + k - 1 = k
        BY <1>1, <1>2
  <2>2. d[1 + k] = tu[1 + k] /\ tu[1 + k] = u[1 + k - 1]
        BY <1>6, <1>7, <2>1
  <2> QED BY <2>1, <2>2
<1>10. ASSUME NEW k \in 1..n PROVE d[1 + Len(u) + k] = w[k]
  <2>1. /\ 1 + Len(u) + k \in 1..(1 + Len(u) + n) /\ ~(1 + Len(u) + k <= 1 + Len(u))
        /\ 1 + Len(u) + k - (1 + Len(u)) = k
        BY <1>1, <1>2
  <2> QED BY <1>7, <2>1
<1>11. ASSUME w \in Seq(NonZero), w # <<>> PROVE d \in Seq(NonZero)
  <2>1. n >= 1
        BY <1>1, <1>5, <1>11
  <2>2. \A k \in 1..Len(u) : u[k] \in NonZero
    <3>1. IsVarint(u, n)
          BY <1>1, VarintFacts DEF u
    <3> SUFFICES ASSUME NEW k \in 1..Len(u) PROVE u[k] \in NonZero
        OBVIOUS
    <3> DEFINE x == u[k]
    <3>2. x >= 1 /\ x \in Byte
          BY <1>2, <2>1, <3>1 DEF IsVarint
    <3> HIDE DEF x
    <3>3. x \in NonZero
          BY <3>2 DEF Byte, NonZero
    <3> QED BY <3>3 DEF x
  <2>3. ASSUME NEW i \in 1..Len(d) PROVE d[i] \in NonZero
    <3>1. CASE i = 1
          BY <1>8, <3>1
    <3>2. CASE i > 1 /\ i <= 1 + Len(u)
      <4> DEFINE k == i - 1
      <4>1. k \in 1..Len(u) /\ 1 + k = i
            BY <1>2, <3>2
      <4> HIDE DEF k
      <4> QED BY <1>9, <2>2, <4>1
    <3>3. CASE i > 1 + Len(u)
      <4> DEFINE k == i - (1 + Len(u))
      <4>0. Len(d) = 1 + Len(u) + n /\ i \in Int /\ i <= 1 + Len(u) + n
            BY <1>1, <1>2, <1>7
      <4>1. k \in 1..n /\ 1 + Len(u) + k = i
            BY <1>1, <1>2, <3>3, <4>0
      <4>2. w[k] \in NonZero
            BY <1>5, <1>11, <4>1
      <4> HIDE DEF k
      <4> QED BY <1>10, <4>1, <4>2
    <3> QED BY <1>1, <1>2, <1>7, <3>1, <3>2, <3>3
  <2>4. d = [i \in 1..Len(d) |-> d[i]] /\ Len(d) \in Nat
        BY <1>7
  <2> QED BY <2>3, <2>4, IsASeq
<1> QED BY <1>2, <1>4, <1>5, <1>7, <1>8, <1>9, <1>10, <1>11 DEF u, n

LEMMA ScalarFieldFacts ==
    ASSUME NEW i \in 1..6, NEW v \in Uint
    PROVE  /\ ScalarField(i, v) \in Seq(NonZero)
           /\ Len(ScalarField(i, v)) = IF v = 0 THEN 0 ELSE 1 + VarintSize(v)
           /\ Len(ScalarField(i, v)) \in 0..6
           /\ v < 128 => Len(ScalarField(i, v)) <= 2
           /\ v # 0 => /\ Len(ScalarField(i, v)) = 1 + Len(Varint[v])
                       /\ ScalarField(i, v)[1] = 8 * i
                       /\ \A k \in 1..Len(Varint[v]) : ScalarField(i, v)[1 + k] = Varint[v][k]
<1>1. CASE v = 0
  <2> DEFINE d == ScalarField(i, v)
  <2>1. d = <<>>
        BY <1>1 DEF ScalarField
  <2>2. d \in Seq(NonZero) /\ Len(d) = 0
        BY <2>1
  <2> HIDE DEF d
  <2>3. Len(d) \in 0..6 /\ Len(d) <= 2
        BY <2>2
  <2> QED BY <1>1, <2>2, <2>3 DEF d
<1>2. CASE v # 0
  <2> DEFINE u == Varint[v]
             x == 8 * i
             d == <<x>> \o u
  <2>1. x \in NonZero /\ v \in Nat /\ v >= 1
        BY <1>2, UintBase DEF NonZero, Uint
  <2>2. IsVarint(u, v) /\ Len(u) = VarintSize(v) /\ Len(u) \in 1..5 /\ (v < 128 => Len(u) = 1)
        BY <2>1, VarintFacts, VarintSizeIsLen, VarintLen DEF Uint
  <2>3. ScalarField(i, v) = d
        BY <1>2 DEF ScalarField
  <2> HIDE DEF x, u
  <2>4. u \in Seq(NonZero)
    <3>1. u \in Seq(Byte) /\ Len(u) \in Nat /\ \A k \in 1..Len(u) : u[k] >= 1
          BY <2>1, <2>2 DEF IsVarint
    <3>2. ASSUME NEW k \in 1..Len(u) PROVE u[k] \in NonZero
      <4> DEFINE y == u[k]
      <4>1. y \in Byte /\ y >= 1
            BY <3>1
      <4> HIDE DEF y
      <4>2. y \in NonZero
            BY <4>1 DEF Byte, NonZero
      <4> QED BY <4>2 DEF y
    <3>3. u = [k \in 1..Len(u) |-> u[k]]
          BY <3>1
    <3> QED BY <3>1, <3>2, <3>3, IsASeq
  <2>5. /\ d \in Seq(NonZero) /\ Len(d) = Len(u) + 1 /\ d[1] = x
        /\ \A k \in 1..Len(u) : d[k + 1] = u[k]
        BY <2>1, <2>4, ConsFacts
  <2>6. \A k \in 1..Len(u) : k + 1 = 1 + k
        BY <2>2
  <2> HIDE DEF d
  <2>7. \A k \in 1..Len(u) : d[1 + k] = u[k]
        BY <2>5, <2>6
  <2> QED BY <1>2, <2>2, <2>3, <2>5, <2>7 DEF u, x
<1> QED BY <1>1, <1>2

LEMMA TextFacts ==
    ASSUME NEW h \in Text
    PROVE  /\ h \in Seq(NonZero) /\ h \in Seq(Byte) /\ Len(h) \in 0..15 /\ Len(h) \in Uint
           /\ \A k \in DOMAIN h : h[k] < 128
           /\ h # <<>> => Len(h) >= 1
<1>1. h \in Seq(1..127) /\ Len(h) <= 15 /\ Len(h) \in Nat
      BY DEF Text
<1>2. 1..127 \subseteq NonZero
      BY DEF NonZero
<1>3. h \in Seq(NonZero)
      BY <1>1, <1>2, SeqMonotonic
<1>4. Len(h) \in Uint
      BY <1>1, UintBase DEF Uint
<1>5. h \in Seq(Byte)
      BY <1>3, NonZeroIsByte
<1>6. ASSUME NEW k \in DOMAIN h PROVE h[k] < 128
  <2> DEFINE x == h[k]
             T == 1..127
  <2>0. h \in Seq(T)
        BY <1>1
  <2> HIDE DEF T
  <2>1. x \in T
        BY <2>0
  <2> HIDE DEF x
  <2>2. x < 128
        BY <2>1 DEF T
  <2> QED BY <2>2 DEF x
<1>7. h # <<>> => Len(h) >= 1
      BY <1>1
<1>8. Len(h) \in 0..15
  <2> DEFINE n == Len(h)
  <2>1. n \in Nat /\ n <= 15
        BY <1>1
  <2> HIDE DEF n
  <2>2. n \in 0..15
        BY <2>1
  <2> QED BY <2>2 DEF n
<1> QED BY <1>3, <1>4, <1>5, <1>6, <1>7, <1>8, Zenon

LEMMA SmallSize ==
    ASSUME NEW n \in 0..127
    PROVE  VarintSize(n) = 1 /\ Varint[n] = <<n>> /\ n \in Uint
<1>1. n \in Nat /\ n < 128 /\ n \in 0..(UintSize - 1)
      BY UintBase
<1>2. Varint[n] = <<n>>
      BY <1>1, VarintSmall
<1>3. Len(Varint[n]) = 1
      BY <1>2
<1>4. Len(Varint[n]) = VarintSize(n)
      BY <1>1, VarintSizeIsLen
<1> QED BY <1>1, <1>2, <1>3, <1>4 DEF Uint

LEMMA StringFieldFacts ==
    ASSUME NEW i \in 1..6, NEW h \in Text
    PROVE  /\ StringField(i, h) \in Seq(NonZero)
           /\ Len(StringField(i, h)) = IF h = <<>> THEN 0 ELSE 1 + VarintSize(Len(h)) + Len(h)
           /\ Len(StringField(i, h)) \in 0..17
<1>1. CASE h = <<>>
  <2> DEFINE d == StringField(i, h)
  <2>1. d = <<>>
        BY <1>1 DEF StringField
  <2>2. d \in Seq(NonZero) /\ Len(d) = 0
        BY <2>1
  <2> HIDE DEF d
  <2>3. Len(d) \in 0..17
        BY <2>2
  <2> QED BY <1>1, <2>2, <2>3 DEF d
<1>2. CASE h # <<>>
  <2> DEFINE tag == 8 * i + 2
             d == Delimited(tag, h)
  <2>1. tag \in NonZero
        BY DEF NonZero
  <2>2. StringField(i, h) = d
        BY <1>2 DEF StringField
  <2> HIDE DEF tag
  <2>3. h \in Seq(NonZero) /\ h \in Seq(Byte) /\ Len(h) \in Uint /\ Len(h) \in 0..15
        BY TextFacts
  <2>4. d \in Seq(NonZero) /\ Len(d) = 1 + VarintSize(Len(h)) + Len(h)
        BY <1>2, <2>1, <2>3, DelimitedFacts
  <2> DEFINE n == Len(h)
  <2>5. n \in 0..15 /\ Len(d) = 1 + VarintSize(n) + n
        BY <2>3, <2>4
  <2> HIDE DEF d, n
  <2>6. Len(d) \in 0..17
    <3>1. n \in 0..127
          BY <2>5
    <3>2. VarintSize(n) = 1
          BY <3>1, SmallSize
    <3> QED BY <2>5, <3>2
  <2> QED BY <1>2, <2>2, <2>4, <2>6
<1> QED BY <1>1, <1>2

-----------------------------------------------------------------------------
(* The bytes and the size of a message *)

\* The bytes and the size of field i.
Part(c, m, i) ==
    IF IsScalar(c[i]) THEN ScalarField(i, m[i])
    ELSE IF c[i] = "string" THEN StringField(i, m[i])
    ELSE EntriesField(i, m[i])

Parts(c, m) == [i \in 1..Len(c) |-> Part(c, m, i)]

EntriesSizes(es) == [k \in DOMAIN es |-> 1 + VarintSize(EntrySize(es[k])) + EntrySize(es[k])]

PartSize(c, m, i) ==
    IF c[i] = "entries" THEN SumOf(EntriesSizes(m[i])) ELSE FieldSize(c[i], m[i])

PartSizes(c, m) == [i \in 1..Len(c) |-> PartSize(c, m, i)]

LEMMA SerializeIsParts ==
    ASSUME NEW c \in Classes, NEW m
    PROVE  /\ Serialize(c, m) = FlattenSeq(Parts(c, m))
           /\ ByteSizeLong(c, m) = SumOf(PartSizes(c, m))
<1>1. DOMAIN c = 1..Len(c) /\ \A i \in 1..Len(c) : c[i] \in Types
      BY ClassFacts
<1> DEFINE P(i) == CASE IsScalar(c[i])   -> ScalarField(i, m[i])
                     [] c[i] = "string"  -> StringField(i, m[i])
                     [] c[i] = "entries" -> EntriesField(i, m[i])
<1>2. ASSUME NEW i \in 1..Len(c) PROVE P(i) = Part(c, m, i)
  <2>1. CASE IsScalar(c[i])
    <3>1. c[i] # "string" /\ c[i] # "entries"
          BY <2>1 DEF IsScalar
    <3> QED BY <2>1, <3>1 DEF Part
  <2>2. CASE ~IsScalar(c[i])
    <3>1. c[i] = "string" \/ c[i] = "entries"
          BY <1>1, <2>2 DEF Types, IsScalar
    <3> QED BY <2>2, <3>1 DEF Part
  <2> QED BY <2>1, <2>2
<1>3. [i \in DOMAIN c |-> P(i)] = Parts(c, m)
      BY <1>1, <1>2, Zenon DEF Parts
<1>4. Serialize(c, m) = FlattenSeq([i \in DOMAIN c |-> P(i)])
      BY DEF Serialize
<1>5. ByteSizeLong(c, m) = SumOf(PartSizes(c, m))
      BY <1>1, Zenon DEF ByteSizeLong, PartSizes, PartSize, EntriesSizes
<1> QED BY <1>3, <1>4, <1>5

LEMMA EntryParts ==
    ASSUME NEW e
    PROVE  /\ SerializeEntry(e) = FlattenSeq(Parts(entry, e))
           /\ EntrySize(e) = SumOf(PartSizes(entry, e))
<1>1. /\ DOMAIN entry = 1..Len(entry)
      /\ \A i \in 1..Len(entry) : entry[i] # "entries" /\ (~IsScalar(entry[i]) => entry[i] = "string")
      BY EntryClass
<1> DEFINE P(i) == IF IsScalar(entry[i]) THEN ScalarField(i, e[i]) ELSE StringField(i, e[i])
           Z(i) == FieldSize(entry[i], e[i])
<1>2. \A i \in 1..Len(entry) : P(i) = Part(entry, e, i) /\ Z(i) = PartSize(entry, e, i)
      BY <1>1 DEF Part, PartSize
<1>3. [i \in DOMAIN entry |-> P(i)] = Parts(entry, e)
      BY <1>1, <1>2, Zenon DEF Parts
<1>4. [i \in DOMAIN entry |-> Z(i)] = PartSizes(entry, e)
      BY <1>1, <1>2, Zenon DEF PartSizes
<1>5. SerializeEntry(e) = FlattenSeq([i \in DOMAIN entry |-> P(i)])
      BY DEF SerializeEntry
<1>6. EntrySize(e) = SumOf([i \in DOMAIN entry |-> Z(i)])
      BY DEF EntrySize
<1> QED BY <1>3, <1>4, <1>5, <1>6

\* A function on 1..n is a sequence.
LEMMA FunctionIsSeq ==
    ASSUME NEW S, NEW n, n \in Nat, NEW s, s = [i \in 1..n |-> s[i]], \A i \in 1..n : s[i] \in S
    PROVE  s \in Seq(S) /\ Len(s) = n
<1>1. s \in [1..n -> S]
      OBVIOUS
<1>2. s \in Seq(S)
      BY <1>1, SeqDef
<1>3. DOMAIN s = 1..n
      BY <1>1
<1> QED BY <1>2, <1>3

\* A field of an entry: its bytes are not zero, and its size is right.
LEMMA EntryPart ==
    ASSUME NEW e \in EntryMsgs, NEW i \in 1..6
    PROVE  /\ Part(entry, e, i) \in Seq(NonZero)
           /\ Len(Part(entry, e, i)) = PartSize(entry, e, i)
           /\ PartSize(entry, e, i) \in Nat
           /\ i = 5 => PartSize(entry, e, i) <= 17
           /\ i # 5 => /\ PartSize(entry, e, i) <= 6
                       /\ e[i] < 128 => PartSize(entry, e, i) <= 2
                       /\ e[i] = 0 => PartSize(entry, e, i) = 0
<1> DEFINE d == Part(entry, e, i)
           z == PartSize(entry, e, i)
<1>1. e[5] \in Text /\ \A j \in 1..6 : j # 5 => e[j] \in Uint
      BY DEF EntryMsgs
<1>2. CASE i = 5
  <2>1. entry[i] = "string" /\ ~IsScalar(entry[i]) /\ entry[i] # "entries"
        BY <1>2, EntryClass
  <2>2. d = StringField(i, e[i]) /\ z = FieldSize(entry[i], e[i])
        BY <2>1 DEF Part, PartSize
  <2>3. /\ d \in Seq(NonZero) /\ Len(d) \in 0..17
        /\ Len(d) = IF e[i] = <<>> THEN 0 ELSE 1 + VarintSize(Len(e[i])) + Len(e[i])
        BY <1>1, <1>2, <2>2, StringFieldFacts
  <2>4. Len(d) = z
        BY <2>1, <2>2, <2>3 DEF FieldSize
  <2> HIDE DEF d, z
  <2>5. z \in Nat /\ z <= 17
        BY <2>3, <2>4
  <2> QED BY <1>2, <2>3, <2>4, <2>5 DEF d, z
<1>3. CASE i # 5
  <2>1. IsScalar(entry[i]) /\ entry[i] # "entries"
        BY <1>3, EntryClass
  <2>2. d = ScalarField(i, e[i]) /\ z = FieldSize(entry[i], e[i])
        BY <2>1 DEF Part, PartSize
  <2>3. /\ d \in Seq(NonZero) /\ Len(d) \in 0..6
        /\ Len(d) = IF e[i] = 0 THEN 0 ELSE 1 + VarintSize(e[i])
        /\ e[i] < 128 => Len(d) <= 2
    <3> DEFINE v == e[i]
    <3>1. v \in Uint /\ d = ScalarField(i, v)
          BY <1>1, <1>3, <2>2
    <3> HIDE DEF v, d
    <3>2. /\ d \in Seq(NonZero) /\ Len(d) \in 0..6
          /\ Len(d) = IF v = 0 THEN 0 ELSE 1 + VarintSize(v)
          /\ v < 128 => Len(d) <= 2
          BY <3>1, ScalarFieldFacts
    <3> QED BY <3>2 DEF v
  <2>4. Len(d) = z
        BY <2>1, <2>2, <2>3 DEF FieldSize
  <2> HIDE DEF d, z
  <2>5. z \in Nat /\ z <= 6 /\ (e[i] < 128 => z <= 2) /\ (e[i] = 0 => z = 0)
        BY <2>3, <2>4
  <2> QED BY <1>3, <2>3, <2>4, <2>5 DEF d, z
<1> QED BY <1>2, <1>3

LEMMA EntryBytes ==
    ASSUME NEW e \in EntryMsgs
    PROVE  /\ SerializeEntry(e) \in Seq(NonZero)
           /\ Len(SerializeEntry(e)) = EntrySize(e)
           /\ EntrySize(e) \in 0..47
           /\ e[1] < 128 /\ e[6] = 0 => EntrySize(e) <= 37
           /\ SerializeEntry(e) = Serialize(entry, e)
<1> DEFINE s == Parts(entry, e)
           t == PartSizes(entry, e)
<1>1. \A i \in 1..6 : s[i] = Part(entry, e, i) /\ t[i] = PartSize(entry, e, i)
      BY EntryClass DEF Parts, PartSizes
<1>2. s = [i \in 1..6 |-> s[i]] /\ t = [i \in 1..6 |-> t[i]]
      BY EntryClass DEF Parts, PartSizes
<1>3. \A i \in 1..6 : /\ s[i] \in Seq(NonZero) /\ Len(s[i]) = t[i] /\ t[i] \in Nat
                      /\ i = 5 => t[i] <= 17
                      /\ i # 5 => t[i] <= 6 /\ (e[i] < 128 => t[i] <= 2) /\ (e[i] = 0 => t[i] = 0)
      BY <1>1, EntryPart
<1>4. SerializeEntry(e) = FlattenSeq(s) /\ EntrySize(e) = SumOf(t) /\ SerializeEntry(e) = Serialize(entry, e)
      BY EntryParts, EntryClass, SerializeIsParts
<1> HIDE DEF s, t
<1>5. s \in Seq(Seq(NonZero)) /\ Len(s) = 6
      BY <1>2, <1>3, FunctionIsSeq
<1>6. t \in Seq(Nat) /\ Len(t) = 6
      BY <1>2, <1>3, FunctionIsSeq
<1>7. FlattenSeq(s) \in Seq(NonZero) /\ Len(FlattenSeq(s)) = SumOf(t)
      BY <1>3, <1>5, <1>6, FlattenLen
<1>8. PICK g : IsSum(g, t)
      BY <1>6, SumFacts
<1>9. /\ g[0] = 0 /\ SumOf(t) = g[6]
      /\ g[1] = g[0] + t[1] /\ g[2] = g[1] + t[2] /\ g[3] = g[2] + t[3]
      /\ g[4] = g[3] + t[4] /\ g[5] = g[4] + t[5] /\ g[6] = g[5] + t[6]
  <2>1. \A k \in 1..6 : g[k] = g[k - 1] + t[k]
        BY <1>6, <1>8 DEF IsSum
  <2>2. g[0] = 0 /\ SumOf(t) = g[6]
        BY <1>6, <1>8 DEF IsSum
  <2> QED BY <2>1, <2>2
<1>10. SumOf(t) = t[1] + t[2] + t[3] + t[4] + t[5] + t[6]
  <2>1. t[1] \in Nat /\ t[2] \in Nat /\ t[3] \in Nat /\ t[4] \in Nat /\ t[5] \in Nat /\ t[6] \in Nat
        BY <1>3
  <2> QED BY <1>9, <2>1
<1>11. /\ t[1] \in 0..6 /\ t[2] \in 0..6 /\ t[3] \in 0..6 /\ t[4] \in 0..6 /\ t[5] \in 0..17 /\ t[6] \in 0..6
       /\ e[1] < 128 => t[1] <= 2
       /\ e[6] = 0 => t[6] = 0
  <2>1. ASSUME NEW i \in 1..6, i # 5 PROVE t[i] \in 0..6
    <3> DEFINE x == t[i]
    <3>1. x \in Nat /\ x <= 6
          BY <1>3, <2>1
    <3> HIDE DEF x
    <3>2. x \in 0..6
          BY <3>1
    <3> QED BY <3>2 DEF x
  <2>2. t[5] \in 0..17
    <3> DEFINE x == t[5]
    <3>1. x \in Nat /\ x <= 17
          BY <1>3
    <3> HIDE DEF x
    <3>2. x \in 0..17
          BY <3>1
    <3> QED BY <3>2 DEF x
  <2>3. (e[1] < 128 => t[1] <= 2) /\ (e[6] = 0 => t[6] = 0)
        BY <1>3
  <2> QED BY <2>1, <2>2, <2>3
<1>12. SumOf(t) \in 0..47 /\ (e[1] < 128 /\ e[6] = 0 => SumOf(t) <= 37)
      BY <1>10, <1>11
<1> QED BY <1>4, <1>7, <1>12

\* The entries of a message, each with its tag and length.
Pieces(i, es) == [k \in 1..Len(es) |-> Delimited(8 * i + 2, SerializeEntry(es[k]))]

LEMMA PieceFacts ==
    ASSUME NEW i \in 1..6, NEW es \in Seq(EntryMsgs)
    PROVE  /\ EntriesField(i, es) = FlattenSeq(Pieces(i, es))
           /\ Pieces(i, es) \in Seq(Seq(Byte)) /\ Len(Pieces(i, es)) = Len(es)
           /\ EntriesSizes(es) \in Seq(Nat) /\ Len(EntriesSizes(es)) = Len(es)
           /\ \A k \in 1..Len(es) : /\ Pieces(i, es)[k] = Delimited(8 * i + 2, SerializeEntry(es[k]))
                                    /\ Len(Pieces(i, es)[k]) = EntriesSizes(es)[k]
<1> DEFINE s == Pieces(i, es)
           t == EntriesSizes(es)
           n == Len(es)
           tag == 8 * i + 2
<1>1. n \in Nat /\ DOMAIN es = 1..n /\ \A k \in 1..n : es[k] \in EntryMsgs
      OBVIOUS
<1>2. EntriesField(i, es) = FlattenSeq(s)
      BY <1>1, Zenon DEF EntriesField, Pieces
<1>3. /\ s = [k \in 1..n |-> s[k]] /\ t = [k \in 1..n |-> t[k]]
      /\ \A k \in 1..n : s[k] = Delimited(tag, SerializeEntry(es[k]))
      /\ \A k \in 1..n : t[k] = 1 + VarintSize(EntrySize(es[k])) + EntrySize(es[k])
      BY <1>1 DEF Pieces, EntriesSizes
<1>4. tag \in NonZero
      BY DEF NonZero
<1>5. ASSUME NEW k \in 1..n PROVE s[k] \in Seq(Byte) /\ Len(s[k]) = t[k] /\ t[k] \in Nat
  <2> DEFINE w == SerializeEntry(es[k])
  <2>1. w \in Seq(NonZero) /\ Len(w) = EntrySize(es[k]) /\ Len(w) \in 0..47
        BY <1>1, EntryBytes
  <2>2. s[k] = Delimited(tag, w)
        BY <1>3
  <2> HIDE DEF w, s, tag
  <2>3. w \in Seq(Byte)
        BY <2>1, NonZeroIsByte
  <2>4. Len(w) \in Uint /\ VarintSize(Len(w)) = 1
    <3>1. Len(w) \in 0..127
          BY <2>1
    <3> QED BY <3>1, SmallSize
  <2>5. s[k] \in Seq(Byte) /\ Len(s[k]) = 1 + VarintSize(Len(w)) + Len(w)
        BY <1>4, <2>2, <2>3, <2>4, DelimitedFacts
  <2>6. t[k] = 1 + VarintSize(Len(w)) + Len(w)
        BY <1>3, <2>1
  <2>7. t[k] \in Nat
        BY <2>1, <2>4, <2>6
  <2> QED BY <2>5, <2>6, <2>7
<1> HIDE DEF s, t, n, tag
<1>6. s \in Seq(Seq(Byte)) /\ Len(s) = n
      BY <1>1, <1>3, <1>5, FunctionIsSeq
<1>7. t \in Seq(Nat) /\ Len(t) = n
      BY <1>1, <1>3, <1>5, FunctionIsSeq
<1> QED BY <1>2, <1>3, <1>5, <1>6, <1>7 DEF s, t, n, tag

LEMMA PartFacts ==
    ASSUME NEW c \in Classes, NEW m, IsMsg(c, m), NEW i \in 1..Len(c)
    PROVE  /\ Part(c, m, i) \in Seq(Byte)
           /\ Len(Part(c, m, i)) = PartSize(c, m, i)
           /\ PartSize(c, m, i) \in Nat
<1> DEFINE d == Part(c, m, i)
           z == PartSize(c, m, i)
           v == m[i]
<1>1. i \in 1..6 /\ c[i] \in Types /\ IsFieldValue(c[i], v)
      BY ClassFacts DEF IsMsg
<1>2. CASE IsScalar(c[i])
  <2>1. c[i] # "entries" /\ d = ScalarField(i, v) /\ z = FieldSize(c[i], v)
        BY <1>2 DEF IsScalar, Part, PartSize
  <2>2. v \in Uint
        BY <1>1, <1>2, UintBase DEF IsFieldValue, Uint
  <2> HIDE DEF v, d, z
  <2>3. d \in Seq(NonZero) /\ Len(d) \in 0..6 /\ Len(d) = IF v = 0 THEN 0 ELSE 1 + VarintSize(v)
        BY <1>1, <2>1, <2>2, ScalarFieldFacts
  <2>4. z = Len(d) /\ d \in Seq(Byte)
        BY <1>2, <2>1, <2>3, NonZeroIsByte DEF FieldSize
  <2>5. z \in Nat
        BY <2>3, <2>4
  <2> QED BY <2>4, <2>5 DEF v, d, z
<1>3. CASE ~IsScalar(c[i]) /\ c[i] = "string"
  <2>1. d = StringField(i, v) /\ z = FieldSize(c[i], v)
        BY <1>3 DEF Part, PartSize
  <2>2. v \in Text
        BY <1>1, <1>3 DEF IsFieldValue
  <2> HIDE DEF v, d, z
  <2>3. /\ d \in Seq(NonZero) /\ Len(d) \in 0..17
        /\ Len(d) = IF v = <<>> THEN 0 ELSE 1 + VarintSize(Len(v)) + Len(v)
        BY <1>1, <2>1, <2>2, StringFieldFacts
  <2>4. z = Len(d) /\ d \in Seq(Byte)
        BY <1>3, <2>1, <2>3, NonZeroIsByte DEF FieldSize
  <2>5. z \in Nat
        BY <2>3, <2>4
  <2> QED BY <2>4, <2>5 DEF v, d, z
<1>4. CASE ~IsScalar(c[i]) /\ c[i] # "string"
  <2>1. c[i] = "entries"
        BY <1>1, <1>4 DEF Types, IsScalar
  <2>2. d = EntriesField(i, v) /\ z = SumOf(EntriesSizes(v)) /\ v \in Seq(EntryMsgs)
        BY <1>1, <1>4, <2>1 DEF Part, PartSize, IsFieldValue
  <2> HIDE DEF v, d, z
  <2> DEFINE s == Pieces(i, v)
             t == EntriesSizes(v)
  <2>3. /\ d = FlattenSeq(s) /\ s \in Seq(Seq(Byte)) /\ t \in Seq(Nat) /\ Len(t) = Len(s)
        /\ \A k \in 1..Len(s) : Len(s[k]) = t[k]
        BY <1>1, <2>2, PieceFacts
  <2> HIDE DEF s, t
  <2>4. FlattenSeq(s) \in Seq(Byte) /\ Len(FlattenSeq(s)) = SumOf(t)
        BY <2>3, FlattenLen
  <2>5. d \in Seq(Byte) /\ Len(d) = z
        BY <2>2, <2>3, <2>4 DEF t
  <2>6. z \in Nat
        BY <2>5
  <2> QED BY <2>5, <2>6 DEF v, d, z
<1> QED BY <1>2, <1>3, <1>4

\* ByteSizeLong is the number of bytes Serialize writes.
LEMMA MessageBytes ==
    ASSUME NEW c \in Classes, NEW m, IsMsg(c, m)
    PROVE  /\ Serialize(c, m) \in Seq(Byte)
           /\ ByteSizeLong(c, m) = Len(Serialize(c, m))
           /\ Parts(c, m) \in Seq(Seq(Byte)) /\ Len(Parts(c, m)) = Len(c)
<1> DEFINE s == Parts(c, m)
           t == PartSizes(c, m)
           n == Len(c)
<1>1. n \in Nat
      BY ClassFacts
<1>2. /\ s = [k \in 1..n |-> s[k]] /\ t = [k \in 1..n |-> t[k]]
      /\ \A k \in 1..n : s[k] = Part(c, m, k) /\ t[k] = PartSize(c, m, k)
      BY DEF Parts, PartSizes
<1>3. \A k \in 1..n : s[k] \in Seq(Byte) /\ Len(s[k]) = t[k] /\ t[k] \in Nat
      BY <1>2, PartFacts
<1>4. Serialize(c, m) = FlattenSeq(s) /\ ByteSizeLong(c, m) = SumOf(t)
      BY SerializeIsParts
<1> HIDE DEF s, t, n
<1>5. s \in Seq(Seq(Byte)) /\ Len(s) = n
      BY <1>1, <1>2, <1>3, FunctionIsSeq
<1>6. t \in Seq(Nat) /\ Len(t) = n
      BY <1>1, <1>2, <1>3, FunctionIsSeq
<1>7. FlattenSeq(s) \in Seq(Byte) /\ Len(FlattenSeq(s)) = SumOf(t)
      BY <1>3, <1>5, <1>6, FlattenLen
<1> QED BY <1>4, <1>5, <1>7 DEF s, n

-----------------------------------------------------------------------------
(* Every reader moves forward or fails *)

\* p is a position from q on; the last one is behind the last byte.
Behind(b, q, p) == p = Failed \/ (p \in Nat /\ q <= p /\ p <= Len(b) + 1)

LEMMA VarintEndFacts ==
    ASSUME NEW b \in Seq(Byte), NEW p \in Nat, p >= 1
    PROVE  /\ Behind(b, p + 1, VarintEnd(b, p))
           /\ VarintEnd(b, p) # Failed =>
                  VarintValue(b, p) \in Uint /\ VarintValue(b, p) % 128 = b[p] % 128
<1> DEFINE ends == {r \in p..(p + VarintMax - 1) : r <= Len(b) /\ b[r] < 128}
           e == VarintEnd(b, p)
<1>1. e = IF ends = {} THEN Failed ELSE Min(ends) + 1
      BY DEF VarintEnd
<1>2. Len(b) \in Nat /\ VarintMax \in Nat
      BY VarintAssumption
<1>3. CASE ends = {}
      BY <1>1, <1>3 DEF Behind
<1>4. CASE ends # {}
  <2>1. ends \subseteq Nat /\ ends \subseteq Int
        BY <1>2
  <2>2. PICK x \in ends : \A k \in ends : x <= k
    <3> HIDE DEF ends
    <3> QED BY <1>4, <2>1, LeastNat
  <2>3. Min(ends) = x
    <3> HIDE DEF ends
    <3> QED BY <2>1, <2>2, MinIs
  <2>4. x \in p..(p + VarintMax - 1) /\ x <= Len(b)
        OBVIOUS
  <2>5. e = x + 1
        BY <1>1, <1>4, <2>3
  <2> HIDE DEF ends
  <2>6. e \in Nat /\ p + 1 <= e /\ e <= Len(b) + 1 /\ p <= e
        BY <1>2, <2>4, <2>5
  <2> HIDE DEF e
  <2>7. PICK f : IsValueOf(f, b, p, e) /\ VarintValue(b, p) = f[p]
        BY <2>6, ValueIs DEF e
  <2>8. \A q \in p..e : f[q] \in Uint
        BY <2>6, <2>7, ValueRange DEF Uint
  <2> DEFINE y == 128 * f[p + 1] + (b[p] % 128)
  <2>9. p \in p..e /\ p + 1 \in p..e /\ p # e /\ p \in 1..Len(b)
        BY <1>2, <2>6
  <2>10. f[p] = y % UintSize
        BY <2>7, <2>9 DEF IsValueOf
  <2>11. f[p] % 128 = b[p] % 128
    <3> DEFINE u == f[p + 1]
               g == b[p] % 128
               d == y \div UintSize
               z == y % UintSize
    <3>1. u \in Nat /\ g \in 0..127
          BY <2>8, <2>9, ByteRest, UintBase DEF Uint
    <3>2. PICK a \in Nat : UintSize = 128 * a
          BY UintBase
    <3>9. y = 128 * u + g
          OBVIOUS
    <3> HIDE DEF u, g, y
    <3>3. y = 128 * u + g /\ y \in Nat
          BY <3>1, <3>9
    <3>10. UintSize \in Nat /\ UintSize > 0
          BY UintBase
    <3>4. y = UintSize * d + z /\ d \in Int /\ z \in 0..(UintSize - 1)
      <4>1. y \in Nat
            BY <3>3
      <4> QED BY <3>10, <4>1
    <3> HIDE DEF d, z
    <3>5. UintSize * d = 128 * (a * d)
          BY <3>2, <3>4
    <3> DEFINE ad == a * d
    <3>6. ad \in Int
          BY <3>2, <3>4
    <3> HIDE DEF ad
    <3>7. z = 128 * (u - ad) + g
          BY <3>1, <3>3, <3>4, <3>5, <3>6, UintBase DEF ad
    <3>8. z % 128 = g
          BY <3>1, <3>6, <3>7
    <3> QED BY <2>10, <3>8 DEF z, g
  <2>12. Behind(b, p + 1, e)
        BY <2>6 DEF Behind
  <2> QED BY <2>7, <2>8, <2>9, <2>11, <2>12 DEF e
<1> QED BY <1>3, <1>4

LEMMA DelimitedEndFacts ==
    ASSUME NEW b \in Seq(Byte), NEW p \in Nat, p >= 1
    PROVE  Behind(b, p + 1, DelimitedEnd(b, p))
<1> DEFINE e == VarintEnd(b, p)
           v == VarintValue(b, p)
<1>1. CASE e = Failed
      BY <1>1 DEF DelimitedEnd, Behind
<1>2. CASE e # Failed
  <2>1. e \in Nat /\ p + 1 <= e /\ v \in Nat /\ Len(b) \in Nat
        BY <1>2, VarintEndFacts, UintBase DEF Behind, Uint
  <2>2. DelimitedEnd(b, p) = IF e + v > Len(b) + 1 THEN Failed ELSE e + v
        BY <1>2 DEF DelimitedEnd
  <2> HIDE DEF e, v
  <2> QED BY <2>1, <2>2 DEF Behind
<1> QED BY <1>1, <1>2

LEMMA SkipValueFacts ==
    ASSUME NEW b \in Seq(Byte), NEW p \in Nat, p >= 1, NEW type \in 0..7
    PROVE  Behind(b, p + 1, SkipValue(b, p, type))
<1>0. Len(b) \in Nat
      OBVIOUS
<1>1. CASE type = 0
  <2>1. SkipValue(b, p, type) = VarintEnd(b, p)
        BY <1>1 DEF SkipValue
  <2> QED BY <2>1, VarintEndFacts
<1>2. CASE type = 1
  <2>1. SkipValue(b, p, type) = FixedEnd(b, p, 8)
        BY <1>2 DEF SkipValue
  <2> QED BY <1>0, <2>1 DEF FixedEnd, Behind
<1>3. CASE type = 2
  <2>1. SkipValue(b, p, type) = DelimitedEnd(b, p)
        BY <1>3 DEF SkipValue
  <2> QED BY <2>1, DelimitedEndFacts
<1>4. CASE type = 5
  <2>1. SkipValue(b, p, type) = FixedEnd(b, p, 4)
        BY <1>4 DEF SkipValue
  <2> QED BY <1>0, <2>1 DEF FixedEnd, Behind
<1>5. CASE type \notin {0, 1, 2, 5}
  <2>1. SkipValue(b, p, type) = Failed
        BY <1>5 DEF SkipValue
  <2> QED BY <2>1 DEF Behind
<1> QED BY <1>1, <1>2, <1>3, <1>4, <1>5

\* A tag that is read is not 0, and its first byte has its lower seven bits.
LEMMA TagFacts ==
    ASSUME NEW b \in Seq(Byte), NEW p \in Nat, p >= 1
    PROVE  /\ Tag(b, p) \in Nat /\ WireType(Tag(b, p)) \in 0..7 /\ FieldNumber(Tag(b, p)) \in Nat
           /\ Tag(b, p) # 0 => /\ p \in 1..Len(b) /\ VarintEnd(b, p) # Failed
                               /\ Tag(b, p) % 128 = b[p] % 128
                               /\ VarintEnd(b, p) \in Nat
                               /\ p + 1 <= VarintEnd(b, p) /\ VarintEnd(b, p) <= Len(b) + 1
<1> DEFINE t == Tag(b, p)
<1>1. CASE p > Len(b) \/ VarintEnd(b, p) = Failed
  <2>1. t = 0
        BY <1>1 DEF Tag
  <2> QED BY <2>1 DEF WireType, FieldNumber
<1>2. CASE ~(p > Len(b) \/ VarintEnd(b, p) = Failed)
  <2>1. t = VarintValue(b, p)
        BY <1>2 DEF Tag
  <2>2. t \in Nat /\ t % 128 = b[p] % 128
        BY <1>2, <2>1, VarintEndFacts, UintBase DEF Uint
  <2>3. p \in 1..Len(b)
        BY <1>2
  <2> HIDE DEF t
  <2>4. WireType(t) \in 0..7 /\ FieldNumber(t) \in Nat
        BY <2>2 DEF WireType, FieldNumber
  <2>5. VarintEnd(b, p) \in Nat /\ p + 1 <= VarintEnd(b, p) /\ VarintEnd(b, p) <= Len(b) + 1
        BY <1>2, VarintEndFacts DEF Behind
  <2> QED BY <1>2, <2>2, <2>3, <2>4, <2>5 DEF t
<1> QED BY <1>1, <1>2

-----------------------------------------------------------------------------
(* Groups *)

\* The loop of SkipGroup up to turn K.
GroupSol(r, b, p, n, K) ==
    r = [k \in 0..K |-> IF k = 0 THEN [at |-> p, open |-> <<n>>] ELSE SkipMessage(b, r[k - 1])]

LEMMA GroupSolsExist ==
    ASSUME NEW b, NEW p, NEW n
    PROVE  \A K \in Nat : \E r : GroupSol(r, b, p, n, K)
<1> DEFINE Bad == {K \in Nat : ~ \E r : GroupSol(r, b, p, n, K)}
           first == [at |-> p, open |-> <<n>>]
<1>1. ASSUME Bad # {} PROVE FALSE
  <2>1. PICK K \in Bad : \A j \in Bad : K <= j
        BY <1>1, LeastNat
  <2>2. K \in Nat /\ ~ \E r : GroupSol(r, b, p, n, K)
        OBVIOUS
  <2> HIDE DEF first
  <2>3. CASE K = 0
    <3> DEFINE f == [k \in 0..0 |-> first]
    <3>1. f = [k \in 0..0 |-> IF k = 0 THEN first ELSE SkipMessage(b, f[k - 1])]
          OBVIOUS
    <3> HIDE DEF f
    <3> QED BY <2>2, <2>3, <3>1 DEF GroupSol, first
  <2>4. CASE K # 0
    <3>1. K - 1 \in Nat /\ K - 1 \notin Bad
          BY <2>1, <2>2, <2>4
    <3>2. PICK g : GroupSol(g, b, p, n, K - 1)
          BY <3>1
    <3> DEFINE S(h, k) == IF k = 0 THEN first ELSE SkipMessage(b, h[k - 1])
               f == [k \in 0..K |-> S(g, k)]
    <3>3. ASSUME NEW k \in 0..K PROVE S(g, k) = S(f, k)
      <4>1. CASE k = 0
            BY <4>1
      <4>2. CASE k # 0
        <5> DEFINE h == k - 1
        <5>1. h \in 0..(K - 1) /\ h \in 0..K
              BY <2>2, <4>2
        <5> HIDE DEF h
        <5>2. g[h] = S(g, h)
              BY <3>2, <5>1 DEF GroupSol, first
        <5>3. f[h] = S(g, h)
              BY <5>1
        <5> HIDE DEF f
        <5>4. f[k - 1] = g[k - 1]
              BY <5>2, <5>3 DEF h
        <5> QED BY <4>2, <5>4
      <4> QED BY <4>1, <4>2
    <3>4. f = [k \in 0..K |-> S(f, k)]
          BY <3>3
    <3> HIDE DEF f
    <3>5. GroupSol(f, b, p, n, K)
          BY <3>4 DEF GroupSol, first
    <3> QED BY <2>2, <3>5
  <2> QED BY <2>3, <2>4
<1> QED BY <1>1

LEMMA SkipGroupIs ==
    ASSUME NEW b \in Seq(Byte), NEW p, NEW n
    PROVE  \E r : GroupSol(r, b, p, n, Len(b)) /\ SkipGroup(b, p, n) = r[Len(b)].at
<1> DEFINE f == CHOOSE r : r = [k \in 0..Len(b) |-> IF k = 0 THEN [at |-> p, open |-> <<n>>]
                                                    ELSE SkipMessage(b, r[k - 1])]
<1>1. PICK g : GroupSol(g, b, p, n, Len(b))
  <2>1. Len(b) \in Nat
        OBVIOUS
  <2> QED BY <2>1, GroupSolsExist
<1>2. f = [k \in 0..Len(b) |-> IF k = 0 THEN [at |-> p, open |-> <<n>>] ELSE SkipMessage(b, f[k - 1])]
      BY <1>1 DEF GroupSol
<1>3. SkipGroup(b, p, n) = f[Len(b)].at
      BY DEF SkipGroup
<1> HIDE DEF f
<1>4. GroupSol(f, b, p, n, Len(b))
      BY <1>2 DEF GroupSol
<1> QED BY <1>3, <1>4

\* No turn in a group goes back.
LEMMA GroupTurnFacts ==
    ASSUME NEW b \in Seq(Byte), NEW p \in Nat, p >= 1, NEW st, Behind(b, p, st.at)
    PROVE  Behind(b, p, SkipMessage(b, st).at)
<1> DEFINE tag == Tag(b, st.at)
           n == FieldNumber(tag)
           type == WireType(tag)
           q == VarintEnd(b, st.at)
<1>1. CASE st.at = Failed \/ st.open = <<>>
  <2>1. SkipMessage(b, st) = st
        BY <1>1 DEF SkipMessage
  <2> QED BY <2>1
<1>2. CASE ~(st.at = Failed \/ st.open = <<>>)
  <2>1. st.at \in Nat /\ p <= st.at /\ st.at >= 1 /\ Len(b) \in Nat
        BY <1>2 DEF Behind
  <2>2. /\ type \in 0..7 /\ tag \in Nat
        /\ tag # 0 => q \in Nat /\ st.at + 1 <= q /\ q <= Len(b) + 1
        BY <2>1, TagFacts
  <2>3. n # 0 => tag # 0
        BY DEF FieldNumber
  <2>4. \/ SkipMessage(b, st).at = Failed
        \/ n # 0 /\ SkipMessage(b, st).at = q
        \/ n # 0 /\ SkipMessage(b, st).at = SkipValue(b, q, type)
        BY <1>2 DEF SkipMessage
  <2> HIDE DEF tag, n, type, q
  <2>5. n # 0 => q \in Nat /\ q >= 1 /\ p <= q /\ q <= Len(b) + 1 /\ Behind(b, q + 1, SkipValue(b, q, type))
    <3> SUFFICES ASSUME n # 0 PROVE q \in Nat /\ q >= 1 /\ p <= q /\ q <= Len(b) + 1
                                    /\ Behind(b, q + 1, SkipValue(b, q, type))
        OBVIOUS
    <3>1. q \in Nat /\ q >= 1 /\ p <= q /\ q <= Len(b) + 1
          BY <2>1, <2>2, <2>3
    <3> QED BY <2>2, <3>1, SkipValueFacts
  <2> DEFINE a == SkipMessage(b, st).at
             v == SkipValue(b, q, type)
  <2>6. a = Failed \/ (n # 0 /\ a = q) \/ (n # 0 /\ a = v)
        BY <2>4
  <2>7. n # 0 => Behind(b, q + 1, v)
        BY <2>5
  <2> HIDE DEF a, v
  <2>8. Behind(b, p, a)
        BY <2>1, <2>5, <2>6, <2>7 DEF Behind
  <2> QED BY <2>8 DEF a
<1> QED BY <1>1, <1>2

LEMMA SkipGroupFacts ==
    ASSUME NEW b \in Seq(Byte), NEW p \in Nat, p >= 1, p <= Len(b) + 1, NEW n
    PROVE  Behind(b, p, SkipGroup(b, p, n))
<1> DEFINE K == Len(b)
<1>1. K \in Nat
      OBVIOUS
<1>2. PICK r : GroupSol(r, b, p, n, K) /\ SkipGroup(b, p, n) = r[K].at
      BY SkipGroupIs
<1> DEFINE Bad == {k \in 0..K : ~Behind(b, p, r[k].at)}
<1>3. ASSUME Bad # {} PROVE FALSE
  <2>1. PICK k \in Bad : \A j \in Bad : k <= j
    <3>1. Bad \subseteq Nat
          BY <1>1
    <3> HIDE DEF Bad
    <3> QED BY <1>3, <3>1, LeastNat
  <2>2. k \in 0..K /\ ~Behind(b, p, r[k].at)
        OBVIOUS
  <2>3. CASE k = 0
    <3>1. r[k] = [at |-> p, open |-> <<n>>]
          BY <1>2, <2>2, <2>3 DEF GroupSol
    <3> QED BY <2>2, <3>1 DEF Behind
  <2>4. CASE k # 0
    <3> DEFINE j == k - 1
    <3>1. j \in 0..K /\ ~(k <= j)
          BY <1>1, <2>2, <2>4
    <3>2. r[k] = SkipMessage(b, r[j])
          BY <1>2, <2>2, <2>4 DEF GroupSol
    <3> HIDE DEF j
    <3>3. j \notin Bad
      <4> HIDE DEF Bad
      <4> QED BY <2>1, <3>1
    <3>4. Behind(b, p, r[j].at)
          BY <3>1, <3>3
    <3> QED BY <2>2, <3>2, <3>4, GroupTurnFacts
  <2> QED BY <2>3, <2>4
<1>4. K \in 0..K
      BY <1>1
<1> QED BY <1>2, <1>3, <1>4

LEMMA SkipFieldFacts ==
    ASSUME NEW b \in Seq(Byte), NEW p \in Nat, p >= 1, p <= Len(b) + 1, NEW tag \in Nat
    PROVE  Behind(b, p, SkipField(b, p, tag))
<1>1. CASE FieldNumber(tag) = 0
      BY <1>1 DEF SkipField, Behind
<1>2. CASE FieldNumber(tag) # 0 /\ WireType(tag) = 3
  <2>1. SkipField(b, p, tag) = SkipGroup(b, p, FieldNumber(tag))
        BY <1>2 DEF SkipField
  <2> QED BY <2>1, SkipGroupFacts
<1>3. CASE FieldNumber(tag) # 0 /\ WireType(tag) # 3
  <2> DEFINE v == SkipValue(b, p, WireType(tag))
  <2>1. SkipField(b, p, tag) = v
        BY <1>3 DEF SkipField
  <2>2. WireType(tag) \in 0..7
        BY DEF WireType
  <2>3. Behind(b, p + 1, v)
        BY <2>2, SkipValueFacts
  <2> HIDE DEF v
  <2>4. Behind(b, p, v)
        BY <2>3 DEF Behind
  <2> QED BY <2>1, <2>4
<1> QED BY <1>1, <1>2, <1>3

-----------------------------------------------------------------------------
(* The loop of a parse *)

\* The state of a parse that has not ended.
Reading(m, p) == [msg |-> m, at |-> p, ok |-> FALSE]

\* The loop of Parse up to turn K.
RunSol(r, c, b, inner, K) ==
    r = [n \in 0..K |-> IF n = 0 THEN Reading(SharedCtor(c), 1)
                        ELSE MergePartialFromCodedStream(c, b, inner, r[n - 1])]

LEMMA RunSolsExist ==
    ASSUME NEW c, NEW b, NEW inner
    PROVE  \A K \in Nat : \E r : RunSol(r, c, b, inner, K)
<1> DEFINE Bad == {K \in Nat : ~ \E r : RunSol(r, c, b, inner, K)}
           first == Reading(SharedCtor(c), 1)
<1>1. ASSUME Bad # {} PROVE FALSE
  <2>1. PICK K \in Bad : \A j \in Bad : K <= j
        BY <1>1, LeastNat
  <2>2. K \in Nat /\ ~ \E r : RunSol(r, c, b, inner, K)
        OBVIOUS
  <2> HIDE DEF first
  <2>3. CASE K = 0
    <3> DEFINE f == [k \in 0..0 |-> first]
    <3>1. f = [k \in 0..0 |-> IF k = 0 THEN first ELSE MergePartialFromCodedStream(c, b, inner, f[k - 1])]
          OBVIOUS
    <3> HIDE DEF f
    <3> QED BY <2>2, <2>3, <3>1 DEF RunSol, first
  <2>4. CASE K # 0
    <3>1. K - 1 \in Nat /\ K - 1 \notin Bad
          BY <2>1, <2>2, <2>4
    <3>2. PICK g : RunSol(g, c, b, inner, K - 1)
          BY <3>1
    <3> DEFINE S(h, k) == IF k = 0 THEN first ELSE MergePartialFromCodedStream(c, b, inner, h[k - 1])
               f == [k \in 0..K |-> S(g, k)]
    <3>3. ASSUME NEW k \in 0..K PROVE S(g, k) = S(f, k)
      <4>1. CASE k = 0
            BY <4>1
      <4>2. CASE k # 0
        <5> DEFINE h == k - 1
        <5>1. h \in 0..(K - 1) /\ h \in 0..K
              BY <2>2, <4>2
        <5> HIDE DEF h
        <5>2. g[h] = S(g, h)
              BY <3>2, <5>1 DEF RunSol, first
        <5>3. f[h] = S(g, h)
              BY <5>1
        <5> HIDE DEF f
        <5>4. f[k - 1] = g[k - 1]
              BY <5>2, <5>3 DEF h
        <5> QED BY <4>2, <5>4
      <4> QED BY <4>1, <4>2
    <3>4. f = [k \in 0..K |-> S(f, k)]
          BY <3>3
    <3> HIDE DEF f
    <3>5. RunSol(f, c, b, inner, K)
          BY <3>4 DEF RunSol, first
    <3> QED BY <2>2, <3>5
  <2> QED BY <2>3, <2>4
<1> QED BY <1>1

\* The loop of the parse of b.
IsRun(r, c, b, inner) == RunSol(r, c, b, inner, Len(b) + 1)

LEMMA ParseIs ==
    ASSUME NEW c, NEW b \in Seq(Byte), NEW inner
    PROVE  \E r : IsRun(r, c, b, inner) /\ Parse(c, b, inner) = r[Len(b) + 1]
<1> DEFINE f == CHOOSE r : r = [n \in 0..(Len(b) + 1) |->
                    IF n = 0 THEN [msg |-> SharedCtor(c), at |-> 1, ok |-> FALSE]
                    ELSE MergePartialFromCodedStream(c, b, inner, r[n - 1])]
<1>1. PICK g : RunSol(g, c, b, inner, Len(b) + 1)
  <2>1. Len(b) + 1 \in Nat
        OBVIOUS
  <2> QED BY <2>1, RunSolsExist
<1>2. f = [n \in 0..(Len(b) + 1) |->
               IF n = 0 THEN [msg |-> SharedCtor(c), at |-> 1, ok |-> FALSE]
               ELSE MergePartialFromCodedStream(c, b, inner, f[n - 1])]
      BY <1>1 DEF RunSol, Reading
<1>3. Parse(c, b, inner) = f[Len(b) + 1]
      BY DEF Parse
<1> HIDE DEF f
<1>4. RunSol(f, c, b, inner, Len(b) + 1)
      BY <1>2 DEF RunSol, Reading
<1> QED BY <1>3, <1>4 DEF IsRun

LEMMA RunSteps ==
    ASSUME NEW c, NEW b \in Seq(Byte), NEW inner, NEW r, IsRun(r, c, b, inner)
    PROVE  /\ r[0] = Reading(SharedCtor(c), 1)
           /\ \A n \in 1..(Len(b) + 1) : r[n] = MergePartialFromCodedStream(c, b, inner, r[n - 1])
<1>1. Len(b) \in Nat
      OBVIOUS
<1>2. 0 \in 0..(Len(b) + 1) /\ \A n \in 1..(Len(b) + 1) : n \in 0..(Len(b) + 1) /\ n # 0
      BY <1>1
<1> QED BY <1>2 DEF IsRun, RunSol

\* Every turn ends the loop or moves on.
LEMMA TurnFacts ==
    ASSUME NEW c, NEW b \in Seq(Byte), NEW inner, NEW st,
           st.at \in Nat, st.at >= 1
    PROVE  Behind(b, st.at + 1, MergePartialFromCodedStream(c, b, inner, st).at)
<1> DEFINE p == st.at
           tag == Tag(b, p)
           i == FieldNumber(tag)
           q == VarintEnd(b, p)
           a == MergePartialFromCodedStream(c, b, inner, st).at
<1>1. p # Failed /\ Len(b) \in Nat
      BY DEF Failed
<1>2. CASE tag = 0
  <2>1. a = Failed
        BY <1>1, <1>2 DEF MergePartialFromCodedStream
  <2> QED BY <2>1 DEF Behind
<1>3. CASE tag # 0
  <2>1. tag \in Nat /\ q \in Nat /\ p + 1 <= q /\ q <= Len(b) + 1 /\ q >= 1
    <3>1. p \in Nat /\ p >= 1
          OBVIOUS
    <3> HIDE DEF p
    <3>2. tag \in Nat /\ q \in Nat /\ p + 1 <= q /\ q <= Len(b) + 1
          BY <1>3, <3>1, TagFacts
    <3> QED BY <3>1, <3>2
  <2>2. a = FieldEnd(c, b, inner, i, q) \/ a = SkipField(b, q, tag)
        BY <1>1, <1>3 DEF MergePartialFromCodedStream
  <2> HIDE DEF tag, i, q, a, p
  <2>3. FieldEnd(c, b, inner, i, q) \in {VarintEnd(b, q), DelimitedEnd(b, q), Failed}
        BY DEF FieldEnd
  <2>4. Behind(b, q + 1, VarintEnd(b, q)) /\ Behind(b, q + 1, DelimitedEnd(b, q)) /\ Behind(b, q, SkipField(b, q, tag))
        BY <2>1, VarintEndFacts, DelimitedEndFacts, SkipFieldFacts
  <2> DEFINE x == VarintEnd(b, q)
             y == DelimitedEnd(b, q)
             z == SkipField(b, q, tag)
  <2>5. a \in {x, y, z, Failed} /\ Behind(b, q + 1, x) /\ Behind(b, q + 1, y) /\ Behind(b, q, z)
        BY <2>2, <2>3, <2>4
  <2> HIDE DEF x, y, z
  <2>6. p \in Nat
        BY DEF p
  <2>7. Behind(b, p + 1, a)
        BY <2>1, <2>5, <2>6 DEF Behind, Failed
  <2> QED BY <2>7 DEF a, p
<1> QED BY <1>2, <1>3

\* After n turns the loop has ended or has read n bytes.
LEMMA RunProgress ==
    ASSUME NEW c, NEW b \in Seq(Byte), NEW inner, NEW r, IsRun(r, c, b, inner)
    PROVE  \A n \in 0..(Len(b) + 1) : Behind(b, n + 1, r[n].at)
<1> DEFINE K == Len(b) + 1
           Bad == {n \in 0..K : ~Behind(b, n + 1, r[n].at)}
<1>1. K \in Nat /\ Len(b) \in Nat
      OBVIOUS
<1>2. r[0] = Reading(SharedCtor(c), 1) /\ \A n \in 1..K : r[n] = MergePartialFromCodedStream(c, b, inner, r[n - 1])
      BY RunSteps
<1>3. ASSUME Bad # {} PROVE FALSE
  <2>1. PICK n \in Bad : \A j \in Bad : n <= j
    <3>1. Bad \subseteq Nat
          BY <1>1
    <3> HIDE DEF Bad
    <3> QED BY <1>3, <3>1, LeastNat
  <2>2. n \in 0..K /\ ~Behind(b, n + 1, r[n].at)
        OBVIOUS
  <2>3. CASE n = 0
    <3>1. r[n].at = 1
          BY <1>2, <2>3 DEF Reading
    <3> QED BY <1>1, <2>2, <2>3, <3>1 DEF Behind
  <2>4. CASE n # 0
    <3> DEFINE j == n - 1
    <3>1. j \in 0..K /\ ~(n <= j) /\ n \in 1..K /\ j + 1 = n
          BY <1>1, <2>2, <2>4
    <3>2. r[n] = MergePartialFromCodedStream(c, b, inner, r[j])
          BY <1>2, <3>1
    <3> HIDE DEF j
    <3>3. j \notin Bad
      <4> HIDE DEF Bad
      <4> QED BY <2>1, <3>1
    <3>4. Behind(b, n, r[j].at)
          BY <3>1, <3>3
    <3>5. CASE r[j].at = Failed
      <4>1. r[n] = r[j]
            BY <3>2, <3>5 DEF MergePartialFromCodedStream
      <4> QED BY <2>2, <3>5, <4>1 DEF Behind
    <3>6. CASE r[j].at # Failed
      <4> DEFINE p == r[j].at
                 a == r[n].at
      <4>1. p \in Nat /\ n <= p /\ p >= 1
            BY <3>1, <3>4, <3>6 DEF Behind
      <4>2. Behind(b, p + 1, a)
            BY <3>2, <4>1, TurnFacts
      <4>3. ~Behind(b, n + 1, a) /\ n \in Nat
            BY <1>1, <2>2
      <4> HIDE DEF p, a
      <4> QED BY <1>1, <4>1, <4>2, <4>3 DEF Behind
    <3> QED BY <3>5, <3>6
  <2> QED BY <2>3, <2>4
<1> QED BY <1>3

\* The loop comes to a state.
Visits(r, b, st) == \E n \in 0..(Len(b) + 1) : r[n] = st

LEMMA VisitStart ==
    ASSUME NEW c, NEW b \in Seq(Byte), NEW inner, NEW r, IsRun(r, c, b, inner)
    PROVE  Visits(r, b, Reading(SharedCtor(c), 1))
<1>1. 0 \in 0..(Len(b) + 1)
      OBVIOUS
<1> QED BY <1>1, RunSteps DEF Visits

LEMMA VisitNext ==
    ASSUME NEW c, NEW b \in Seq(Byte), NEW inner, NEW r, IsRun(r, c, b, inner),
           NEW st, Visits(r, b, st), st.at # Failed
    PROVE  Visits(r, b, MergePartialFromCodedStream(c, b, inner, st))
<1>1. PICK n \in 0..(Len(b) + 1) : r[n] = st
      BY DEF Visits
<1>2. Behind(b, n + 1, st.at)
      BY <1>1, RunProgress
<1> DEFINE p == st.at
           k == n + 1
<1>3. p \in Nat /\ n + 1 <= p /\ p <= Len(b) + 1 /\ Len(b) \in Nat
      BY <1>2 DEF Behind
<1> HIDE DEF p
<1>4. k \in 1..(Len(b) + 1) /\ k \in 0..(Len(b) + 1) /\ k - 1 = n
      BY <1>3
<1> HIDE DEF k
<1>5. r[k] = MergePartialFromCodedStream(c, b, inner, st)
  <2>1. /\ r[0] = Reading(SharedCtor(c), 1)
        /\ \A j \in 1..(Len(b) + 1) : r[j] = MergePartialFromCodedStream(c, b, inner, r[j - 1])
        BY RunSteps, ZenonT(60)
  <2> QED BY <1>1, <1>4, <2>1
<1> QED BY <1>4, <1>5 DEF Visits

\* Once the loop has ended nothing changes.
LEMMA VisitEnd ==
    ASSUME NEW c, NEW b \in Seq(Byte), NEW inner, NEW r, IsRun(r, c, b, inner),
           NEW st, Visits(r, b, st), st.at = Failed
    PROVE  r[Len(b) + 1] = st
<1> DEFINE K == Len(b) + 1
<1>0. K \in Nat
      OBVIOUS
<1>1. PICK n \in 0..K : r[n] = st
      BY DEF Visits
<1> DEFINE Bad == {j \in n..K : r[j] # st}
<1>2. ASSUME Bad # {} PROVE FALSE
  <2>1. PICK j \in Bad : \A h \in Bad : j <= h
    <3>1. Bad \subseteq Nat
          BY <1>0
    <3> HIDE DEF Bad
    <3> QED BY <1>2, <3>1, LeastNat
  <2>2. j \in n..K /\ r[j] # st
        OBVIOUS
  <2>3. j # n
        BY <1>1, <2>2
  <2> DEFINE h == j - 1
  <2>4. h \in n..K /\ ~(j <= h) /\ j \in 1..K
        BY <1>0, <2>2, <2>3
  <2>5. r[j] = MergePartialFromCodedStream(c, b, inner, r[h])
    <3>1. /\ r[0] = Reading(SharedCtor(c), 1)
          /\ \A i \in 1..(Len(b) + 1) : r[i] = MergePartialFromCodedStream(c, b, inner, r[i - 1])
          BY RunSteps, ZenonT(60)
    <3> QED BY <2>4, <3>1
  <2> HIDE DEF h
  <2>6. h \notin Bad
    <3> HIDE DEF Bad
    <3> QED BY <2>1, <2>4
  <2>7. r[h] = st
        BY <2>4, <2>6
  <2>8. r[j] = st
        BY <2>5, <2>7 DEF MergePartialFromCodedStream
  <2> QED BY <2>2, <2>8
<1>3. K \in n..K
      BY <1>0
<1> QED BY <1>2, <1>3

\* The parse ends where nothing is left, or at a tag of 0.
LEMMA ParseEnds ==
    ASSUME NEW c, NEW b \in Seq(Byte), NEW inner, NEW r, IsRun(r, c, b, inner),
           NEW m, NEW p \in Nat, p >= 1, Visits(r, b, Reading(m, p)), Tag(b, p) = 0
    PROVE  r[Len(b) + 1] = [msg |-> m, at |-> Failed, ok |-> p > Len(b)]
<1> DEFINE st == Reading(m, p)
           e == [msg |-> m, at |-> Failed, ok |-> p > Len(b)]
<1>1. st.at = p /\ st.msg = m /\ p # Failed
      BY DEF Reading, Failed
<1> HIDE DEF st
<1>2. MergePartialFromCodedStream(c, b, inner, st) = e
      BY <1>1 DEF MergePartialFromCodedStream
<1>3. Visits(r, b, e)
      BY <1>1, <1>2, VisitNext DEF st
<1>4. e.at = Failed
      OBVIOUS
<1> HIDE DEF e
<1>5. r[Len(b) + 1] = e
      BY <1>3, <1>4, VisitEnd
<1> QED BY <1>5 DEF e

-----------------------------------------------------------------------------
(* Bytes that stand at a position *)

LEMMA StandsConcat ==
    ASSUME NEW b, NEW p, NEW u \in Seq(Byte), NEW w \in Seq(Byte), StandsAt(b, p, u \o w)
    PROVE  StandsAt(b, p, u) /\ StandsAt(b, p + Len(u), w) /\ Len(u \o w) = Len(u) + Len(w)
<1>1. /\ u \o w \in Seq(Byte) /\ Len(u \o w) = Len(u) + Len(w)
      /\ \A i \in 1..(Len(u) + Len(w)) : (u \o w)[i] = IF i <= Len(u) THEN u[i] ELSE w[i - Len(u)]
      BY ONLY u \in Seq(Byte), w \in Seq(Byte), ConcatProperties
<1> DEFINE d == u \o w
<1>2. Len(d) = Len(u) + Len(w) /\ Len(u) \in Nat /\ Len(w) \in Nat
      BY <1>1
<1>3. /\ b \in Seq(Byte) /\ p \in Nat /\ p >= 1 /\ p + Len(d) - 1 <= Len(b) /\ Len(b) \in Nat
      /\ \A k \in 1..Len(d) : b[p + k - 1] = d[k]
      BY DEF StandsAt
<1>4. \A i \in 1..(Len(u) + Len(w)) : d[i] = IF i <= Len(u) THEN u[i] ELSE w[i - Len(u)]
      BY <1>1
<1> HIDE DEF d
<1>5. ASSUME NEW k \in 1..Len(u) PROVE b[p + k - 1] = u[k]
  <2>1. k \in 1..Len(d) /\ k <= Len(u) /\ k \in 1..(Len(u) + Len(w))
        BY <1>2
  <2> QED BY <1>3, <1>4, <2>1
<1>6. ASSUME NEW k \in 1..Len(w) PROVE b[p + Len(u) + k - 1] = w[k]
  <2> DEFINE j == Len(u) + k
  <2>1. /\ j \in 1..Len(d) /\ ~(j <= Len(u)) /\ j \in 1..(Len(u) + Len(w)) /\ j - Len(u) = k
        /\ p + Len(u) + k - 1 = p + j - 1
        BY <1>2, <1>3
  <2> HIDE DEF j
  <2> QED BY <1>3, <1>4, <2>1
<1>7. p + Len(u) - 1 <= Len(b) /\ p + Len(u) \in Nat /\ p + Len(u) >= 1 /\ p + Len(u) + Len(w) - 1 <= Len(b)
      BY <1>2, <1>3
<1>8. Len(u \o w) = Len(u) + Len(w)
      BY <1>1
<1> QED BY <1>3, <1>5, <1>6, <1>7, <1>8 DEF StandsAt

\* A byte below 128 is a varint.
LEMMA ReadByte ==
    ASSUME NEW b \in Seq(Byte), NEW p \in 1..Len(b), NEW x \in 0..127, b[p] = x
    PROVE  VarintEnd(b, p) = p + 1 /\ VarintValue(b, p) = x /\ Tag(b, p) = x
<1>1. x \in 0..(UintSize - 1) /\ Varint[x] = <<x>>
      BY SmallSize DEF Uint
<1>2. Len(<<x>>) = 1 /\ <<x>>[1] = x
      OBVIOUS
<1>3. StandsAt(b, p, <<x>>)
      BY <1>2 DEF StandsAt
<1>4. VarintEnd(b, p) = p + 1 /\ VarintValue(b, p) = x
      BY <1>1, <1>2, <1>3, ReadVarint
<1>5. p \in Nat /\ ~(p > Len(b)) /\ p + 1 # Failed
      BY DEF Failed
<1>6. Tag(b, p) = x
      BY <1>4, <1>5 DEF Tag
<1> QED BY <1>4, <1>6

\* Delimited bytes are found again.
LEMMA ReadDelimited ==
    ASSUME NEW b, NEW p, NEW tag \in 1..127, NEW w \in Seq(Byte), Len(w) \in Uint,
           StandsAt(b, p, Delimited(tag, w))
    PROVE  /\ b \in Seq(Byte) /\ p \in Nat /\ p >= 1
           /\ Tag(b, p) = tag /\ VarintEnd(b, p) = p + 1 /\ p + 1 \in 1..Len(b)
           /\ DelimitedEnd(b, p + 1) = p + Len(Delimited(tag, w))
           /\ DelimitedEnd(b, p + 1) # Failed
           /\ Delimitee(b, p + 1) = w
<1> DEFINE d == Delimited(tag, w)
           u == Varint[Len(w)]
           n == Len(u)
<1>1. /\ d \in Seq(Byte) /\ Len(d) = 1 + VarintSize(Len(w)) + Len(w)
      /\ d[1] = tag
      /\ \A k \in 1..n : d[1 + k] = u[k]
      /\ \A k \in 1..Len(w) : d[1 + n + k] = w[k]
  <2>1. tag \in NonZero
        BY DEF NonZero
  <2> QED BY <2>1, DelimitedFacts
<1>2. n = VarintSize(Len(w)) /\ n \in 1..5
      BY VarintSizeIsLen DEF Uint
<1>3. /\ b \in Seq(Byte) /\ p \in Nat /\ p >= 1 /\ p + Len(d) - 1 <= Len(b) /\ Len(b) \in Nat
      /\ \A k \in 1..Len(d) : b[p + k - 1] = d[k]
      BY DEF StandsAt
<1>4. Len(d) = 1 + n + Len(w) /\ Len(w) \in Nat
      BY <1>1, <1>2
<1> HIDE DEF d, n
<1>13. /\ p \in Nat /\ p >= 1 /\ Len(b) \in Nat /\ n \in 1..5 /\ Len(w) \in Nat
       /\ Len(d) = 1 + n + Len(w) /\ p + Len(d) - 1 <= Len(b)
      BY <1>2, <1>3, <1>4
<1>5. p \in 1..Len(b) /\ b[p] = tag
  <2>1. 1 \in 1..Len(d) /\ p + 1 - 1 = p
        BY <1>2, <1>3, <1>4
  <2>2. b[p] = tag
        BY <1>1, <1>3, <2>1
  <2> QED BY <1>2, <1>3, <1>4, <2>2, SMTT(40)
<1>6. Tag(b, p) = tag /\ VarintEnd(b, p) = p + 1
  <2>1. tag \in 0..127
        OBVIOUS
  <2> QED BY <1>3, <1>5, <2>1, ReadByte, ZenonT(60)
<1>7. StandsAt(b, p + 1, u)
  <2>1. ASSUME NEW k \in 1..n PROVE b[p + 1 + k - 1] = u[k]
    <3>1. 1 + k \in 1..Len(d) /\ p + 1 + k - 1 = p + (1 + k) - 1
          BY <1>2, <1>3, <1>4
    <3> QED BY <1>1, <1>3, <3>1
  <2>2. p + 1 \in Nat /\ p + 1 >= 1 /\ p + 1 + n - 1 <= Len(b)
        BY <1>2, <1>3, <1>4
  <2> QED BY <1>3, <2>1, <2>2 DEF StandsAt, n
<1>8. VarintEnd(b, p + 1) = p + 1 + n /\ VarintValue(b, p + 1) = Len(w)
      BY <1>7, ReadVarint DEF Uint, n
<1> DEFINE e == p + 1 + n
           f == p + Len(d)
<1>9. e + Len(w) = f /\ e # Failed /\ ~(f > Len(b) + 1) /\ f # Failed /\ e \in Nat /\ f \in Nat
      BY <1>13 DEF Failed
<1>10. DelimitedEnd(b, p + 1) = f
  <2> HIDE DEF e, f
  <2>1. VarintEnd(b, p + 1) = e
        BY <1>8 DEF e
  <2> QED BY <1>8, <1>9, <2>1 DEF DelimitedEnd
<1>11. Delimitee(b, p + 1) = w
  <2> DEFINE s == SubSeq(b, e, f - 1)
  <2>1. Delimitee(b, p + 1) = s
        BY <1>8, <1>10 DEF Delimitee
  <2>2. \A i \in e..(f - 1) : i \in 1..Len(b)
        BY <1>2, <1>3, <1>9, SMTT(40)
  <2>3. \A i \in e..(f - 1) : b[i] \in Byte
        BY <1>3, <2>2
  <2> DEFINE g == f - 1
  <2>4. e \in Int /\ g \in Int /\ \A i \in e..g : b[i] \in Byte
        BY <1>9, <2>3
  <2>5. e <= g + 1 /\ g - e + 1 = Len(w)
        BY <1>4, <1>9
  <2>6. SubSeq(b, e, g) \in Seq(Byte) /\ Len(SubSeq(b, e, g)) = (IF e <= g THEN g - e + 1 ELSE 0)
        /\ \A i \in 1..(g - e + 1) : SubSeq(b, e, g)[i] = b[e + i - 1]
    <3> HIDE DEF e, g
    <3> QED BY ONLY <2>4, SubSeqProperties
  <2>7. s \in Seq(Byte) /\ Len(s) = Len(w)
    <3> HIDE DEF e
    <3> QED BY <1>4, <2>4, <2>5, <2>6
  <2>8. ASSUME NEW k \in 1..Len(w) PROVE s[k] = w[k]
    <3>1. s[k] = b[e + k - 1]
          BY <2>5, <2>6
    <3>2. 1 + n + k \in 1..Len(d) /\ e + k - 1 = p + (1 + n + k) - 1
          BY <1>13
    <3> HIDE DEF e, s
    <3> QED BY <1>1, <1>3, <3>1, <3>2
  <2> HIDE DEF s
  <2>9. s = w
        BY <2>7, <2>8, SeqEqual
  <2> QED BY <2>1, <2>9
<1>12. p + 1 \in 1..Len(b)
      BY <1>13
<1> QED BY <1>3, <1>6, <1>9, <1>10, <1>11, <1>12 DEF d

-----------------------------------------------------------------------------
(* One field is one turn *)

\* The tag of field i.
TagOf(c, i) == IF IsScalar(c[i]) THEN 8 * i ELSE 8 * i + 2

LEMMA KnownTag ==
    ASSUME NEW c \in Classes, NEW i \in 1..Len(c)
    PROVE  /\ TagOf(c, i) \in 1..127 /\ FieldNumber(TagOf(c, i)) = i
           /\ IsKnown(c, TagOf(c, i))
<1>1. i \in 1..6 /\ i \in DOMAIN c
      BY ClassFacts
<1>2. CASE IsScalar(c[i])
  <2>1. TagOf(c, i) = 8 * i
        BY <1>2 DEF TagOf
  <2>2. 8 * i \in 1..127 /\ (8 * i) \div 8 = i /\ (8 * i) % 8 = 0 /\ 8 * i < 128
        BY <1>1
  <2>3. FieldNumber(8 * i) = i /\ WireType(8 * i) = 0
        BY <2>2 DEF FieldNumber, WireType
  <2> DEFINE t == 8 * i
  <2> HIDE DEF t
  <2>4. t \in 1..127 /\ t < 128 /\ FieldNumber(t) = i /\ WireType(t) = 0 /\ TagOf(c, i) = t
        BY <2>1, <2>2, <2>3 DEF t
  <2> QED BY <1>1, <1>2, <2>4 DEF IsKnown
<1>3. CASE ~IsScalar(c[i])
  <2>1. TagOf(c, i) = 8 * i + 2
        BY <1>3 DEF TagOf
  <2>2. 8 * i + 2 \in 1..127 /\ (8 * i + 2) \div 8 = i /\ (8 * i + 2) % 8 = 2 /\ 8 * i + 2 < 128
        BY <1>1
  <2>3. FieldNumber(8 * i + 2) = i /\ WireType(8 * i + 2) = 2
        BY <2>2 DEF FieldNumber, WireType
  <2> DEFINE t == 8 * i + 2
  <2> HIDE DEF t
  <2>4. t \in 1..127 /\ t < 128 /\ FieldNumber(t) = i /\ WireType(t) = 2 /\ TagOf(c, i) = t
        BY <2>1, <2>2, <2>3 DEF t
  <2> QED BY <1>1, <1>3, <2>4 DEF IsKnown
<1> QED BY <1>2, <1>3

LEMMA KnownTurn ==
    ASSUME NEW c \in Classes, NEW b, NEW inner, NEW m, NEW p \in Nat, p >= 1,
           NEW i \in 1..Len(c), Tag(b, p) = TagOf(c, i), VarintEnd(b, p) = p + 1
    PROVE  MergePartialFromCodedStream(c, b, inner, Reading(m, p)) =
               Reading([m EXCEPT ![i] = FieldValue(c, b, inner, i, p + 1, m[i])],
                       FieldEnd(c, b, inner, i, p + 1))
<1> DEFINE st == Reading(m, p)
           t == TagOf(c, i)
           x == FieldValue(c, b, inner, i, p + 1, m[i])
           e == FieldEnd(c, b, inner, i, p + 1)
<1>1. st.at = p /\ st.msg = m /\ p # Failed
      BY DEF Reading, Failed
<1>4. t \in 1..127 /\ FieldNumber(t) = i /\ IsKnown(c, t)
      BY KnownTag
<1> HIDE DEF t, st
<1>2. t # 0 /\ FieldNumber(t) = i /\ IsKnown(c, t)
      BY <1>4
<1>3. MergePartialFromCodedStream(c, b, inner, st) = [msg |-> [m EXCEPT ![i] = x], at |-> e, ok |-> FALSE]
      BY <1>1, <1>2 DEF MergePartialFromCodedStream, t
<1> QED BY <1>3 DEF st, Reading

LEMMA ScalarTurn ==
    ASSUME NEW c \in Classes, NEW b, NEW inner, NEW m, NEW p, NEW i \in 1..Len(c), IsScalar(c[i]),
           NEW v \in Uint, v # 0, c[i] = "bool" => v = 1, StandsAt(b, p, ScalarField(i, v))
    PROVE  MergePartialFromCodedStream(c, b, inner, Reading(m, p)) =
               Reading([m EXCEPT ![i] = v], p + Len(ScalarField(i, v)))
<1> DEFINE d == ScalarField(i, v)
           u == Varint[v]
           n == Len(u)
           q == p + 1
           t == 8 * i
<1>1. i \in 1..6
      BY ClassFacts
<1>2. Len(d) = 1 + n /\ d[1] = t /\ \A k \in 1..n : d[1 + k] = u[k]
      BY <1>1, ScalarFieldFacts
<1>3. n \in 1..5 /\ v \in 0..(UintSize - 1)
      BY VarintSizeIsLen DEF Uint
<1>4. /\ b \in Seq(Byte) /\ p \in Nat /\ p >= 1 /\ p + Len(d) - 1 <= Len(b) /\ Len(b) \in Nat
      /\ \A k \in 1..Len(d) : b[p + k - 1] = d[k]
      BY DEF StandsAt
<1>5. TagOf(c, i) = t /\ t \in 0..127
      BY <1>1 DEF TagOf
<1> HIDE DEF d, n, t
<1>6. p \in 1..Len(b) /\ b[p] = t
  <2>1. 1 \in 1..Len(d) /\ p + 1 - 1 = p
        BY <1>2, <1>3, <1>4
  <2>2. b[p] = t
        BY <1>2, <1>4, <2>1
  <2> QED BY <1>2, <1>3, <1>4, <2>2
<1>7. Tag(b, p) = t /\ VarintEnd(b, p) = q
      BY <1>4, <1>5, <1>6, ReadByte, ZenonT(60)
<1>8. StandsAt(b, q, u)
  <2>1. ASSUME NEW k \in 1..n PROVE b[q + k - 1] = u[k]
    <3>1. 1 + k \in 1..Len(d) /\ q + k - 1 = p + (1 + k) - 1
          BY <1>2, <1>3, <1>4
    <3> QED BY <1>2, <1>4, <3>1
  <2>2. q \in Nat /\ q >= 1 /\ q + n - 1 <= Len(b)
        BY <1>2, <1>3, <1>4
  <2> QED BY <1>4, <2>1, <2>2 DEF StandsAt, n
<1> HIDE DEF u
<1>9. VarintEnd(b, q) = q + n /\ VarintValue(b, q) = v /\ (VarintIsZero(b, q) <=> v = 0)
      BY <1>3, <1>8, ReadVarint DEF n, u
<1>10. q + n # Failed /\ q + n = p + Len(d)
      BY <1>2, <1>3, <1>4, SMTT(40) DEF Failed
<1>11. FieldEnd(c, b, inner, i, q) = p + Len(d)
      BY <1>9, <1>10 DEF FieldEnd
<1>12. FieldValue(c, b, inner, i, q, m[i]) = v
  <2> HIDE DEF q
  <2>1. VarintEnd(b, q) # Failed /\ ~VarintIsZero(b, q)
        BY <1>9, <1>10
  <2>2. CASE c[i] = "bool"
        BY <2>1, <2>2 DEF FieldValue
  <2>3. CASE c[i] # "bool"
        BY <1>9, <2>1, <2>3 DEF FieldValue
  <2> QED BY <2>2, <2>3
<1>13. MergePartialFromCodedStream(c, b, inner, Reading(m, p)) =
           Reading([m EXCEPT ![i] = FieldValue(c, b, inner, i, q, m[i])], FieldEnd(c, b, inner, i, q))
  <2>1. p \in Nat /\ p >= 1 /\ Tag(b, p) = TagOf(c, i) /\ VarintEnd(b, p) = p + 1
        BY <1>4, <1>5, <1>7
  <2> QED BY <2>1, KnownTurn, Zenon
<1> HIDE DEF q
<1> QED BY <1>11, <1>12, <1>13 DEF d

LEMMA StringTurn ==
    ASSUME NEW c \in Classes, NEW b, NEW inner, NEW m, NEW p, NEW i \in 1..Len(c), c[i] = "string",
           NEW h \in Text, h # <<>>, StandsAt(b, p, StringField(i, h))
    PROVE  MergePartialFromCodedStream(c, b, inner, Reading(m, p)) =
               Reading([m EXCEPT ![i] = h], p + Len(StringField(i, h)))
<1> DEFINE t == 8 * i + 2
           d == Delimited(t, h)
           q == p + 1
<1>1. ~IsScalar(c[i]) /\ TagOf(c, i) = t /\ t \in 1..127
  <2>1. ~IsScalar(c[i])
        BY DEF IsScalar
  <2>2. TagOf(c, i) = t
        BY <2>1 DEF TagOf
  <2> QED BY <2>1, <2>2, KnownTag
<1>2. StringField(i, h) = d
      BY DEF StringField
<1> HIDE DEF t
<1>3. h \in Seq(Byte) /\ Len(h) \in Uint /\ \A k \in DOMAIN h : h[k] < 128
      BY TextFacts
<1>4. /\ p \in Nat /\ p >= 1 /\ Tag(b, p) = t /\ VarintEnd(b, p) = q
      /\ DelimitedEnd(b, q) = p + Len(d) /\ DelimitedEnd(b, q) # Failed /\ Delimitee(b, q) = h
  <2>1. StandsAt(b, p, Delimited(t, h)) /\ h \in Seq(Byte) /\ Len(h) \in Uint /\ t \in 1..127
        BY <1>1, <1>2, <1>3
  <2> QED BY <2>1, ReadDelimited, Zenon
<1>5. IsUtf8(Delimitee(b, q))
      BY <1>3, <1>4 DEF IsUtf8
<1>6. FieldEnd(c, b, inner, i, q) = p + Len(d)
      BY <1>1, <1>4, <1>5 DEF FieldEnd
<1>7. FieldValue(c, b, inner, i, q, m[i]) = h
      BY <1>1, <1>4 DEF FieldValue
<1>8. MergePartialFromCodedStream(c, b, inner, Reading(m, p)) =
          Reading([m EXCEPT ![i] = FieldValue(c, b, inner, i, q, m[i])], FieldEnd(c, b, inner, i, q))
  <2>1. p \in Nat /\ p >= 1 /\ Tag(b, p) = TagOf(c, i) /\ VarintEnd(b, p) = p + 1
        BY <1>1, <1>4
  <2> QED BY <2>1, KnownTurn, Zenon
<1> HIDE DEF q, d
<1> QED BY <1>2, <1>6, <1>7, <1>8

\* What inner says of an entry that is read whole.
Whole(e) == [msg |-> e, at |-> Failed, ok |-> TRUE]

\* The bytes of entry e in field i, and the message with e added.
Piece(i, e) == Delimited(8 * i + 2, SerializeEntry(e))

Added(m, i, e) == [m EXCEPT ![i] = Append(m[i], e)]

\* A turn of the loop takes st to nx.
IsTurn(c, b, inner, st, nx) == MergePartialFromCodedStream(c, b, inner, st) = nx

LEMMA EntryTurn ==
    ASSUME NEW c \in Classes, NEW b, NEW inner, NEW m, NEW p, NEW i \in 1..Len(c), c[i] = "entries",
           NEW e \in EntryMsgs, StandsAt(b, p, Piece(i, e)), inner[p + 1] = Whole(e)
    PROVE  IsTurn(c, b, inner, Reading(m, p), Reading(Added(m, i, e), p + Len(Piece(i, e))))
<1> DEFINE t == 8 * i + 2
           w == SerializeEntry(e)
           d == Delimited(t, w)
           q == p + 1
<1>1. ~IsScalar(c[i]) /\ c[i] # "string" /\ TagOf(c, i) = t /\ t \in 1..127
  <2>1. ~IsScalar(c[i]) /\ c[i] # "string"
        BY DEF IsScalar
  <2>2. TagOf(c, i) = t
        BY <2>1 DEF TagOf
  <2> QED BY <2>1, <2>2, KnownTag
<1> HIDE DEF t
<1>3. w \in Seq(Byte) /\ Len(w) \in Uint
  <2>1. w \in Seq(NonZero) /\ Len(w) \in 0..47
        BY EntryBytes
  <2>2. Len(w) \in 0..127
        BY <2>1
  <2> QED BY <2>1, <2>2, NonZeroIsByte, SmallSize
<1> HIDE DEF w
<1>4. /\ p \in Nat /\ p >= 1 /\ Tag(b, p) = t /\ VarintEnd(b, p) = q
      /\ DelimitedEnd(b, q) = p + Len(d) /\ DelimitedEnd(b, q) # Failed
  <2>1. StandsAt(b, p, Delimited(t, w))
        BY DEF t, w, Piece
  <2> QED BY <1>1, <1>3, <2>1, ReadDelimited
<1>5. inner[q].ok /\ inner[q].msg = e
      BY DEF Whole
<1>6. FieldEnd(c, b, inner, i, q) = p + Len(d)
      BY <1>1, <1>4, <1>5 DEF FieldEnd
<1>7. FieldValue(c, b, inner, i, q, m[i]) = Append(m[i], e)
      BY <1>1, <1>4, <1>5 DEF FieldValue
<1>8. MergePartialFromCodedStream(c, b, inner, Reading(m, p)) =
          Reading([m EXCEPT ![i] = FieldValue(c, b, inner, i, q, m[i])], FieldEnd(c, b, inner, i, q))
  <2>1. p \in Nat /\ p >= 1 /\ Tag(b, p) = TagOf(c, i) /\ VarintEnd(b, p) = p + 1
        BY <1>1, <1>4
  <2> QED BY <2>1, KnownTurn, Zenon
<1> HIDE DEF q, d
<1>9. MergePartialFromCodedStream(c, b, inner, Reading(m, p)) = Reading([m EXCEPT ![i] = Append(m[i], e)], p + Len(d))
      BY <1>6, <1>7, <1>8
<1> QED BY <1>9 DEF d, t, w, Piece, Added, IsTurn

-----------------------------------------------------------------------------
(* Fields this version does not know *)

\* The bytes of a group of number 7 with one field.
LEMMA SkipGroupOfSeven ==
    ASSUME NEW b \in Seq(Byte), NEW q \in Nat, q >= 2, q + 2 <= Len(b),
           b[q] = 8, b[q + 1] = 1, b[q + 2] = 60
    PROVE  SkipGroup(b, q, 7) = q + 3
<1> DEFINE K == Len(b)
           s0 == [at |-> q, open |-> <<7>>]
           s1 == [at |-> q + 2, open |-> <<7>>]
           s2 == [at |-> q + 3, open |-> <<>>]
<1>1. K \in Nat /\ q \in 1..K /\ q + 1 \in 1..K /\ q + 2 \in 1..K /\ 2 \in 0..K /\ 1 \in 0..K /\ 0 \in 0..K
      OBVIOUS
<1>2. Tag(b, q) = 8 /\ VarintEnd(b, q) = q + 1 /\ VarintEnd(b, q + 1) = q + 2
  <2>1. Tag(b, q) = 8 /\ VarintEnd(b, q) = q + 1
        BY <1>1, ReadByte
  <2>2. VarintEnd(b, q + 1) = q + 1 + 1
        BY <1>1, ReadByte
  <2> QED BY <2>1, <2>2
<1>3. Tag(b, q + 2) = 60 /\ VarintEnd(b, q + 2) = q + 3
  <2>1. Tag(b, q + 2) = 60 /\ VarintEnd(b, q + 2) = q + 2 + 1
        BY <1>1, ReadByte
  <2> QED BY <2>1
<1>4. SkipMessage(b, s0) = s1
  <2>1. s0.at = q /\ s0.open = <<7>> /\ <<7>> # <<>> /\ q # Failed
        BY DEF Failed
  <2>2. FieldNumber(8) = 1 /\ WireType(8) = 0
        BY DEF FieldNumber, WireType
  <2>3. SkipValue(b, q + 1, 0) = q + 2
        BY <1>2 DEF SkipValue
  <2> HIDE DEF s0
  <2> QED BY <1>2, <2>1, <2>2, <2>3 DEF SkipMessage
<1>5. SkipMessage(b, s1) = s2
  <2>1. s1.at = q + 2 /\ s1.open = <<7>> /\ <<7>> # <<>> /\ q + 2 # Failed
        BY DEF Failed
  <2>2. FieldNumber(60) = 7 /\ WireType(60) = 4
        BY DEF FieldNumber, WireType
  <2>3. Last(<<7>>) = 7 /\ Front(<<7>>) = <<>>
        BY DEF Last, Front
  <2> HIDE DEF s1
  <2> QED BY <1>3, <2>1, <2>2, <2>3 DEF SkipMessage
<1>6. SkipMessage(b, s2) = s2
  <2>1. s2.open = <<>>
        OBVIOUS
  <2> HIDE DEF s2
  <2> QED BY <2>1 DEF SkipMessage
<1>7. PICK r : GroupSol(r, b, q, 7, K) /\ SkipGroup(b, q, 7) = r[K].at
      BY SkipGroupIs
<1>8. r[0] = s0 /\ \A k \in 0..K : k # 0 => r[k] = SkipMessage(b, r[k - 1])
      BY <1>1, <1>7 DEF GroupSol
<1> HIDE DEF s0, s1
<1>9. r[2] = s2
  <2>1. r[1] = s1
    <3>1. 1 # 0 /\ 1 - 1 = 0
          OBVIOUS
    <3> QED BY <1>1, <1>4, <1>8, <3>1
  <2>2. 2 # 0 /\ 2 - 1 = 1
        OBVIOUS
  <2> QED BY <1>1, <1>5, <1>8, <2>1, <2>2
<1> DEFINE Bad == {k \in 2..K : r[k] # s2}
<1>10. ASSUME Bad # {} PROVE FALSE
  <2>1. PICK k \in Bad : \A j \in Bad : k <= j
    <3>1. Bad \subseteq Nat
          BY <1>1
    <3> HIDE DEF Bad
    <3> QED BY <1>10, <3>1, LeastNat
  <2>2. k \in 2..K /\ r[k] # s2
        OBVIOUS
  <2>3. k # 2
        BY <1>9, <2>2
  <2> DEFINE j == k - 1
  <2>4. j \in 2..K /\ ~(k <= j) /\ k \in 0..K /\ k # 0
        BY <1>1, <2>2, <2>3
  <2>5. r[k] = SkipMessage(b, r[j])
        BY <1>8, <2>4
  <2> HIDE DEF j
  <2>6. j \notin Bad
    <3> HIDE DEF Bad
    <3> QED BY <2>1, <2>4
  <2>7. r[j] = s2
        BY <2>4, <2>6
  <2> QED BY <1>6, <2>2, <2>5, <2>7
<1>11. K \in 2..K
      BY <1>1
<1>12. r[K] = s2
      BY <1>10, <1>11
<1> QED BY <1>7, <1>12

LEMMA SkipTurn ==
    ASSUME NEW c, NEW b \in Seq(Byte), NEW inner, NEW m, NEW p \in 1..Len(b), b[p] \in 1..127, ~IsKnown(c, b[p])
    PROVE  MergePartialFromCodedStream(c, b, inner, Reading(m, p)) = Reading(m, SkipField(b, p + 1, b[p]))
<1> DEFINE st == Reading(m, p)
           t == b[p]
<1>1. st.at = p /\ st.msg = m /\ p # Failed
      BY DEF Reading, Failed
<1>2. Tag(b, p) = t /\ VarintEnd(b, p) = p + 1 /\ t # 0 /\ ~IsKnown(c, t)
  <2>1. t \in 1..127 /\ b[p] = t
        OBVIOUS
  <2> HIDE DEF t
  <2>2. t \in 0..127 /\ t # 0
        BY <2>1
  <2> QED BY <2>1, <2>2, ReadByte
<1> HIDE DEF st, t
<1>3. MergePartialFromCodedStream(c, b, inner, st) = [msg |-> m, at |-> SkipField(b, p + 1, t), ok |-> FALSE]
      BY <1>1, <1>2 DEF MergePartialFromCodedStream
<1> QED BY <1>3 DEF st, t, Reading

LEMMA UnknownTags ==
    ASSUME NEW c \in Classes
    PROVE  ~IsKnown(c, 56) /\ ~IsKnown(c, 57) /\ ~IsKnown(c, 58) /\ ~IsKnown(c, 59) /\ ~IsKnown(c, 61)
           /\ ~IsKnown(c, 10)
<1>1. DOMAIN c = 1..Len(c) /\ Len(c) \in 1..6 /\ IsScalar(c[1])
      BY ClassFacts
<1>2. 7 \notin DOMAIN c
      BY <1>1
<1>3. /\ FieldNumber(56) = 7 /\ FieldNumber(57) = 7 /\ FieldNumber(58) = 7 /\ FieldNumber(59) = 7
      /\ FieldNumber(61) = 7 /\ FieldNumber(10) = 1 /\ WireType(10) = 2
      BY DEF FieldNumber, WireType
<1> QED BY <1>1, <1>2, <1>3 DEF IsKnown

LEMMA UnknownTurn ==
    ASSUME NEW c \in Classes, NEW b, NEW inner, NEW m, NEW p,
           NEW u \in Unknown, u # <<>>, StandsAt(b, p, u)
    PROVE  MergePartialFromCodedStream(c, b, inner, Reading(m, p)) = Reading(m, p + Len(u))
<1>1. b \in Seq(Byte) /\ p \in Nat /\ p >= 1 /\ Len(b) \in Nat
      BY DEF StandsAt
<1> DEFINE q == p + 1
<1>2. CASE u = <<56, 1>>
  <2>1. Len(u) = 2 /\ u[1] = 56 /\ u[2] = 1
        BY <1>2
  <2>2. p + 1 <= Len(b) /\ b[p] = 56 /\ b[q] = 1
        BY <1>1, <2>1 DEF StandsAt
  <2>3. SkipField(b, q, 56) = p + 2
    <3>1. FieldNumber(56) = 7 /\ WireType(56) = 0
          BY DEF FieldNumber, WireType
    <3>2. VarintEnd(b, q) = q + 1
          BY <1>1, <2>2, ReadByte
    <3>3. SkipValue(b, q, 0) = p + 2
          BY <1>1, <3>2 DEF SkipValue
    <3> QED BY <3>1, <3>3 DEF SkipField
  <2> DEFINE t == 56
             e == p + 2
  <2>4. b \in Seq(Byte) /\ p \in 1..Len(b) /\ t \in 1..127 /\ b[p] = t /\ SkipField(b, p + 1, t) = e
        BY <1>1, <2>2, <2>3
  <2>5. ~IsKnown(c, t)
        BY UnknownTags
  <2>6. e = p + Len(u)
        BY <2>1
  <2> HIDE DEF t, e
  <2>7. MergePartialFromCodedStream(c, b, inner, Reading(m, p)) = Reading(m, e)
    <3>1. p \in 1..Len(b) /\ b[p] \in 1..127 /\ ~IsKnown(c, b[p])
          BY <2>4, <2>5
    <3>2. MergePartialFromCodedStream(c, b, inner, Reading(m, p)) = Reading(m, SkipField(b, p + 1, b[p]))
          BY <1>1, <3>1, SkipTurn
    <3> QED BY <2>4, <3>2
  <2> QED BY <2>6, <2>7
<1>3. CASE u = <<57, 1, 2, 3, 4, 5, 6, 7, 8>>
  <2>1. Len(u) = 9 /\ u[1] = 57
        BY <1>3
  <2>2. p + 8 <= Len(b) /\ b[p] = 57
        BY <1>1, <2>1 DEF StandsAt
  <2>3. SkipField(b, q, 57) = p + 9
    <3>1. FieldNumber(57) = 7 /\ WireType(57) = 1
          BY DEF FieldNumber, WireType
    <3>2. FixedEnd(b, q, 8) = p + 9
          BY <1>1, <2>2 DEF FixedEnd
    <3>3. SkipValue(b, q, 1) = p + 9
          BY <3>2 DEF SkipValue
    <3> QED BY <3>1, <3>3 DEF SkipField
  <2> DEFINE t == 57
             e == p + 9
  <2>4. b \in Seq(Byte) /\ p \in 1..Len(b) /\ t \in 1..127 /\ b[p] = t /\ SkipField(b, p + 1, t) = e
        BY <1>1, <2>2, <2>3
  <2>5. ~IsKnown(c, t)
        BY UnknownTags
  <2>6. e = p + Len(u)
        BY <2>1
  <2> HIDE DEF t, e
  <2>7. MergePartialFromCodedStream(c, b, inner, Reading(m, p)) = Reading(m, e)
    <3>1. p \in 1..Len(b) /\ b[p] \in 1..127 /\ ~IsKnown(c, b[p])
          BY <2>4, <2>5
    <3>2. MergePartialFromCodedStream(c, b, inner, Reading(m, p)) = Reading(m, SkipField(b, p + 1, b[p]))
          BY <1>1, <3>1, SkipTurn
    <3> QED BY <2>4, <3>2
  <2> QED BY <2>6, <2>7
<1>4. CASE u = <<58, 2, 8, 1>>
  <2>1. Len(u) = 4 /\ u[1] = 58 /\ u[2] = 2
        BY <1>4
  <2>2. p + 3 <= Len(b) /\ b[p] = 58 /\ b[q] = 2
        BY <1>1, <2>1 DEF StandsAt
  <2>3. SkipField(b, q, 58) = p + 4
    <3>1. FieldNumber(58) = 7 /\ WireType(58) = 2
          BY DEF FieldNumber, WireType
    <3>2. VarintEnd(b, q) = q + 1 /\ VarintValue(b, q) = 2
          BY <1>1, <2>2, ReadByte
    <3>3. DelimitedEnd(b, q) = p + 4
          BY <1>1, <2>2, <3>2 DEF DelimitedEnd, Failed
    <3>4. SkipValue(b, q, 2) = p + 4
          BY <3>3 DEF SkipValue
    <3> QED BY <3>1, <3>4 DEF SkipField
  <2> DEFINE t == 58
             e == p + 4
  <2>4. b \in Seq(Byte) /\ p \in 1..Len(b) /\ t \in 1..127 /\ b[p] = t /\ SkipField(b, p + 1, t) = e
        BY <1>1, <2>2, <2>3
  <2>5. ~IsKnown(c, t)
        BY UnknownTags
  <2>6. e = p + Len(u)
        BY <2>1
  <2> HIDE DEF t, e
  <2>7. MergePartialFromCodedStream(c, b, inner, Reading(m, p)) = Reading(m, e)
    <3>1. p \in 1..Len(b) /\ b[p] \in 1..127 /\ ~IsKnown(c, b[p])
          BY <2>4, <2>5
    <3>2. MergePartialFromCodedStream(c, b, inner, Reading(m, p)) = Reading(m, SkipField(b, p + 1, b[p]))
          BY <1>1, <3>1, SkipTurn
    <3> QED BY <2>4, <3>2
  <2> QED BY <2>6, <2>7
<1>5. CASE u = <<59, 8, 1, 60>>
  <2>1. Len(u) = 4 /\ u[1] = 59 /\ u[2] = 8 /\ u[3] = 1 /\ u[4] = 60
        BY <1>5
  <2>2. p + 3 <= Len(b) /\ b[p] = 59 /\ b[q] = 8 /\ b[q + 1] = 1 /\ b[q + 2] = 60
        BY <1>1, <2>1 DEF StandsAt
  <2>3. SkipField(b, q, 59) = p + 4
    <3>1. FieldNumber(59) = 7 /\ WireType(59) = 3
          BY DEF FieldNumber, WireType
    <3>2. SkipGroup(b, q, 7) = q + 3
          BY <1>1, <2>2, SkipGroupOfSeven
    <3>3. SkipField(b, q, 59) = SkipGroup(b, q, 7)
          BY <3>1 DEF SkipField
    <3> QED BY <1>1, <3>2, <3>3
  <2> DEFINE t == 59
             e == p + 4
  <2>4. b \in Seq(Byte) /\ p \in 1..Len(b) /\ t \in 1..127 /\ b[p] = t /\ SkipField(b, p + 1, t) = e
        BY <1>1, <2>2, <2>3
  <2>5. ~IsKnown(c, t)
        BY UnknownTags
  <2>6. e = p + Len(u)
        BY <2>1
  <2> HIDE DEF t, e
  <2>7. MergePartialFromCodedStream(c, b, inner, Reading(m, p)) = Reading(m, e)
    <3>1. p \in 1..Len(b) /\ b[p] \in 1..127 /\ ~IsKnown(c, b[p])
          BY <2>4, <2>5
    <3>2. MergePartialFromCodedStream(c, b, inner, Reading(m, p)) = Reading(m, SkipField(b, p + 1, b[p]))
          BY <1>1, <3>1, SkipTurn
    <3> QED BY <2>4, <3>2
  <2> QED BY <2>6, <2>7
<1>6. CASE u = <<61, 8, 1, 8, 1>>
  <2>1. Len(u) = 5 /\ u[1] = 61
        BY <1>6
  <2>2. p + 4 <= Len(b) /\ b[p] = 61
        BY <1>1, <2>1 DEF StandsAt
  <2>3. SkipField(b, q, 61) = p + 5
    <3>1. FieldNumber(61) = 7 /\ WireType(61) = 5
          BY DEF FieldNumber, WireType
    <3>2. FixedEnd(b, q, 4) = p + 5
          BY <1>1, <2>2 DEF FixedEnd
    <3>3. SkipValue(b, q, 5) = p + 5
          BY <3>2 DEF SkipValue
    <3> QED BY <3>1, <3>3 DEF SkipField
  <2> DEFINE t == 61
             e == p + 5
  <2>4. b \in Seq(Byte) /\ p \in 1..Len(b) /\ t \in 1..127 /\ b[p] = t /\ SkipField(b, p + 1, t) = e
        BY <1>1, <2>2, <2>3
  <2>5. ~IsKnown(c, t)
        BY UnknownTags
  <2>6. e = p + Len(u)
        BY <2>1
  <2> HIDE DEF t, e
  <2>7. MergePartialFromCodedStream(c, b, inner, Reading(m, p)) = Reading(m, e)
    <3>1. p \in 1..Len(b) /\ b[p] \in 1..127 /\ ~IsKnown(c, b[p])
          BY <2>4, <2>5
    <3>2. MergePartialFromCodedStream(c, b, inner, Reading(m, p)) = Reading(m, SkipField(b, p + 1, b[p]))
          BY <1>1, <3>1, SkipTurn
    <3> QED BY <2>4, <3>2
  <2> QED BY <2>6, <2>7
<1>7. CASE u = <<10, 1, 5>>
  <2>1. Len(u) = 3 /\ u[1] = 10 /\ u[2] = 1
        BY <1>7
  <2>2. p + 2 <= Len(b) /\ b[p] = 10 /\ b[q] = 1
        BY <1>1, <2>1 DEF StandsAt
  <2>3. SkipField(b, q, 10) = p + 3
    <3>1. FieldNumber(10) = 1 /\ WireType(10) = 2
          BY DEF FieldNumber, WireType
    <3>2. VarintEnd(b, q) = q + 1 /\ VarintValue(b, q) = 1
          BY <1>1, <2>2, ReadByte
    <3>3. DelimitedEnd(b, q) = p + 3
          BY <1>1, <2>2, <3>2 DEF DelimitedEnd, Failed
    <3>4. SkipValue(b, q, 2) = p + 3
          BY <3>3 DEF SkipValue
    <3> QED BY <3>1, <3>4 DEF SkipField
  <2> DEFINE t == 10
             e == p + 3
  <2>4. b \in Seq(Byte) /\ p \in 1..Len(b) /\ t \in 1..127 /\ b[p] = t /\ SkipField(b, p + 1, t) = e
        BY <1>1, <2>2, <2>3
  <2>5. ~IsKnown(c, t)
        BY UnknownTags
  <2>6. e = p + Len(u)
        BY <2>1
  <2> HIDE DEF t, e
  <2>7. MergePartialFromCodedStream(c, b, inner, Reading(m, p)) = Reading(m, e)
    <3>1. p \in 1..Len(b) /\ b[p] \in 1..127 /\ ~IsKnown(c, b[p])
          BY <2>4, <2>5
    <3>2. MergePartialFromCodedStream(c, b, inner, Reading(m, p)) = Reading(m, SkipField(b, p + 1, b[p]))
          BY <1>1, <3>1, SkipTurn
    <3> QED BY <2>4, <3>2
  <2> QED BY <2>6, <2>7
<1> QED BY <1>2, <1>3, <1>4, <1>5, <1>6, <1>7 DEF Unknown

-----------------------------------------------------------------------------
(* Reading a message back, field by field *)

\* Where a concatenation stands, its parts stand one behind the other.
LEMMA FlattenStands ==
    ASSUME NEW b, NEW p, NEW s \in Seq(Seq(Byte)), NEW f, IsFlatten(f, Byte, s),
           StandsAt(b, p, FlattenSeq(s))
    PROVE  \A k \in 1..Len(s) : /\ StandsAt(b, p + Len(f[k - 1]), s[k])
                                /\ Len(f[k]) = Len(f[k - 1]) + Len(s[k])
                                /\ Len(f[k - 1]) \in Nat
<1> DEFINE N == Len(s)
<1>1. /\ N \in Nat /\ \A k \in 0..N : f[k] \in Seq(Byte)
      /\ \A k \in 1..N : f[k] = f[k - 1] \o s[k]
      /\ StandsAt(b, p, f[N])
  <2>1. N \in Nat
        OBVIOUS
  <2>2. /\ f \in [0..Len(s) -> Seq(Byte)]
        /\ \A k \in 1..Len(s) : f[k] = f[k - 1] \o s[k]
        /\ FlattenSeq(s) = f[Len(s)]
        BY Zenon DEF IsFlatten
  <2>3. StandsAt(b, p, f[N])
        BY <2>2, Zenon
  <2>4. \A k \in 0..N : f[k] \in Seq(Byte)
        BY <2>2
  <2> QED BY <2>1, <2>2, <2>3, <2>4
<1>2. \A k \in 1..N : s[k] \in Seq(Byte)
      OBVIOUS
<1> HIDE DEF N
<1>3. ASSUME NEW k \in 1..N, StandsAt(b, p, f[k])
      PROVE  /\ StandsAt(b, p, f[k - 1]) /\ StandsAt(b, p + Len(f[k - 1]), s[k])
             /\ Len(f[k]) = Len(f[k - 1]) + Len(s[k])
             /\ Len(f[k - 1]) \in Nat
  <2> DEFINE u == f[k - 1]
             w == s[k]
  <2>1. k - 1 \in 0..N
        BY <1>1
  <2>2. u \in Seq(Byte) /\ w \in Seq(Byte)
        BY <1>1, <1>2, <2>1
  <2>3. f[k] = u \o w
        BY <1>1
  <2>4. StandsAt(b, p, u \o w)
        BY <1>3, <2>3
  <2> HIDE DEF u, w
  <2>5. StandsAt(b, p, u) /\ StandsAt(b, p + Len(u), w) /\ Len(u \o w) = Len(u) + Len(w)
        BY <2>2, <2>4, StandsConcat
  <2>6. Len(u) \in Nat
        BY <2>2
  <2> QED BY <2>3, <2>5, <2>6 DEF u, w
<1> DEFINE Bad == {j \in 0..N : ~StandsAt(b, p, f[N - j])}
<1>4. ASSUME Bad # {} PROVE FALSE
  <2>1. PICK j \in Bad : \A h \in Bad : j <= h
    <3>1. Bad \subseteq Nat
          BY <1>1
    <3> HIDE DEF Bad
    <3> QED BY <1>4, <3>1, LeastNat
  <2>2. j \in 0..N /\ ~StandsAt(b, p, f[N - j])
        OBVIOUS
  <2>3. j # 0
    <3>1. N - 0 = N
          BY <1>1
    <3> QED BY <1>1, <2>2, <3>1
  <2> DEFINE h == j - 1
             k == N - h
  <2>4. h \in 0..N /\ ~(j <= h) /\ k \in 1..N /\ k - 1 = N - j
        BY <1>1, <2>2, <2>3
  <2>5. h \notin Bad
    <3> HIDE DEF Bad, h
    <3> QED BY <2>1, <2>4
  <2>6. StandsAt(b, p, f[k])
        BY <2>4, <2>5
  <2> HIDE DEF h, k
  <2>7. StandsAt(b, p, f[k - 1])
        BY <1>3, <2>4, <2>6
  <2> QED BY <2>2, <2>4, <2>7
<1>5. ASSUME NEW k \in 1..N PROVE StandsAt(b, p, f[k])
  <2> DEFINE j == N - k
  <2>1. j \in 0..N /\ N - j = k
        BY <1>1
  <2> QED BY <1>4, <2>1
<1>6. \A k \in 1..N : /\ StandsAt(b, p + Len(f[k - 1]), s[k])
                      /\ Len(f[k]) = Len(f[k - 1]) + Len(s[k])
                      /\ Len(f[k - 1]) \in Nat
      BY <1>3, <1>5
<1> QED BY <1>6 DEF N

\* inner has the entries that stand in b.
Reads(b, inner) ==
    \A q \in 1..Len(b) : \A e \in EntryMsgs : Delimitee(b, q) = SerializeEntry(e) => inner[q] = Whole(e)

ReadsFor(c, b, inner) == (\A i \in 1..Len(c) : c[i] # "entries") \/ Reads(b, inner)

LEMMA ExceptTwice ==
    ASSUME NEW x, NEW n, NEW i \in 1..n, x = [j \in 1..n |-> x[j]], NEW v, NEW w
    PROVE  /\ [x EXCEPT ![i] = v][i] = v
           /\ [[x EXCEPT ![i] = v] EXCEPT ![i] = w] = [x EXCEPT ![i] = w]
           /\ [x EXCEPT ![i] = x[i]] = x
<1>1. [x EXCEPT ![i] = v][i] = v
      OBVIOUS
<1>2. [[x EXCEPT ![i] = v] EXCEPT ![i] = w] = [x EXCEPT ![i] = w]
      OBVIOUS
<1>3. [x EXCEPT ![i] = x[i]] = x
      OBVIOUS
<1> QED BY <1>1, <1>2, <1>3

LEMMA SubSeqAppend ==
    ASSUME NEW S, NEW es \in Seq(S), NEW k \in 1..Len(es)
    PROVE  /\ SubSeq(es, 1, k) = Append(SubSeq(es, 1, k - 1), es[k])
           /\ SubSeq(es, 1, 0) = <<>> /\ SubSeq(es, 1, Len(es)) = es
      OBVIOUS

LEMMA EntryVisit ==
    ASSUME NEW c \in Classes, NEW b, NEW inner, Reads(b, inner), NEW r, IsRun(r, c, b, inner),
           NEW i \in 1..Len(c), c[i] = "entries", NEW y, NEW p, Visits(r, b, Reading(y, p)),
           NEW e \in EntryMsgs, StandsAt(b, p, Piece(i, e))
    PROVE  Visits(r, b, Reading(Added(y, i, e), p + Len(Piece(i, e))))
<1> DEFINE t == 8 * i + 2
           w == SerializeEntry(e)
           n == p + Len(Piece(i, e))
<1>1. t \in 1..127
  <2>1. ~IsScalar(c[i])
        BY DEF IsScalar
  <2>2. TagOf(c, i) = t
        BY <2>1 DEF TagOf
  <2> QED BY <2>2, KnownTag
<1>2. b \in Seq(Byte) /\ p \in Nat /\ p >= 1
      BY Zenon DEF StandsAt
<1>3. w \in Seq(Byte) /\ Len(w) \in Uint
  <2>1. w \in Seq(NonZero) /\ Len(w) \in 0..47
        BY EntryBytes
  <2>2. Len(w) \in 0..127
        BY <2>1
  <2> QED BY <2>1, <2>2, NonZeroIsByte, SmallSize
<1>4. inner[p + 1] = Whole(e)
  <2>1. StandsAt(b, p, Delimited(t, w))
        BY DEF Piece
  <2> HIDE DEF t, w
  <2>2. p + 1 \in 1..Len(b) /\ Delimitee(b, p + 1) = w
        BY <1>1, <1>3, <2>1, ReadDelimited
  <2> QED BY <2>2 DEF Reads, w
<1>5. IsTurn(c, b, inner, Reading(y, p), Reading(Added(y, i, e), n))
      BY <1>4, EntryTurn, Zenon
<1>6. Reading(y, p).at # Failed
      BY <1>2 DEF Reading, Failed
<1> HIDE DEF n
<1>7. Visits(r, b, MergePartialFromCodedStream(c, b, inner, Reading(y, p)))
      BY <1>2, <1>6, VisitNext
<1>8. Visits(r, b, Reading(Added(y, i, e), n))
      BY <1>5, <1>7, Zenon DEF IsTurn
<1> QED BY <1>8 DEF n

LEMMA EntryStep ==
    ASSUME NEW c \in Classes, NEW b, NEW inner, Reads(b, inner), NEW r, IsRun(r, c, b, inner),
           NEW i \in 1..Len(c), c[i] = "entries", NEW x, x = [j \in 1..Len(c) |-> x[j]], NEW v, NEW p,
           Visits(r, b, Reading([x EXCEPT ![i] = v], p)),
           NEW e \in EntryMsgs, StandsAt(b, p, Piece(i, e))
    PROVE  Visits(r, b, Reading([x EXCEPT ![i] = Append(v, e)],
                                p + Len(Piece(i, e))))
<1> DEFINE y == [x EXCEPT ![i] = v]
           n == p + Len(Piece(i, e))
<1>1. y[i] = v
      BY ExceptTwice
<1>2. [y EXCEPT ![i] = Append(v, e)] = [x EXCEPT ![i] = Append(v, e)]
      BY ExceptTwice
<1>3. Visits(r, b, Reading(y, p))
      OBVIOUS
<1> HIDE DEF y
<1>4. Visits(r, b, Reading(Added(y, i, e), n))
      BY <1>3, EntryVisit, Zenon
<1> HIDE DEF n
<1>5. Visits(r, b, Reading([x EXCEPT ![i] = Append(v, e)], n))
      BY <1>1, <1>2, <1>4 DEF Added
<1> QED BY <1>5 DEF n

LEMMA EntriesPath ==
    ASSUME NEW c \in Classes, NEW b, NEW inner, Reads(b, inner), NEW r, IsRun(r, c, b, inner),
           NEW i \in 1..Len(c), c[i] = "entries", NEW x, x = [j \in 1..Len(c) |-> x[j]], x[i] = <<>>,
           NEW p, Visits(r, b, Reading(x, p)),
           NEW es \in Seq(EntryMsgs), StandsAt(b, p, EntriesField(i, es))
    PROVE  Visits(r, b, Reading([x EXCEPT ![i] = es], p + Len(EntriesField(i, es))))
<1> DEFINE s == Pieces(i, es)
           N == Len(es)
<1>1. /\ EntriesField(i, es) = FlattenSeq(s) /\ s \in Seq(Seq(Byte)) /\ Len(s) = N /\ N \in Nat
      /\ \A k \in 1..N : s[k] = Piece(i, es[k])
  <2>1. i \in 1..6
        BY ClassFacts, SMTT(40)
  <2>2. /\ EntriesField(i, es) = FlattenSeq(s) /\ s \in Seq(Seq(Byte)) /\ Len(s) = N
        /\ \A k \in 1..Len(es) : s[k] = Delimited(8 * i + 2, SerializeEntry(es[k]))
        BY <2>1, PieceFacts
  <2>3. N \in Nat
        OBVIOUS
  <2> QED BY <2>2, <2>3, Zenon DEF Piece
<1> HIDE DEF s
<1>2. PICK f : IsFlatten(f, Byte, s)
      BY <1>1, FlattenFacts
<1>3. StandsAt(b, p, FlattenSeq(s))
      BY <1>1, Zenon
<1>4. /\ f[0] = <<>> /\ FlattenSeq(s) = f[N]
      /\ \A k \in 1..N : /\ StandsAt(b, p + Len(f[k - 1]), s[k])
                         /\ Len(f[k]) = Len(f[k - 1]) + Len(s[k])
                         /\ Len(f[k - 1]) \in Nat
  <2>1. f[0] = <<>> /\ FlattenSeq(s) = f[Len(s)]
        BY <1>2, Zenon DEF IsFlatten
  <2>2. \A k \in 1..Len(s) : /\ StandsAt(b, p + Len(f[k - 1]), s[k])
                             /\ Len(f[k]) = Len(f[k - 1]) + Len(s[k])
                             /\ Len(f[k - 1]) \in Nat
        BY <1>1, <1>2, <1>3, FlattenStands, Zenon
  <2> QED BY <1>1, <2>1, <2>2
<1>5. p \in Nat
      BY <1>3, Zenon DEF StandsAt
<1> DEFINE At(k) == Visits(r, b, Reading([x EXCEPT ![i] = SubSeq(es, 1, k)], p + Len(f[k])))
           Bad == {k \in 0..N : ~At(k)}
<1>6. At(0)
  <2>1. SubSeq(es, 1, 0) = <<>> /\ Len(<<>>) = 0
        OBVIOUS
  <2>2. [x EXCEPT ![i] = <<>>] = x
        BY ExceptTwice
  <2>3. p + Len(f[0]) = p
        BY <1>4, <1>5, <2>1
  <2> QED BY <2>1, <2>2, <2>3
<1>7. ASSUME NEW k \in 1..N, At(k - 1) PROVE At(k)
  <2> DEFINE v == SubSeq(es, 1, k - 1)
             q == p + Len(f[k - 1])
             e == es[k]
  <2>1. e \in EntryMsgs
        BY <1>1
  <2>2. StandsAt(b, q, Piece(i, e))
        BY <1>1, <1>4
  <2>3. Visits(r, b, Reading([x EXCEPT ![i] = v], q))
        BY <1>7
  <2>4. SubSeq(es, 1, k) = Append(v, e)
        BY <1>1, SubSeqAppend
  <2>5. q + Len(Piece(i, e)) = p + Len(f[k])
    <3>1. Len(f[k]) = Len(f[k - 1]) + Len(s[k]) /\ Len(f[k - 1]) \in Nat /\ s[k] = Piece(i, e)
          BY <1>1, <1>4
    <3>2. Len(s[k]) \in Nat
          BY <1>1
    <3> DEFINE a == Len(f[k - 1])
               z == Len(Piece(i, e))
               w == Len(f[k])
    <3>3. w = a + z /\ a \in Nat /\ z \in Nat /\ q = p + a
          BY <3>1, <3>2
    <3> HIDE DEF a, z, w, q
    <3>4. q + z = p + w
          BY <1>5, <3>3
    <3> QED BY <3>4 DEF z, w
  <2> HIDE DEF v, q, e
  <2>6. Visits(r, b, Reading([x EXCEPT ![i] = Append(v, e)], q + Len(Piece(i, e))))
        BY <2>1, <2>2, <2>3, EntryStep, Zenon
  <2> QED BY <2>4, <2>5, <2>6
<1> HIDE DEF At
<1>8. ASSUME Bad # {} PROVE FALSE
  <2>1. PICK k \in Bad : \A h \in Bad : k <= h
    <3>1. Bad \subseteq Nat
          BY <1>1
    <3> HIDE DEF Bad
    <3> QED BY <1>8, <3>1, LeastNat
  <2>2. k \in 0..N /\ ~At(k) /\ k # 0
        BY <1>6
  <2> DEFINE h == k - 1
  <2>3. h \in 0..N /\ ~(k <= h) /\ k \in 1..N
        BY <1>1, <2>2
  <2>4. h \notin Bad
    <3> HIDE DEF Bad, h
    <3> QED BY <2>1, <2>3
  <2>5. At(h)
    <3> HIDE DEF h
    <3> QED BY <2>3, <2>4
  <2> QED BY <1>7, <2>2, <2>3, <2>5
<1>9. At(N)
  <2>1. N \in 0..N
        BY <1>1
  <2> QED BY <1>8, <2>1
<1>10. SubSeq(es, 1, N) = es
      OBVIOUS
<1>11. Visits(r, b, Reading([x EXCEPT ![i] = es], p + Len(f[N])))
      BY <1>9, <1>10 DEF At
<1>12. f[N] = EntriesField(i, es)
      BY <1>1, <1>4, Zenon
<1> QED BY <1>11, <1>12

LEMMA TurnVisit ==
    ASSUME NEW c, NEW b, NEW inner, NEW r, IsRun(r, c, b, inner), NEW x, NEW p, NEW w, StandsAt(b, p, w),
           Visits(r, b, Reading(x, p)), NEW st, IsTurn(c, b, inner, Reading(x, p), st)
    PROVE  Visits(r, b, st)
<1>1. b \in Seq(Byte) /\ p \in Nat /\ p >= 1
      BY Zenon DEF StandsAt
<1>2. Reading(x, p).at # Failed
      BY <1>1 DEF Reading, Failed
<1>3. Visits(r, b, MergePartialFromCodedStream(c, b, inner, Reading(x, p)))
      BY <1>1, <1>2, VisitNext
<1> QED BY <1>3 DEF IsTurn

LEMMA FieldPath ==
    ASSUME NEW c \in Classes, NEW b, NEW inner, ReadsFor(c, b, inner), NEW r, IsRun(r, c, b, inner),
           NEW m, IsMsg(c, m), NEW i \in 1..Len(c), NEW x, x = [j \in 1..Len(c) |-> x[j]],
           x[i] = SharedCtor(c)[i], NEW p, Visits(r, b, Reading(x, p)), StandsAt(b, p, Part(c, m, i))
    PROVE  Visits(r, b, Reading([x EXCEPT ![i] = m[i]], p + Len(Part(c, m, i))))
<1> DEFINE v == m[i]
           d == Part(c, m, i)
           nx == Reading([x EXCEPT ![i] = v], p + Len(d))
<1>1. c[i] \in Types /\ IsFieldValue(c[i], v) /\ DOMAIN c = 1..Len(c)
      BY ClassFacts DEF IsMsg
<1>2. x[i] = IF IsScalar(c[i]) THEN 0 ELSE <<>>
      BY <1>1 DEF SharedCtor
<1>3. p \in Nat /\ StandsAt(b, p, d)
      BY Zenon DEF StandsAt
<1>4. ASSUME v = x[i], d = <<>> PROVE Visits(r, b, nx)
  <2>1. [x EXCEPT ![i] = v] = x
        BY <1>4, ExceptTwice
  <2>2. p + Len(d) = p
        BY <1>3, <1>4
  <2> HIDE DEF v, d
  <2> QED BY <2>1, <2>2
<1>5. ASSUME IsTurn(c, b, inner, Reading(x, p), nx) PROVE Visits(r, b, nx)
  <2> HIDE DEF nx, d
  <2> QED BY <1>3, <1>5, TurnVisit, Zenon
<1>6. CASE IsScalar(c[i])
  <2>1. d = ScalarField(i, v) /\ x[i] = 0
        BY <1>2, <1>6 DEF Part
  <2>2. v \in Uint /\ (c[i] = "bool" => v \in {0, 1})
        BY <1>1, <1>6, UintBase DEF IsFieldValue, Uint
  <2>3. CASE v = 0
    <3>1. d = <<>>
          BY <2>1, <2>3 DEF ScalarField
    <3> QED BY <1>4, <2>1, <2>3, <3>1
  <2>4. CASE v # 0
    <3>1. c[i] = "bool" => v = 1
          BY <2>2, <2>4
    <3>2. StandsAt(b, p, ScalarField(i, v))
          BY <1>3, <2>1
    <3>3. MergePartialFromCodedStream(c, b, inner, Reading(x, p)) =
              Reading([x EXCEPT ![i] = v], p + Len(ScalarField(i, v)))
      <4> HIDE DEF v
      <4> QED BY <1>6, <2>2, <2>4, <3>1, <3>2, ScalarTurn
    <3>4. IsTurn(c, b, inner, Reading(x, p), nx)
          BY <2>1, <3>3, Zenon DEF IsTurn
    <3> QED BY <1>5, <3>4
  <2> QED BY <2>3, <2>4
<1>7. CASE ~IsScalar(c[i]) /\ c[i] = "string"
  <2>1. d = StringField(i, v) /\ x[i] = <<>>
        BY <1>2, <1>7 DEF Part
  <2>2. v \in Text
        BY <1>1, <1>7 DEF IsFieldValue
  <2>3. CASE v = <<>>
    <3>1. d = <<>>
          BY <2>1, <2>3 DEF StringField
    <3> QED BY <1>4, <2>1, <2>3, <3>1
  <2>4. CASE v # <<>>
    <3>1. StandsAt(b, p, StringField(i, v))
          BY <1>3, <2>1
    <3>2. MergePartialFromCodedStream(c, b, inner, Reading(x, p)) =
              Reading([x EXCEPT ![i] = v], p + Len(StringField(i, v)))
      <4> HIDE DEF v
      <4> QED BY <1>7, <2>2, <2>4, <3>1, StringTurn
    <3>3. IsTurn(c, b, inner, Reading(x, p), nx)
          BY <2>1, <3>2, Zenon DEF IsTurn
    <3> QED BY <1>5, <3>3
  <2> QED BY <2>3, <2>4
<1>8. CASE ~IsScalar(c[i]) /\ c[i] # "string"
  <2>1. c[i] = "entries"
        BY <1>1, <1>8 DEF Types, IsScalar
  <2>2. d = EntriesField(i, v) /\ v \in Seq(EntryMsgs) /\ x[i] = <<>>
        BY <1>1, <1>2, <1>8, <2>1 DEF Part, IsFieldValue
  <2>3. StandsAt(b, p, EntriesField(i, v))
        BY <1>3, <2>2
  <2>4. Visits(r, b, Reading([x EXCEPT ![i] = v], p + Len(EntriesField(i, v))))
    <3>1. Reads(b, inner)
          BY <2>1 DEF ReadsFor
    <3> HIDE DEF v, d
    <3> QED BY <2>1, <2>2, <2>3, <3>1, EntriesPath, Zenon
  <2> QED BY <2>2, <2>4, Zenon
<1> QED BY <1>6, <1>7, <1>8

\* A new message into which the first k fields of m have been read.
Sofar(c, m, k) == [i \in 1..Len(c) |-> IF i <= k THEN m[i] ELSE SharedCtor(c)[i]]

LEMMA SofarFacts ==
    ASSUME NEW c \in Classes, NEW m, IsMsg(c, m)
    PROVE  /\ Sofar(c, m, 0) = SharedCtor(c) /\ Sofar(c, m, Len(c)) = m
           /\ \A k \in 1..Len(c) : /\ Sofar(c, m, k - 1) = [j \in 1..Len(c) |-> Sofar(c, m, k - 1)[j]]
                                   /\ Sofar(c, m, k - 1)[k] = SharedCtor(c)[k]
                                   /\ [Sofar(c, m, k - 1) EXCEPT ![k] = m[k]] = Sofar(c, m, k)
<1> DEFINE z == SharedCtor(c)
<1>1. DOMAIN c = 1..Len(c) /\ Len(c) \in Nat
      BY ClassFacts
<1>2. z = [i \in 1..Len(c) |-> z[i]]
      BY <1>1 DEF SharedCtor
<1>3. m = [i \in 1..Len(c) |-> m[i]]
      BY DEF IsMsg
<1> HIDE DEF z
<1>4. Sofar(c, m, 0) = z
  <2>1. \A i \in 1..Len(c) : ~(i <= 0)
        BY <1>1
  <2> QED BY <1>2, <2>1 DEF Sofar, z
<1>5. Sofar(c, m, Len(c)) = m
  <2>1. \A i \in 1..Len(c) : i <= Len(c)
        BY <1>1
  <2> QED BY <1>3, <2>1 DEF Sofar
<1>6. ASSUME NEW k \in 1..Len(c)
      PROVE  /\ Sofar(c, m, k - 1) = [j \in 1..Len(c) |-> Sofar(c, m, k - 1)[j]]
             /\ Sofar(c, m, k - 1)[k] = z[k]
             /\ [Sofar(c, m, k - 1) EXCEPT ![k] = m[k]] = Sofar(c, m, k)
  <2>1. ~(k <= k - 1) /\ k <= k /\ \A i \in 1..Len(c) : i # k => (i <= k - 1 <=> i <= k)
        BY <1>1
  <2>2. Sofar(c, m, k - 1) = [j \in 1..Len(c) |-> Sofar(c, m, k - 1)[j]]
        BY DEF Sofar
  <2>3. Sofar(c, m, k - 1)[k] = z[k]
        BY <2>1 DEF Sofar, z
  <2>4. [Sofar(c, m, k - 1) EXCEPT ![k] = m[k]] = Sofar(c, m, k)
        BY <2>1 DEF Sofar
  <2> QED BY <2>2, <2>3, <2>4
<1> QED BY <1>4, <1>5, <1>6 DEF z

\* A parse that comes to a message reads it.
LEMMA MessagePath ==
    ASSUME NEW c \in Classes, NEW b, NEW inner, ReadsFor(c, b, inner), NEW r, IsRun(r, c, b, inner),
           NEW m, IsMsg(c, m), NEW p, Visits(r, b, Reading(SharedCtor(c), p)),
           StandsAt(b, p, Serialize(c, m))
    PROVE  Visits(r, b, Reading(m, p + Len(Serialize(c, m))))
<1> DEFINE s == Parts(c, m)
           N == Len(c)
<1>1. /\ Serialize(c, m) = FlattenSeq(s) /\ s \in Seq(Seq(Byte)) /\ Len(s) = N /\ N \in Nat
      /\ \A k \in 1..N : s[k] = Part(c, m, k)
  <2>1. N \in Nat
        BY ClassFacts
  <2>2. \A k \in 1..N : s[k] = Part(c, m, k)
        BY DEF Parts
  <2> QED BY <2>1, <2>2, SerializeIsParts, MessageBytes
<1> HIDE DEF s
<1>2. PICK f : IsFlatten(f, Byte, s)
      BY <1>1, FlattenFacts
<1>3. StandsAt(b, p, FlattenSeq(s))
      BY <1>1, Zenon
<1>4. /\ f[0] = <<>> /\ FlattenSeq(s) = f[N]
      /\ \A k \in 1..N : /\ StandsAt(b, p + Len(f[k - 1]), s[k])
                         /\ Len(f[k]) = Len(f[k - 1]) + Len(s[k])
                         /\ Len(f[k - 1]) \in Nat
  <2>1. f[0] = <<>> /\ FlattenSeq(s) = f[Len(s)]
        BY <1>2, Zenon DEF IsFlatten
  <2>2. \A k \in 1..Len(s) : /\ StandsAt(b, p + Len(f[k - 1]), s[k])
                             /\ Len(f[k]) = Len(f[k - 1]) + Len(s[k])
                             /\ Len(f[k - 1]) \in Nat
        BY <1>1, <1>2, <1>3, FlattenStands, Zenon
  <2> QED BY <1>1, <2>1, <2>2
<1>5. p \in Nat
      BY <1>3, Zenon DEF StandsAt
<1> DEFINE At(k) == Visits(r, b, Reading(Sofar(c, m, k), p + Len(f[k])))
           Bad == {k \in 0..N : ~At(k)}
<1>6. At(0)
  <2>1. Sofar(c, m, 0) = SharedCtor(c)
        BY SofarFacts
  <2>2. p + Len(f[0]) = p
        BY <1>4, <1>5
  <2> QED BY <2>1, <2>2
<1>7. ASSUME NEW k \in 1..N, At(k - 1) PROVE At(k)
  <2> DEFINE x == Sofar(c, m, k - 1)
             q == p + Len(f[k - 1])
  <2>1. x = [j \in 1..Len(c) |-> x[j]] /\ x[k] = SharedCtor(c)[k] /\ [x EXCEPT ![k] = m[k]] = Sofar(c, m, k)
        BY SofarFacts
  <2>2. StandsAt(b, q, Part(c, m, k))
        BY <1>1, <1>4
  <2>3. Visits(r, b, Reading(x, q))
        BY <1>7
  <2>4. q + Len(Part(c, m, k)) = p + Len(f[k])
    <3>1. Len(f[k]) = Len(f[k - 1]) + Len(s[k]) /\ Len(f[k - 1]) \in Nat /\ s[k] = Part(c, m, k)
          BY <1>1, <1>4
    <3>2. Len(s[k]) \in Nat
          BY <1>1
    <3> DEFINE a == Len(f[k - 1])
               z == Len(Part(c, m, k))
               w == Len(f[k])
    <3>3. w = a + z /\ a \in Nat /\ z \in Nat /\ q = p + a
          BY <3>1, <3>2
    <3> HIDE DEF a, z, w, q
    <3>4. q + z = p + w
          BY <1>5, <3>3
    <3> QED BY <3>4 DEF z, w
  <2> HIDE DEF x, q
  <2>5. Visits(r, b, Reading([x EXCEPT ![k] = m[k]], q + Len(Part(c, m, k))))
        BY <2>1, <2>2, <2>3, FieldPath, Zenon
  <2> QED BY <2>1, <2>4, <2>5
<1> HIDE DEF At
<1>8. ASSUME Bad # {} PROVE FALSE
  <2>1. PICK k \in Bad : \A h \in Bad : k <= h
    <3>1. Bad \subseteq Nat
          BY <1>1
    <3> HIDE DEF Bad
    <3> QED BY <1>8, <3>1, LeastNat
  <2>2. k \in 0..N /\ ~At(k) /\ k # 0
        BY <1>6
  <2> DEFINE h == k - 1
  <2>3. h \in 0..N /\ ~(k <= h) /\ k \in 1..N
        BY <1>1, <2>2
  <2>4. h \notin Bad
    <3> HIDE DEF Bad, h
    <3> QED BY <2>1, <2>3
  <2>5. At(h)
    <3> HIDE DEF h
    <3> QED BY <2>3, <2>4
  <2> QED BY <1>7, <2>2, <2>3, <2>5
<1>9. At(N)
  <2>1. N \in 0..N
        BY <1>1
  <2> QED BY <1>8, <2>1
<1>10. Sofar(c, m, N) = m
      BY SofarFacts
<1>11. Visits(r, b, Reading(m, p + Len(f[N])))
      BY <1>9, <1>10 DEF At
<1>12. f[N] = Serialize(c, m)
      BY <1>1, <1>4, Zenon
<1> QED BY <1>11, <1>12

LEMMA ConcatStands ==
    ASSUME NEW u \in Seq(Byte), NEW w \in Seq(Byte)
    PROVE  /\ u \o w \in Seq(Byte) /\ Len(u \o w) = Len(u) + Len(w) /\ Len(u) \in Nat /\ Len(w) \in Nat
           /\ StandsAt(u \o w, 1, u) /\ StandsAt(u \o w, 1 + Len(u), w)
           /\ StandsAt(u, 1, u)
<1> DEFINE d == u \o w
<1>1. /\ d \in Seq(Byte) /\ Len(d) = Len(u) + Len(w)
      /\ \A i \in 1..(Len(u) + Len(w)) : d[i] = IF i <= Len(u) THEN u[i] ELSE w[i - Len(u)]
      BY ONLY u \in Seq(Byte), w \in Seq(Byte), ConcatProperties
<1>2. Len(u) \in Nat /\ Len(w) \in Nat
      OBVIOUS
<1> HIDE DEF d
<1>3. StandsAt(u, 1, u)
      BY <1>2 DEF StandsAt
<1>4. StandsAt(d, 1, d)
      BY <1>1, <1>2 DEF StandsAt
<1>5. StandsAt(d, 1, u \o w)
      BY <1>4 DEF d
<1>6. StandsAt(d, 1, u) /\ StandsAt(d, 1 + Len(u), w)
      BY <1>5, StandsConcat
<1> QED BY <1>1, <1>2, <1>3, <1>6 DEF d

\* Behind the last byte there is nothing to read.
LEMMA EndTag ==
    ASSUME NEW b \in Seq(Byte), NEW p \in Nat, p > Len(b)
    PROVE  Tag(b, p) = 0
      BY DEF Tag

LEMMA UnknownBytes ==
    ASSUME NEW u \in Unknown
    PROVE  u \in Seq(Byte)
<1>1. <<>> \in Seq(Byte)
      OBVIOUS
<1>2. <<56, 1>> \in Seq(Byte)
      BY DEF Byte
<1>3. <<57, 1, 2, 3, 4, 5, 6, 7, 8>> \in Seq(Byte)
      BY DEF Byte
<1>4. <<58, 2, 8, 1>> \in Seq(Byte)
      BY DEF Byte
<1>5. <<59, 8, 1, 60>> \in Seq(Byte)
      BY DEF Byte
<1>6. <<61, 8, 1, 8, 1>> \in Seq(Byte)
      BY DEF Byte
<1>7. <<10, 1, 5>> \in Seq(Byte)
      BY DEF Byte
<1> QED BY <1>1, <1>2, <1>3, <1>4, <1>5, <1>6, <1>7 DEF Unknown

\* A parse of a message alone, and one with unknown fields before or behind.
LEMMA ParseBack ==
    ASSUME NEW c \in Classes, NEW m, IsMsg(c, m), NEW inner, NEW u \in Unknown, NEW b,
           b = u \o Serialize(c, m) \/ b = Serialize(c, m) \o u, ReadsFor(c, b, inner)
    PROVE  Parse(c, b, inner) = Whole(m)
<1> DEFINE w == Serialize(c, m)
<1>1. w \in Seq(Byte)
      BY MessageBytes
<1>2. u \in Seq(Byte)
      BY UnknownBytes
<1> HIDE DEF w
<1>3. b \in Seq(Byte) /\ Len(b) = Len(u) + Len(w) /\ Len(u) \in Nat /\ Len(w) \in Nat
  <2>1. b = u \o w \/ b = w \o u
        BY DEF w
  <2>2. CASE b = u \o w
        BY <1>1, <1>2, <2>2, ConcatStands
  <2>3. CASE b = w \o u
    <3>1. b \in Seq(Byte) /\ Len(b) = Len(w) + Len(u) /\ Len(u) \in Nat /\ Len(w) \in Nat
          BY <1>1, <1>2, <2>3, ConcatStands
    <3> QED BY <3>1
  <2> QED BY <2>1, <2>2, <2>3
<1>4. PICK r : IsRun(r, c, b, inner) /\ Parse(c, b, inner) = r[Len(b) + 1]
      BY <1>3, ParseIs
<1>5. Visits(r, b, Reading(SharedCtor(c), 1))
      BY <1>3, <1>4, VisitStart
<1>6. ASSUME NEW x, NEW p, StandsAt(b, p, u), Visits(r, b, Reading(x, p))
      PROVE  Visits(r, b, Reading(x, p + Len(u)))
  <2>1. p \in Nat
        BY <1>6, Zenon DEF StandsAt
  <2>2. CASE u = <<>>
    <3>1. p + Len(u) = p
          BY <2>1, <2>2
    <3> QED BY <1>6, <3>1
  <2>3. CASE u # <<>>
    <3>1. MergePartialFromCodedStream(c, b, inner, Reading(x, p)) = Reading(x, p + Len(u))
          BY <1>6, <2>3, UnknownTurn
    <3>2. IsTurn(c, b, inner, Reading(x, p), Reading(x, p + Len(u)))
          BY <3>1, Zenon DEF IsTurn
    <3> QED BY <1>4, <1>6, <3>2, TurnVisit, Zenon
  <2> QED BY <2>2, <2>3
<1>7. ASSUME NEW p, StandsAt(b, p, w), Visits(r, b, Reading(SharedCtor(c), p))
      PROVE  Visits(r, b, Reading(m, p + Len(w)))
      BY <1>4, <1>7, MessagePath, Zenon DEF w
<1>8. Visits(r, b, Reading(m, Len(b) + 1))
  <2>1. CASE b = u \o w
    <3>1. StandsAt(b, 1, u) /\ StandsAt(b, 1 + Len(u), w)
          BY <1>1, <1>2, <2>1, ConcatStands
    <3>2. Visits(r, b, Reading(SharedCtor(c), 1 + Len(u)))
          BY <1>5, <1>6, <3>1
    <3>3. Visits(r, b, Reading(m, 1 + Len(u) + Len(w)))
          BY <1>7, <3>1, <3>2
    <3>4. 1 + Len(u) + Len(w) = Len(b) + 1
          BY <1>3
    <3> QED BY <3>3, <3>4
  <2>2. CASE b = w \o u
    <3>1. StandsAt(b, 1, w) /\ StandsAt(b, 1 + Len(w), u)
          BY <1>1, <1>2, <2>2, ConcatStands
    <3>2. Visits(r, b, Reading(m, 1 + Len(w)))
          BY <1>5, <1>7, <3>1
    <3>3. Visits(r, b, Reading(m, 1 + Len(w) + Len(u)))
          BY <1>6, <3>1, <3>2
    <3>4. 1 + Len(w) + Len(u) = Len(b) + 1
          BY <1>3
    <3> QED BY <3>3, <3>4
  <2> QED BY <2>1, <2>2 DEF w
<1> DEFINE q == Len(b) + 1
<1>9. q \in Nat /\ q >= 1 /\ q > Len(b)
      BY <1>3
<1>10. Tag(b, q) = 0
      BY <1>3, <1>9, EndTag
<1>11. Visits(r, b, Reading(m, q))
      BY <1>8
<1> HIDE DEF q
<1>12. r[Len(b) + 1] = [msg |-> m, at |-> Failed, ok |-> q > Len(b)]
      BY <1>3, <1>4, <1>9, <1>10, <1>11, ParseEnds
<1>13. (q > Len(b)) = TRUE
      BY <1>9
<1> QED BY <1>4, <1>12, <1>13, Zenon DEF Whole

\* An entry is read back by the parse of its delimited bytes.
LEMMA EntryBack ==
    ASSUME NEW e \in EntryMsgs
    PROVE  ParseEntry(SerializeEntry(e)) = Whole(e)
<1> DEFINE w == Serialize(entry, e)
<1>1. entry \in Classes /\ IsMsg(entry, e)
      BY EntryClass, EntryMsg
<1>2. w \in Seq(Byte) /\ SerializeEntry(e) = w
      BY <1>1, MessageBytes, EntryBytes
<1>3. ReadsFor(entry, w, <<>>)
      BY EntryClass DEF ReadsFor
<1>4. <<>> \in Unknown
      BY DEF Unknown
<1> HIDE DEF w
<1>5. w = <<>> \o w
      BY <1>2
<1>6. w = <<>> \o Serialize(entry, e) \/ w = Serialize(entry, e) \o <<>>
      BY <1>5 DEF w
<1>7. Parse(entry, w, <<>>) = Whole(e)
      BY <1>1, <1>3, <1>4, <1>6, ParseBack, Zenon
<1> QED BY <1>2, <1>7 DEF ParseEntry

LEMMA InnerReads ==
    ASSUME NEW b \in Seq(Byte)
    PROVE  Reads(b, [q \in 1..Len(b) |-> ParseEntry(Delimitee(b, q))])
      BY EntryBack DEF Reads

\* What is parsed is what was written.
LEMMA FromArrayBack ==
    ASSUME NEW c \in Classes, NEW m, IsMsg(c, m), NEW u \in Unknown
    PROVE  /\ ParseFromArray(c, u \o Serialize(c, m)).msg = m
           /\ ParseFromArray(c, Serialize(c, m) \o u).msg = m
<1>1. ASSUME NEW b, b = u \o Serialize(c, m) \/ b = Serialize(c, m) \o u
      PROVE  ParseFromArray(c, b).msg = m
  <2> DEFINE inner == [q \in 1..Len(b) |-> ParseEntry(Delimitee(b, q))]
             w == Serialize(c, m)
  <2>1. b \in Seq(Byte)
    <3>1. w \in Seq(Byte) /\ u \in Seq(Byte)
          BY MessageBytes, UnknownBytes
    <3>2. b = u \o w \/ b = w \o u
          BY <1>1
    <3> HIDE DEF w
    <3> QED BY <3>1, <3>2, ConcatStands
  <2>2. ReadsFor(c, b, inner)
        BY <2>1, InnerReads DEF ReadsFor
  <2>3. ParseFromArray(c, b) = Parse(c, b, inner)
        BY DEF ParseFromArray
  <2> HIDE DEF inner
  <2>4. Parse(c, b, inner) = Whole(m)
        BY <1>1, <2>2, ParseBack, Zenon
  <2> QED BY <2>3, <2>4 DEF Whole
<1> QED BY <1>1

\* A copy over another entry is the entry.
LEMMA CopyBack ==
    ASSUME NEW e \in EntryMsgs, NEW old
    PROVE  CopyFrom(entry, old, e) = e
<1> DEFINE z == SharedCtor(entry)
<1>1. e = [i \in 1..6 |-> e[i]]
      BY DEF EntryMsgs
<1>2. MergeFrom(entry, z, e) =
          [i \in 1..6 |-> IF entry[i] = "entries" THEN z[i] \o e[i] ELSE IF e[i] = z[i] THEN z[i] ELSE e[i]]
  <2>1. DOMAIN entry = 1..6
        BY EntryClass
  <2> QED BY <2>1, Zenon DEF MergeFrom
<1>3. \A i \in 1..6 : entry[i] # "entries"
      BY EntryClass
<1> HIDE DEF z
<1>4. MergeFrom(entry, z, e) = e
      BY <1>1, <1>2, <1>3
<1> QED BY <1>4 DEF CopyFrom, Clear, z

-----------------------------------------------------------------------------
(* The messages of the program *)

LEMMA NumFacts ==
    /\ Num \subseteq Uint /\ Bit \subseteq Uint /\ 0..2 \subseteq Uint /\ 0 \in Uint
    /\ Host \subseteq Text /\ <<>> \in Text
<1>1. Num \subseteq Uint
      BY NumAssumption DEF Uint
<1>2. Bit \subseteq Uint /\ 0..2 \subseteq Uint /\ 0 \in Uint
      BY UintBase DEF Bit, Uint
<1>3. Host \subseteq Text
      BY HostAssumption DEF Text
<1>4. <<>> \in Text
      BY DEF Text
<1> QED BY <1>1, <1>2, <1>3, <1>4

LEMMA SixFields ==
    ASSUME NEW t \in Uint, NEW m \in Uint, NEW n \in Uint, NEW p \in Uint, NEW h \in Text, NEW w \in Uint
    PROVE  <<t, m, n, p, h, w>> \in EntryMsgs
<1> DEFINE e == <<t, m, n, p, h, w>>
           V == Uint \cup Text
<1>1. t \in V /\ m \in V /\ n \in V /\ p \in V /\ h \in V /\ w \in V
      OBVIOUS
<1> HIDE DEF V
<1>2. e \in [1..6 -> V]
      BY <1>1
<1>3. e[5] \in Text /\ e[1] \in Uint /\ e[2] \in Uint /\ e[3] \in Uint /\ e[4] \in Uint /\ e[6] \in Uint
      OBVIOUS
<1> HIDE DEF e
<1>4. ASSUME NEW i \in 1..6, i # 5 PROVE e[i] \in Uint
  <2>1. i = 1 \/ i = 2 \/ i = 3 \/ i = 4 \/ i = 6
        BY <1>4
  <2> QED BY <1>3, <2>1
<1>5. e \in EntryMsgs
      BY <1>2, <1>3, <1>4 DEF EntryMsgs, V
<1> QED BY <1>5 DEF e

LEMMA EntrySets ==
    /\ Entries \subseteq EntryMsgs /\ CfgEntries \subseteq EntryMsgs
    /\ SharedCtor(entry) \in EntryMsgs
    /\ \A e \in CfgEntries : e[1] = 1 /\ e[6] = 0
<1>1. Entries \subseteq EntryMsgs
      BY NumFacts, SixFields DEF Entries
<1>2. CfgEntries \subseteq EntryMsgs
  <2>1. 1 \in Uint
        BY UintBase DEF Uint
  <2> QED BY <2>1, NumFacts, SixFields DEF CfgEntries
<1>3. SharedCtor(entry) \in EntryMsgs
  <2>1. SharedCtor(entry) = [i \in 1..6 |-> IF i # 5 THEN 0 ELSE <<>>]
        BY EntryClass DEF SharedCtor
  <2> QED BY <2>1, NumFacts DEF EntryMsgs
<1>4. \A e \in CfgEntries : e[1] = 1 /\ e[6] = 0
      BY DEF CfgEntries
<1> QED BY <1>1, <1>2, <1>3, <1>4

LEMMA HandshakeMsgs ==
    /\ \A m \in HandshakeQs : IsMsg(handshake_q, m)
    /\ \A m \in HandshakeRs : IsMsg(handshake_r, m)
<1>1. ASSUME NEW m \in HandshakeQs PROVE IsMsg(handshake_q, m)
  <2>1. PICK p \in Num, h \in Num, n \in Num : m = <<p, h, n>>
        BY DEF HandshakeQs
  <2>2. m = [i \in 1..3 |-> m[i]] /\ m[1] \in Uint /\ m[2] \in Uint /\ m[3] \in Uint
        BY <2>1, NumFacts
  <2>3. Len(handshake_q) = 3 /\ \A i \in 1..3 : handshake_q[i] = "uint32"
        BY DEF handshake_q
  <2>4. \A i \in 1..3 : i = 1 \/ i = 2 \/ i = 3
        OBVIOUS
  <2>5. \A i \in 1..3 : m[i] \in Uint
        BY <2>2, <2>4, Zenon
  <2> QED BY <2>2, <2>3, <2>5 DEF IsMsg, IsFieldValue, IsScalar
<1>2. ASSUME NEW m \in HandshakeRs PROVE IsMsg(handshake_r, m)
  <2>1. PICK t \in Bit, h \in Host, p \in Num : m = <<t, h, p>>
        BY DEF HandshakeRs
  <2>2. m = [i \in 1..3 |-> m[i]] /\ m[1] \in {0, 1} /\ m[2] \in Text /\ m[3] \in Uint
        BY <2>1, NumFacts DEF Bit
  <2>3. Len(handshake_r) = 3 /\ handshake_r[1] = "bool" /\ handshake_r[2] = "string" /\ handshake_r[3] = "uint32"
        BY DEF handshake_r
  <2>4. \A i \in 1..3 : i = 1 \/ i = 2 \/ i = 3
        OBVIOUS
  <2>5. IsFieldValue("bool", m[1]) /\ IsFieldValue("string", m[2]) /\ IsFieldValue("uint32", m[3])
        BY <2>2 DEF IsFieldValue, IsScalar
  <2>6. \A i \in 1..3 : IsFieldValue(handshake_r[i], m[i])
        BY <2>3, <2>4, <2>5
  <2> QED BY <2>2, <2>3, <2>6 DEF IsMsg
<1> QED BY <1>1, <1>2

LEMMA AppendEntriesMsgs ==
    /\ \A m \in AppendEntriesQs : IsMsg(appendentries_q, m)
    /\ \A m \in AppendEntriesRs : IsMsg(appendentries_r, m)
<1>1. ASSUME NEW m \in AppendEntriesQs PROVE IsMsg(appendentries_q, m)
  <2> DEFINE lists == {<<>>} \cup {<<e>> : e \in CfgEntries} \cup {<<e, SharedCtor(entry)>> : e \in CfgEntries}
  <2>1. PICK t \in Num, i \in Num, es \in lists : m = <<t, i, t, i, es>>
        BY DEF AppendEntriesQs
  <2>2. es \in Seq(EntryMsgs)
    <3>1. <<>> \in Seq(EntryMsgs)
          OBVIOUS
    <3>2. ASSUME NEW e \in CfgEntries PROVE <<e>> \in Seq(EntryMsgs)
          BY EntrySets
    <3>3. ASSUME NEW e \in CfgEntries PROVE <<e, SharedCtor(entry)>> \in Seq(EntryMsgs)
          BY EntrySets
    <3>4. es \in lists
          OBVIOUS
    <3> QED BY <3>1, <3>2, <3>3, <3>4
  <2> HIDE DEF lists
  <2>3. /\ m = [k \in 1..5 |-> m[k]]
        /\ m[1] \in Uint /\ m[2] \in Uint /\ m[3] \in Uint /\ m[4] \in Uint /\ m[5] \in Seq(EntryMsgs)
        BY <2>1, <2>2, NumFacts
  <2>4. /\ Len(appendentries_q) = 5 /\ appendentries_q[5] = "entries"
        /\ appendentries_q[1] = "uint32" /\ appendentries_q[2] = "uint32"
        /\ appendentries_q[3] = "uint32" /\ appendentries_q[4] = "uint32"
        BY DEF appendentries_q
  <2>5. \A k \in 1..5 : k = 1 \/ k = 2 \/ k = 3 \/ k = 4 \/ k = 5
        OBVIOUS
  <2>6. /\ IsFieldValue("uint32", m[1]) /\ IsFieldValue("uint32", m[2]) /\ IsFieldValue("uint32", m[3])
        /\ IsFieldValue("uint32", m[4]) /\ IsFieldValue("entries", m[5])
        BY <2>3 DEF IsFieldValue, IsScalar
  <2>7. \A k \in 1..5 : IsFieldValue(appendentries_q[k], m[k])
        BY <2>4, <2>5, <2>6
  <2> QED BY <2>3, <2>4, <2>7 DEF IsMsg
<1>2. ASSUME NEW m \in AppendEntriesRs PROVE IsMsg(appendentries_r, m)
  <2>1. PICK t \in Num, s \in Bit, h \in Bit : m = <<t, s, h>>
        BY DEF AppendEntriesRs
  <2>2. m = [i \in 1..3 |-> m[i]] /\ m[1] \in Uint /\ m[2] \in {0, 1} /\ m[3] \in {0, 1}
        BY <2>1, NumFacts DEF Bit
  <2>3. /\ Len(appendentries_r) = 3 /\ appendentries_r[1] = "uint32"
        /\ appendentries_r[2] = "bool" /\ appendentries_r[3] = "bool"
        BY DEF appendentries_r
  <2>4. \A i \in 1..3 : i = 1 \/ i = 2 \/ i = 3
        OBVIOUS
  <2>5. IsFieldValue("uint32", m[1]) /\ IsFieldValue("bool", m[2]) /\ IsFieldValue("bool", m[3])
        BY <2>2 DEF IsFieldValue, IsScalar
  <2>6. \A i \in 1..3 : IsFieldValue(appendentries_r[i], m[i])
        BY <2>3, <2>4, <2>5
  <2> QED BY <2>2, <2>3, <2>6 DEF IsMsg
<1> QED BY <1>1, <1>2

LEMMA RequestVoteMsgs ==
    /\ \A m \in RequestVoteQs : IsMsg(requestvote_q, m)
    /\ \A m \in RequestVoteRs : IsMsg(requestvote_r, m)
<1>1. ASSUME NEW m \in RequestVoteQs PROVE IsMsg(requestvote_q, m)
  <2>1. PICK t \in Num, v \in Num, i \in Num, l \in Num : m = <<t, v, i, l>>
        BY DEF RequestVoteQs
  <2>2. m = [k \in 1..4 |-> m[k]] /\ m[1] \in Uint /\ m[2] \in Uint /\ m[3] \in Uint /\ m[4] \in Uint
        BY <2>1, NumFacts
  <2>3. Len(requestvote_q) = 4 /\ \A k \in 1..4 : requestvote_q[k] = "uint32"
        BY DEF requestvote_q
  <2>4. \A k \in 1..4 : k = 1 \/ k = 2 \/ k = 3 \/ k = 4
        OBVIOUS
  <2>5. \A k \in 1..4 : m[k] \in Uint
        BY <2>2, <2>4, Zenon
  <2> QED BY <2>2, <2>3, <2>5 DEF IsMsg, IsFieldValue, IsScalar
<1>2. ASSUME NEW m \in RequestVoteRs PROVE IsMsg(requestvote_r, m)
  <2>1. PICK t \in Num, v \in Bit : m = <<t, v>>
        BY DEF RequestVoteRs
  <2>2. m = [i \in 1..2 |-> m[i]] /\ m[1] \in Uint /\ m[2] \in {0, 1}
        BY <2>1, NumFacts DEF Bit
  <2>3. Len(requestvote_r) = 2 /\ requestvote_r[1] = "uint32" /\ requestvote_r[2] = "bool"
        BY DEF requestvote_r
  <2>4. \A i \in 1..2 : i = 1 \/ i = 2
        OBVIOUS
  <2>5. IsFieldValue("uint32", m[1]) /\ IsFieldValue("bool", m[2])
        BY <2>2 DEF IsFieldValue, IsScalar
  <2>6. \A i \in 1..2 : IsFieldValue(requestvote_r[i], m[i])
        BY <2>3, <2>4, <2>5
  <2> QED BY <2>2, <2>3, <2>6 DEF IsMsg
<1> QED BY <1>1, <1>2

-----------------------------------------------------------------------------
(* The store *)

\* The first zero of s is at z, behind the last byte if there is none.
IsFirstZero(s, z) ==
    /\ z \in 1..(Len(s) + 1)
    /\ z <= Len(s) => s[z] = 0
    /\ \A k \in 1..(z - 1) : s[k] # 0

LEMMA FirstZero ==
    ASSUME NEW s \in Seq(Byte)
    PROVE  \E z : IsFirstZero(s, z)
<1> DEFINE Z == {k \in 1..(Len(s) + 1) : k = Len(s) + 1 \/ s[k] = 0}
<1>1. Len(s) \in Nat
      OBVIOUS
<1>2. Z \subseteq Nat /\ Len(s) + 1 \in Z
      BY <1>1
<1>3. PICK z \in Z : \A k \in Z : z <= k
  <2>1. Z # {}
        BY <1>2
  <2> HIDE DEF Z
  <2> QED BY <1>2, <2>1, LeastNat
<1>4. z \in 1..(Len(s) + 1) /\ (z <= Len(s) => s[z] = 0)
      BY <1>1
<1>5. ASSUME NEW k \in 1..(z - 1) PROVE s[k] # 0
  <2>1. k \in 1..(Len(s) + 1) /\ ~(z <= k)
        BY <1>1, <1>4
  <2>2. k \notin Z
    <3> HIDE DEF Z
    <3> QED BY <1>3, <2>1
  <2> QED BY <2>1, <2>2
<1> QED BY <1>4, <1>5 DEF IsFirstZero

LEMMA CStringIs ==
    ASSUME NEW s \in Seq(Byte), NEW z, IsFirstZero(s, z)
    PROVE  CString(s) = SubSeq(s, 1, z - 1)
<1> DEFINE Z == {k \in DOMAIN s : s[k] = 0} \cup {Len(s) + 1}
<1>1. Len(s) \in Nat /\ DOMAIN s = 1..Len(s)
      OBVIOUS
<1>2. /\ z \in 1..(Len(s) + 1) /\ (z <= Len(s) => s[z] = 0)
      /\ \A k \in 1..(z - 1) : s[k] # 0
      BY DEF IsFirstZero
<1>3. Z \subseteq Int /\ z \in Z
      BY <1>1, <1>2
<1>4. ASSUME NEW k \in Z PROVE z <= k
  <2>1. k \in 1..(Len(s) + 1) /\ (k = Len(s) + 1 \/ s[k] = 0)
        BY <1>1
  <2>2. k \notin 1..(z - 1) \/ k = Len(s) + 1
        BY <1>2, <2>1
  <2> QED BY <1>1, <1>2, <2>1, <2>2
<1>5. CString(s) = SubSeq(s, 1, Min(Z) - 1)
      BY Zenon DEF CString
<1> HIDE DEF Z
<1>6. Min(Z) = z
      BY <1>3, <1>4, MinIs
<1> QED BY <1>5, <1>6

\* strlen passes over bytes that are not zero.
LEMMA CStringConcat ==
    ASSUME NEW S \in Seq(NonZero), NEW j \in Seq(Byte)
    PROVE  /\ CString(S \o j) = S \o CString(j)
           /\ CString(j) \in Seq(Byte)
           /\ \A k \in DOMAIN CString(j) : CString(j)[k] # 0
<1> DEFINE d == S \o j
           n == Len(S)
<1>1. S \in Seq(Byte) /\ n \in Nat /\ Len(j) \in Nat
      BY NonZeroIsByte
<1>2. /\ d \in Seq(Byte) /\ Len(d) = Len(S) + Len(j)
      /\ \A i \in 1..(Len(S) + Len(j)) : d[i] = IF i <= Len(S) THEN S[i] ELSE j[i - Len(S)]
      BY ONLY <1>1, j \in Seq(Byte), ConcatProperties
<1> HIDE DEF d
<1>3. PICK z : IsFirstZero(j, z)
      BY FirstZero
<1>4. /\ z \in 1..(Len(j) + 1) /\ (z <= Len(j) => j[z] = 0)
      /\ \A k \in 1..(z - 1) : j[k] # 0
      BY <1>3 DEF IsFirstZero
<1> DEFINE c == SubSeq(j, 1, z - 1)
<1>5. CString(j) = c
      BY <1>3, CStringIs
<1>6. c \in Seq(Byte) /\ Len(c) = z - 1 /\ \A k \in 1..(z - 1) : c[k] = j[k]
      BY <1>1, <1>4
<1> HIDE DEF c
<1> DEFINE y == n + z
<1>7. IsFirstZero(d, y)
  <2>1. y \in 1..(Len(d) + 1)
        BY <1>1, <1>2, <1>4
  <2>2. ASSUME y <= Len(d) PROVE d[y] = 0
    <3>1. y \in 1..(Len(S) + Len(j)) /\ ~(y <= Len(S)) /\ y - Len(S) = z /\ z <= Len(j)
          BY <1>1, <1>2, <1>4, <2>2
    <3> QED BY <1>2, <1>4, <3>1
  <2>3. ASSUME NEW k \in 1..(y - 1) PROVE d[k] # 0
    <3>1. k \in 1..(Len(S) + Len(j))
          BY <1>1, <1>4
    <3>2. CASE k <= Len(S)
      <4>1. k \in 1..Len(S)
            BY <1>1, <3>2
      <4>2. S[k] \in NonZero
            BY <4>1
      <4> DEFINE x == S[k]
      <4> HIDE DEF x
      <4>3. x # 0
        <5>1. x \in NonZero
              BY <4>2 DEF x
        <5> QED BY <5>1 DEF NonZero
      <4> QED BY <1>2, <3>1, <3>2, <4>3 DEF x
    <3>3. CASE ~(k <= Len(S))
      <4>1. k - Len(S) \in 1..(z - 1)
            BY <1>1, <1>4, <3>3
      <4> QED BY <1>2, <1>4, <3>1, <3>3, <4>1
    <3> QED BY <3>2, <3>3
  <2> HIDE DEF y
  <2> QED BY <2>1, <2>2, <2>3 DEF IsFirstZero
<1>8. y = n + z
      OBVIOUS
<1> HIDE DEF y
<1> DEFINE a == SubSeq(d, 1, y - 1)
           e == S \o c
<1>9. CString(d) = a
      BY <1>2, <1>7, CStringIs
<1>10. a \in Seq(Byte) /\ Len(a) = n + z - 1 /\ \A k \in 1..(n + z - 1) : a[k] = d[k]
      BY <1>1, <1>2, <1>4, <1>8
<1>11. /\ e \in Seq(Byte) /\ Len(e) = Len(S) + Len(c)
       /\ \A i \in 1..(Len(S) + Len(c)) : e[i] = IF i <= Len(S) THEN S[i] ELSE c[i - Len(S)]
      BY ONLY <1>1, <1>6, ConcatProperties
<1> HIDE DEF a, e
<1>12. Len(a) = Len(e)
      BY <1>1, <1>4, <1>6, <1>10, <1>11
<1>13. ASSUME NEW k \in 1..Len(a) PROVE a[k] = e[k]
  <2>1. k \in 1..(n + z - 1) /\ k \in 1..(Len(S) + Len(j)) /\ k \in 1..(Len(S) + Len(c))
        BY <1>1, <1>4, <1>6, <1>10
  <2>2. a[k] = d[k]
        BY <1>10, <2>1
  <2>3. CASE k <= Len(S)
        BY <1>2, <1>11, <2>1, <2>2, <2>3
  <2>4. CASE ~(k <= Len(S))
    <3>1. k - Len(S) \in 1..(z - 1)
          BY <1>1, <1>4, <2>1, <2>4
    <3> QED BY <1>2, <1>6, <1>11, <2>1, <2>2, <2>4, <3>1
  <2> QED BY <2>3, <2>4
<1>14. a = e
      BY <1>10, <1>11, <1>12, <1>13
<1>15. \A k \in DOMAIN c : c[k] # 0
  <2>1. DOMAIN c = 1..(z - 1)
        BY <1>6
  <2> QED BY <1>4, <1>6, <2>1
<1> QED BY <1>5, <1>6, <1>9, <1>14, <1>15 DEF d, e

LEMMA TagOfKnown ==
    ASSUME NEW t \in Nat, IsKnown(entry, t)
    PROVE  FieldNumber(t) \in 1..6 /\ t = TagOf(entry, FieldNumber(t)) /\ t % 128 = t
<1> DEFINE i == FieldNumber(t)
<1>1. t \in 0..127 /\ i \in 1..6 /\ WireType(t) = IF IsScalar(entry[i]) THEN 0 ELSE 2
      BY EntryClass DEF IsKnown
<1>2. t = 8 * i + WireType(t)
      BY <1>1 DEF FieldNumber, WireType
<1>3. t % 128 = t
      BY <1>1, SmallMod
<1> HIDE DEF i
<1>4. t = TagOf(entry, i)
      BY <1>1, <1>2 DEF TagOf
<1> QED BY <1>1, <1>3, <1>4 DEF i

LEMMA RunStep ==
    ASSUME NEW c, NEW b \in Seq(Byte), NEW inner, NEW r, IsRun(r, c, b, inner), NEW k \in 1..(Len(b) + 1)
    PROVE  IsTurn(c, b, inner, r[k - 1], r[k])
<1>1. /\ r[0] = Reading(SharedCtor(c), 1)
      /\ \A j \in 1..(Len(b) + 1) : r[j] = MergePartialFromCodedStream(c, b, inner, r[j - 1])
      BY RunSteps, ZenonT(60)
<1> QED BY <1>1 DEF IsTurn

\* A turn from st to nx changes only the field whose tag it reads.
ChangesNamed(b, st, nx) ==
    /\ nx.msg = [i \in 1..6 |-> nx.msg[i]]
    /\ \A i \in 1..6 : nx.msg[i] # st.msg[i] =>
           st.at \in 1..Len(b) /\ b[st.at] % 128 = TagOf(entry, i) /\ TagOf(entry, i) # 0

LEMMA TurnChanges ==
    ASSUME NEW b \in Seq(Byte), NEW inner, NEW st, st.at \in Nat, st.at >= 1,
           st.msg = [i \in 1..6 |-> st.msg[i]], NEW nx, IsTurn(entry, b, inner, st, nx)
    PROVE  ChangesNamed(b, st, nx)
<1> DEFINE p == st.at
           t == Tag(b, p)
           n == FieldNumber(t)
           v == FieldValue(entry, b, inner, n, VarintEnd(b, p), st.msg[n])
           x == st.msg
<1>1. p \in Nat /\ p >= 1 /\ p # Failed /\ x = [i \in 1..6 |-> x[i]]
      BY DEF Failed
<1>2. nx.msg = x \/ (t # 0 /\ IsKnown(entry, t) /\ nx.msg = [x EXCEPT ![n] = v])
  <2>1. nx = MergePartialFromCodedStream(entry, b, inner, st)
        BY DEF IsTurn
  <2> QED BY <1>1, <2>1 DEF MergePartialFromCodedStream
<1>3. CASE nx.msg = x
      BY <1>1, <1>3 DEF ChangesNamed
<1>4. CASE t # 0 /\ IsKnown(entry, t) /\ nx.msg = [x EXCEPT ![n] = v]
  <2>1. t \in Nat /\ p \in 1..Len(b) /\ t % 128 = b[p] % 128
        BY <1>1, <1>4, TagFacts
  <2> HIDE DEF t, p
  <2>2. n \in 1..6 /\ t = TagOf(entry, n) /\ t % 128 = t
        BY <1>4, <2>1, TagOfKnown
  <2> HIDE DEF n, v, x
  <2>3. nx.msg = [i \in 1..6 |-> nx.msg[i]] /\ \A i \in 1..6 : i # n => nx.msg[i] = x[i]
        BY <1>1, <1>4, <2>2
  <2>4. b[p] % 128 = TagOf(entry, n) /\ TagOf(entry, n) # 0
        BY <1>4, <2>1, <2>2, Zenon
  <2> QED BY <2>1, <2>3, <2>4 DEF p, x, ChangesNamed
<1> QED BY <1>2, <1>3, <1>4

\* What LoadEntries parses: the entry, then the junk, then zeros.
IsLoaded(b, S, J, L) ==
    /\ b \in Seq(Byte) /\ Len(b) = L /\ Len(S) \in Nat /\ StandsAt(b, 1, S)
    /\ \A k \in 1..L : k > Len(S) => \/ b[k] = 0
                                     \/ k - Len(S) \in DOMAIN J /\ b[k] = J[k - Len(S)]
    /\ (J = <<>> \/ Head(J) = 0) /\ Len(S) < L => b[Len(S) + 1] = 0

LEMMA LoadStands ==
    ASSUME NEW S \in Seq(Byte), NEW J \in Seq(Byte), NEW L \in Nat, Len(S) <= L
    PROVE  IsLoaded(BytesAt(S \o J, L), S, J, L)
<1> DEFINE d == S \o J
           n == Len(S)
           b == BytesAt(d, L)
<1>1. /\ d \in Seq(Byte) /\ Len(d) = Len(S) + Len(J)
      /\ \A i \in 1..(Len(S) + Len(J)) : d[i] = IF i <= Len(S) THEN S[i] ELSE J[i - Len(S)]
      BY ONLY S \in Seq(Byte), J \in Seq(Byte), ConcatProperties
<1>2. n \in Nat /\ Len(J) \in Nat /\ DOMAIN J = 1..Len(J) /\ \A k \in 1..n : S[k] \in Byte
      OBVIOUS
<1> HIDE DEF d
<1>3. DOMAIN d = 1..Len(d) /\ \A k \in 1..Len(d) : d[k] \in Byte
      BY <1>1
<1>4. b = [k \in 1..L |-> b[k]] /\ \A k \in 1..L : b[k] = IF k \in 1..Len(d) THEN d[k] ELSE 0
      BY <1>3 DEF BytesAt
<1> HIDE DEF b
<1>5. b \in Seq(Byte) /\ Len(b) = L
  <2>0. 0 \in Byte
        BY DEF Byte
  <2>1. \A k \in 1..L : b[k] \in Byte
        BY <1>3, <1>4, <2>0
  <2> QED BY <1>4, <2>1, FunctionIsSeq
<1>6. ASSUME NEW k \in 1..n PROVE b[k] = S[k]
  <2>1. k \in 1..L /\ k \in 1..Len(d) /\ k \in 1..(Len(S) + Len(J)) /\ k <= Len(S)
        BY <1>1, <1>2
  <2> QED BY <1>1, <1>4, <2>1
<1>7. StandsAt(b, 1, S)
  <2>1. 1 + n - 1 <= Len(b)
        BY <1>2, <1>5
  <2>2. ASSUME NEW k \in 1..n PROVE b[1 + k - 1] = S[k]
    <3>1. 1 + k - 1 = k
          BY <1>2
    <3> QED BY <1>6, <3>1
  <2> QED BY <1>5, <2>1, <2>2 DEF StandsAt
<1>8. ASSUME NEW k \in 1..L, k > n
      PROVE  b[k] = 0 \/ (k - n \in DOMAIN J /\ b[k] = J[k - n])
  <2>1. CASE k \in 1..Len(d)
    <3>1. k \in 1..(Len(S) + Len(J)) /\ ~(k <= Len(S)) /\ k - n \in 1..Len(J)
          BY <1>1, <1>2, <1>8, <2>1
    <3> QED BY <1>1, <1>2, <1>4, <2>1, <3>1
  <2>2. CASE k \notin 1..Len(d)
        BY <1>4, <2>2
  <2> QED BY <2>1, <2>2
<1>9. ASSUME J = <<>> \/ Head(J) = 0, n < L PROVE b[n + 1] = 0
  <2> DEFINE k == n + 1
  <2>1. k \in 1..L /\ k > n /\ k - n = 1
        BY <1>2, <1>9
  <2>2. 1 \in DOMAIN J => J[1] = 0
        BY <1>2, <1>9
  <2> HIDE DEF k
  <2>3. b[k] = 0
        BY <1>8, <2>1, <2>2
  <2> QED BY <2>3 DEF k
<1>10. IsLoaded(b, S, J, L)
      BY <1>2, <1>5, <1>7, <1>8, <1>9 DEF IsLoaded
<1> QED BY <1>10 DEF b, d

\* The fields of an entry that junk behind it can change.
OnlyNamed(e, J, g) ==
    /\ J = <<>> \/ Head(J) = 0 => g = e
    /\ \A i \in 1..6 : g[i] # e[i] => \E k \in DOMAIN J : J[k] % 128 = TagOf(entry, i)

LEMMA LoadBack ==
    ASSUME NEW e \in EntryMsgs, NEW J \in Seq(Byte), NEW L \in Nat, Len(Serialize(entry, e)) <= L,
           NEW g, g = ParseFromArray(entry, BytesAt(Serialize(entry, e) \o J, L)).msg
    PROVE  OnlyNamed(e, J, g)
<1> DEFINE S == Serialize(entry, e)
           n == Len(S)
           b == BytesAt(S \o J, L)
           inner == [q \in 1..Len(b) |-> ParseEntry(Delimitee(b, q))]
           K == Len(b) + 1
<1>1. entry \in Classes /\ IsMsg(entry, e) /\ S \in Seq(Byte) /\ e = [i \in 1..6 |-> e[i]]
  <2>1. entry \in Classes /\ IsMsg(entry, e)
        BY EntryClass, EntryMsg
  <2>2. e = [i \in 1..6 |-> e[i]]
        BY DEF EntryMsgs
  <2> QED BY <2>1, <2>2, MessageBytes
<1> HIDE DEF S
<1>2. /\ b \in Seq(Byte) /\ Len(b) = L /\ n \in Nat /\ StandsAt(b, 1, S)
      /\ \A k \in 1..L : k > n => \/ b[k] = 0
                                  \/ k - n \in DOMAIN J /\ b[k] = J[k - n]
      /\ (J = <<>> \/ Head(J) = 0) /\ n < L => b[n + 1] = 0
  <2>1. Len(S) <= L
        BY DEF S
  <2>2. IsLoaded(b, S, J, L)
        BY <1>1, <2>1, LoadStands, Zenon
  <2> HIDE DEF b
  <2> QED BY <2>2, Zenon DEF IsLoaded
<1>3. g = Parse(entry, b, inner).msg
      BY DEF ParseFromArray, S
<1> HIDE DEF b, inner
<1>4. PICK r : IsRun(r, entry, b, inner) /\ Parse(entry, b, inner) = r[K]
      BY <1>2, ParseIs
<1>5. Visits(r, b, Reading(e, 1 + n))
  <2>1. Visits(r, b, Reading(SharedCtor(entry), 1))
        BY <1>2, <1>4, VisitStart
  <2>2. ReadsFor(entry, b, inner)
        BY EntryClass DEF ReadsFor
  <2> QED BY <1>1, <1>2, <1>4, <2>1, <2>2, MessagePath, Zenon DEF S
<1>6. ASSUME J = <<>> \/ Head(J) = 0 PROVE g = e
  <2> DEFINE p == 1 + n
  <2>1. p \in Nat /\ p >= 1
        BY <1>2
  <2>2. Tag(b, p) = 0
    <3>1. CASE n < L
      <4>1. p \in 1..Len(b) /\ n + 1 = p /\ 0 \in 0..127
            BY <1>2, <3>1
      <4>2. b[p] = 0
            BY <1>2, <1>6, <3>1, <4>1
      <4> HIDE DEF p
      <4> QED BY <1>2, <4>1, <4>2, ReadByte
    <3>2. CASE ~(n < L)
      <4>1. p > Len(b)
            BY <1>2, <3>2
      <4> HIDE DEF p
      <4> QED BY <1>2, <2>1, <4>1, EndTag
    <3> QED BY <3>1, <3>2
  <2>3. Visits(r, b, Reading(e, p))
        BY <1>5
  <2> HIDE DEF p
  <2>4. r[Len(b) + 1] = [msg |-> e, at |-> Failed, ok |-> p > Len(b)]
        BY <1>2, <1>4, <2>1, <2>2, <2>3, ParseEnds
  <2> QED BY <1>3, <1>4, <2>4
<1> DEFINE Named(i) == \E k \in DOMAIN J : J[k] % 128 = TagOf(entry, i)
           Good(st) == /\ st.at = Failed \/ (st.at \in Nat /\ st.at > n)
                       /\ st.msg = [i \in 1..6 |-> st.msg[i]]
                       /\ \A i \in 1..6 : st.msg[i] # e[i] => Named(i)
<1>7. ASSUME NEW st, Good(st), NEW nx, IsTurn(entry, b, inner, st, nx)
      PROVE  Good(nx)
  <2>1. CASE st.at = Failed
    <3>1. nx = st
          BY <1>7, <2>1 DEF IsTurn, MergePartialFromCodedStream
    <3> HIDE DEF Good
    <3> QED BY <1>7, <3>1
  <2>2. CASE st.at # Failed
    <3> HIDE DEF Named
    <3> DEFINE p == st.at
               q == nx.at
    <3>1. p \in Nat /\ p >= 1 /\ p > n
          BY <1>2, <1>7, <2>2
    <3>2. Behind(b, p + 1, q)
          BY <1>2, <1>7, <3>1, TurnFacts DEF IsTurn
    <3>3. q = Failed \/ (q \in Nat /\ q > n)
      <4> HIDE DEF p, q
      <4> QED BY <1>2, <3>1, <3>2 DEF Behind
    <3>4. ChangesNamed(b, st, nx)
      <4>1. st.msg = [i \in 1..6 |-> st.msg[i]] /\ st.at \in Nat /\ st.at >= 1
            BY <1>7, <3>1
      <4>2. b \in Seq(Byte) /\ IsTurn(entry, b, inner, st, nx)
            BY <1>2, <1>7
      <4> QED BY <4>1, <4>2, TurnChanges, Zenon
    <3>5. ASSUME NEW i \in 1..6, nx.msg[i] # e[i] PROVE Named(i)
      <4>1. CASE nx.msg[i] = st.msg[i]
            BY <1>7, <3>5, <4>1
      <4>2. CASE nx.msg[i] # st.msg[i]
        <5> DEFINE t == TagOf(entry, i)
        <5>1. p \in 1..Len(b) /\ b[p] % 128 = t /\ t # 0
              BY <3>4, <4>2 DEF ChangesNamed
        <5> HIDE DEF t, p
        <5>2. b[p] # 0
          <6>1. 0 % 128 = 0
                OBVIOUS
          <6> QED BY <5>1, <6>1
        <5>3. p - n \in DOMAIN J /\ b[p] = J[p - n]
              BY <1>2, <3>1, <5>1, <5>2
        <5> QED BY <5>1, <5>3 DEF Named, t
      <4> QED BY <4>1, <4>2
    <3> QED BY <3>3, <3>4, <3>5 DEF ChangesNamed
  <2> QED BY <2>1, <2>2
<1>8. Good(Reading(e, 1 + n))
      BY <1>1, <1>2 DEF Reading
<1> HIDE DEF Good
<1>9. K \in Nat
      BY <1>2
<1>10. PICK h \in 0..K : r[h] = Reading(e, 1 + n)
      BY <1>5 DEF Visits
<1> DEFINE Bad == {k \in h..K : ~Good(r[k])}
<1>11. ASSUME Bad # {} PROVE FALSE
  <2>1. PICK k \in Bad : \A j \in Bad : k <= j
    <3>1. Bad \subseteq Nat
          BY <1>9
    <3> HIDE DEF Bad
    <3> QED BY <1>11, <3>1, LeastNat
  <2>2. k \in h..K /\ ~Good(r[k]) /\ k # h
        BY <1>8, <1>10
  <2> DEFINE j == k - 1
  <2>3. j \in h..K /\ ~(k <= j) /\ k \in 1..K
        BY <1>9, <2>2
  <2>4. j \notin Bad
    <3> HIDE DEF Bad, j
    <3> QED BY <2>1, <2>3
  <2>5. IsTurn(entry, b, inner, r[j], r[k])
    <3>1. b \in Seq(Byte) /\ IsRun(r, entry, b, inner) /\ k \in 1..(Len(b) + 1)
          BY <1>2, <1>4, <2>3
    <3> QED BY <3>1, RunStep, Zenon
  <2> HIDE DEF j
  <2>6. Good(r[j])
        BY <2>3, <2>4
  <2> QED BY <1>7, <2>2, <2>5, <2>6
<1>12. Good(r[K])
  <2>1. K \in h..K
        BY <1>9
  <2> QED BY <1>11, <2>1
<1>13. \A i \in 1..6 : g[i] # e[i] => Named(i)
      BY <1>3, <1>4, <1>12 DEF Good
<1> QED BY <1>6, <1>13 DEF OnlyNamed

LEMMA MsgIsEntry ==
    ASSUME NEW m, IsMsg(entry, m)
    PROVE  m \in EntryMsgs
<1>1. m = [i \in 1..6 |-> m[i]] /\ \A i \in 1..6 : IsFieldValue(entry[i], m[i])
      BY EntryClass DEF IsMsg
<1>2. \A i \in 1..6 : i # 5 => m[i] \in Uint
      BY <1>1, EntryClass DEF IsFieldValue
<1>3. m[5] \in Text
  <2>1. entry[5] = "string" /\ ~IsScalar(entry[5])
        BY EntryClass
  <2> QED BY <1>1, <2>1 DEF IsFieldValue
<1>4. ASSUME NEW i \in 1..6 PROVE m[i] \in Uint \cup Text
      BY <1>2, <1>3
<1> QED BY <1>1, <1>2, <1>3, <1>4 DEF EntryMsgs

LEMMA JunkBytes ==
    ASSUME NEW j \in Junk
    PROVE  j \in Seq(Byte)
<1>1. PICK n \in 0..MaxJunk : j \in [1..n -> JunkByte]
      BY DEF Junk
<1>2. n \in Nat /\ j = [i \in 1..n |-> j[i]]
      BY <1>1, JunkAssumption
<1>3. JunkByte \subseteq Byte
      BY JunkAssumption DEF Byte
<1>4. \A i \in 1..n : j[i] \in Byte
      BY <1>1, <1>3
<1> QED BY <1>2, <1>4, FunctionIsSeq

\* The entries the program stores fit into what LoadEntries parses.
LEMMA CfgEntryBytes ==
    ASSUME NEW e \in CfgEntries
    PROVE  /\ e \in EntryMsgs /\ IsMsg(entry, e) /\ Serialize(entry, e) \in Seq(NonZero)
           /\ Len(Serialize(entry, e)) <= LoadLen
<1>1. e \in EntryMsgs /\ e[1] = 1 /\ e[6] = 0
      BY EntrySets
<1>2. IsMsg(entry, e)
      BY <1>1, EntryMsg
<1> DEFINE w == Serialize(entry, e)
<1>3. w \in Seq(NonZero) /\ Len(w) \in 0..47 /\ Len(w) <= 37
  <2>1. /\ SerializeEntry(e) \in Seq(NonZero) /\ Len(SerializeEntry(e)) = EntrySize(e)
        /\ EntrySize(e) \in 0..47 /\ (e[1] < 128 /\ e[6] = 0 => EntrySize(e) <= 37)
        /\ SerializeEntry(e) = w
        BY <1>1, EntryBytes
  <2>2. e[1] < 128 /\ e[6] = 0
        BY <1>1
  <2> HIDE DEF w
  <2> QED BY <2>1, <2>2
<1> HIDE DEF w
<1>4. Len(w) <= LoadLen
      BY <1>3, LoadAssumption
<1> QED BY <1>1, <1>2, <1>3, <1>4 DEF w

LEMMA ConcatAssoc ==
    ASSUME NEW u \in Seq(Byte), NEW v \in Seq(Byte), NEW w \in Seq(Byte)
    PROVE  (u \o v) \o w = u \o (v \o w) /\ v \o w \in Seq(Byte)
      OBVIOUS

-----------------------------------------------------------------------------
(* The invariant: at every stage the message is one of its class, the frame *)
(* and the value in the store are its encoding, the latter with junk, and   *)
(* what was read is what the properties say.                                *)

CodecInv ==
    /\ stage \in {"idle", "composed", "framed", "received", "copied", "stored", "loaded"}
    /\ stage # "idle" => class \in Classes /\ IsMsg(class, msg)
    /\ stage = "framed" => size = ByteSizeLong(class, msg) /\ bytes = Serialize(class, msg)
    /\ stage = "stored" => /\ msg \in CfgEntries /\ junk \in Seq(Byte)
                           /\ bytes = Serialize(entry, msg) \o junk
    /\ ReceivedIsSent
    /\ ChangedOnlyByJunk

LEMMA ComposeStep ==
    ASSUME NEW c \in Classes, NEW msgs, \A m \in msgs : IsMsg(c, m), Compose(c, msgs)
    PROVE  CodecInv'
      BY DEF Compose, CodecInv, ReceivedIsSent, ChangedOnlyByJunk

LEMMA FrameSteps ==
    ASSUME CodecInv, HandlePreSendMsg \/ HandleArrivedMsg \/ EntryByIndex
    PROVE  CodecInv'
<1>1. CASE HandlePreSendMsg
      BY <1>1 DEF HandlePreSendMsg, CodecInv, ReceivedIsSent, ChangedOnlyByJunk
<1>2. CASE HandleArrivedMsg
  <2>1. class \in Classes /\ IsMsg(class, msg) /\ bytes = Serialize(class, msg)
        BY <1>2 DEF HandleArrivedMsg, CodecInv
  <2>2. got' = msg
        BY <1>2, <2>1, FromArrayBack DEF HandleArrivedMsg
  <2>3. stage' = "received" /\ UNCHANGED <<class, msg>>
        BY <1>2 DEF HandleArrivedMsg
  <2> QED BY <2>1, <2>2, <2>3 DEF CodecInv, ReceivedIsSent, ChangedOnlyByJunk
<1>3. CASE EntryByIndex
  <2>1. class = entry /\ class \in Classes /\ IsMsg(class, msg)
        BY <1>3 DEF EntryByIndex, CodecInv
  <2>2. msg \in EntryMsgs
        BY <2>1, MsgIsEntry
  <2>3. got' = msg
        BY <1>3, <2>2, CopyBack DEF EntryByIndex
  <2>4. stage' = "copied" /\ UNCHANGED <<class, msg>>
        BY <1>3 DEF EntryByIndex
  <2> QED BY <2>1, <2>3, <2>4 DEF CodecInv, ReceivedIsSent, ChangedOnlyByJunk
<1> QED BY <1>1, <1>2, <1>3

LEMMA StoreSteps ==
    ASSUME CodecInv, AppendCfgLog \/ LoadEntries
    PROVE  CodecInv'
<1>1. CASE AppendCfgLog
  <2>1. msg \in CfgEntries /\ class \in Classes /\ IsMsg(class, msg)
        BY <1>1 DEF AppendCfgLog, CodecInv
  <2>2. PICK j \in Junk : bytes' = CString(Serialize(entry, msg) \o j) /\ junk' = CString(j)
        BY <1>1 DEF AppendCfgLog
  <2>3. bytes' = Serialize(entry, msg) \o junk' /\ junk' \in Seq(Byte)
        BY <2>1, <2>2, JunkBytes, CfgEntryBytes, CStringConcat
  <2>4. stage' = "stored" /\ UNCHANGED <<class, msg>>
        BY <1>1 DEF AppendCfgLog
  <2> QED BY <2>1, <2>3, <2>4 DEF CodecInv, ReceivedIsSent, ChangedOnlyByJunk
<1>2. CASE LoadEntries
  <2> DEFINE S == Serialize(entry, msg)
  <2>1. /\ msg \in CfgEntries /\ junk \in Seq(Byte) /\ bytes = S \o junk
        /\ class \in Classes /\ IsMsg(class, msg)
        BY <1>2 DEF LoadEntries, CodecInv
  <2>2. PICK j \in Junk : /\ got' = ParseFromArray(entry, BytesAt(bytes \o j, LoadLen)).msg
                          /\ junk' = junk \o j
        BY <1>2 DEF LoadEntries
  <2>3. msg \in EntryMsgs /\ S \in Seq(Byte) /\ Len(S) <= LoadLen /\ LoadLen \in Nat
        BY <2>1, CfgEntryBytes, NonZeroIsByte, LoadAssumption
  <2>4. bytes \o j = S \o junk' /\ junk' \in Seq(Byte)
    <3>1. j \in Seq(Byte)
          BY JunkBytes
    <3> HIDE DEF S
    <3> QED BY <2>1, <2>2, <2>3, <3>1, ConcatAssoc
  <2>5. got' = ParseFromArray(entry, BytesAt(S \o junk', LoadLen)).msg
        BY <2>2, <2>4
  <2>6. OnlyNamed(msg, junk', got')
        BY <2>3, <2>4, <2>5, LoadBack, Zenon
  <2>7. stage' = "loaded" /\ UNCHANGED <<class, msg>>
        BY <1>2 DEF LoadEntries
  <2>8. ChangedOnlyByJunk'
        BY <2>6, <2>7, EntryClass DEF ChangedOnlyByJunk, OnlyNamed, TagOf
  <2> QED BY <2>1, <2>7, <2>8 DEF CodecInv, ReceivedIsSent
<1> QED BY <1>1, <1>2

LEMMA CodecInvHolds == Spec => []CodecInv
<1>1. Init => CodecInv
      BY DEF Init, Idle, CodecInv, ReceivedIsSent, ChangedOnlyByJunk
<1>2. CodecInv /\ [Next]_vars => CodecInv'
  <2> SUFFICES ASSUME CodecInv, [Next]_vars
               PROVE  CodecInv'
      OBVIOUS
  <2>0. /\ handshake_q \in Classes /\ handshake_r \in Classes /\ entry \in Classes
        /\ appendentries_q \in Classes /\ appendentries_r \in Classes
        /\ requestvote_q \in Classes /\ requestvote_r \in Classes
        BY DEF Classes
  <2>1. CASE Compose(handshake_q, HandshakeQs)
        BY <2>0, <2>1, HandshakeMsgs, ComposeStep
  <2>2. CASE Compose(handshake_r, HandshakeRs)
        BY <2>0, <2>2, HandshakeMsgs, ComposeStep
  <2>3. CASE Compose(entry, Entries)
    <3>1. \A m \in Entries : IsMsg(entry, m)
          BY EntrySets, EntryMsg
    <3> QED BY <2>0, <2>3, <3>1, ComposeStep
  <2>4. CASE Compose(appendentries_q, AppendEntriesQs)
        BY <2>0, <2>4, AppendEntriesMsgs, ComposeStep
  <2>5. CASE Compose(appendentries_r, AppendEntriesRs)
        BY <2>0, <2>5, AppendEntriesMsgs, ComposeStep
  <2>6. CASE Compose(requestvote_q, RequestVoteQs)
        BY <2>0, <2>6, RequestVoteMsgs, ComposeStep
  <2>7. CASE Compose(requestvote_r, RequestVoteRs)
        BY <2>0, <2>7, RequestVoteMsgs, ComposeStep
  <2>8. CASE HandlePreSendMsg \/ HandleArrivedMsg \/ EntryByIndex
        BY <2>8, FrameSteps
  <2>9. CASE AppendCfgLog \/ LoadEntries
        BY <2>9, StoreSteps
  <2>10. CASE Done
        BY <2>10 DEF Done, CodecInv, ReceivedIsSent, ChangedOnlyByJunk
  <2>11. CASE UNCHANGED vars
        BY <2>11 DEF vars, CodecInv, ReceivedIsSent, ChangedOnlyByJunk
  <2> QED BY <2>1, <2>2, <2>3, <2>4, <2>5, <2>6, <2>7, <2>8, <2>9, <2>10, <2>11 DEF Next
<1> QED BY <1>1, <1>2, PTL DEF Spec

-----------------------------------------------------------------------------
(* The theorems *)

\* What Mod parses at the other end, unknown fields before or behind it
\* included, and what EntryByIndex copies over an older entry, is the message:
\* for every message the setters can make, whatever the numbers and the texts.
THEOREM MessagesSurvive == Spec => []ReceivedIsSent
<1>1. CodecInv => ReceivedIsSent
      BY DEF CodecInv
<1> QED BY <1>1, CodecInvHolds, PTL

\* The length HandlePreSendMsg puts into the header, ByteSizeLong, is the
\* number of bytes SerializeToArray writes.
THEOREM SizesAreExact == Spec => []SizeIsExact
<1>1. CodecInv => SizeIsExact
  <2> SUFFICES ASSUME CodecInv, stage = "framed"
               PROVE  size = Len(bytes)
      BY DEF SizeIsExact
  <2>1. class \in Classes /\ IsMsg(class, msg) /\ size = ByteSizeLong(class, msg) /\ bytes = Serialize(class, msg)
        BY DEF CodecInv
  <2> QED BY <2>1, MessageBytes
<1> QED BY <1>1, CodecInvHolds, PTL

\* No entry is cut short by the C string AppendCfgLog makes of its buffer.
THEOREM StoredEntriesAreWhole == Spec => []StoredWhole
<1>1. CodecInv => StoredWhole
  <2> SUFFICES ASSUME CodecInv, stage = "stored"
               PROVE  IsPrefix(Serialize(entry, msg), bytes)
      BY DEF StoredWhole
  <2> DEFINE S == Serialize(entry, msg)
  <2>1. msg \in CfgEntries /\ junk \in Seq(Byte) /\ bytes = S \o junk
        BY DEF CodecInv
  <2>2. S \in Seq(Byte)
        BY <2>1, CfgEntryBytes, NonZeroIsByte
  <2> HIDE DEF S
  <2>3. IsPrefix(S, S \o junk)
        BY <2>1, <2>2 DEF IsPrefix
  <2> QED BY <2>1, <2>3 DEF S
<1> QED BY <1>1, CodecInvHolds, PTL

\* LoadEntries, which parses past the end of the value, returns the entry that
\* was stored if a zero follows it, and otherwise changes at most the fields
\* whose tag a byte of the junk has.
THEOREM JunkChangesOnlyWhatItNames == Spec => []ChangedOnlyByJunk
<1>1. CodecInv => ChangedOnlyByJunk
      BY DEF CodecInv
<1> QED BY <1>1, CodecInvHolds, PTL

===============================================================================
