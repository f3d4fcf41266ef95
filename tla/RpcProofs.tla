----------------------------- MODULE RpcProofs -----------------------------
(***************************************************************************)
(* Proofs about Rpc, and about the encoding (Wire) that it rests on: a     *)
(* number and a message are read as they were written, messages are cut    *)
(* out of a stream as they were put into it, and so every answer matches   *)
(* its request, in order, and only zero bytes are refused.                 *)
(*                                                                         *)
(* What a recursive function computes is proved by induction on sets of    *)
(* numbers (NatInd), and that there is one by Recursion.                   *)
(***************************************************************************)
EXTENDS Rpc, FiniteSetTheorems, SequenceTheorems, TLAPS

-----------------------------------------------------------------------------
(* Induction and recursion *)

\* Induction: a set of numbers that has 0 and with each number the next is Nat.
\* (Were m not in S, adding 1 would map what is below m in S into itself but 0:
\* a finite set, into a smaller one.)
LEMMA NatInd ==
  ASSUME NEW S \in SUBSET Nat, 0 \in S, \A n \in S : n + 1 \in S
  PROVE  S = Nat
<1>1. SUFFICES ASSUME NEW m \in Nat, m \notin S PROVE FALSE
  OBVIOUS
<1> DEFINE A == {n \in S : n < m}
           f == [n \in A |-> n + 1]
<1>2. A \subseteq Nat
  OBVIOUS
<1>3. IsFiniteSet(A)
  <2>1. \A n \in A : n <= m
    OBVIOUS
  <2> QED BY <1>2, <2>1, FS_BoundedSetOfNaturals
<1>4. 0 \in A
  BY <1>1
<1>5. \A n \in A : n + 1 \in A
  <2>1. SUFFICES ASSUME NEW n \in A PROVE n + 1 \in A
    OBVIOUS
  <2>2. n + 1 \in S
    OBVIOUS
  <2>3. n + 1 # m
    BY <1>1, <2>2
  <2> QED BY <2>2, <2>3
<1>6. f \in [A -> A \ {0}]
  BY <1>2, <1>5
<1>7. /\ IsFiniteSet(A \ {0})
      /\ Cardinality(A \ {0}) = Cardinality(A) - 1
      /\ Cardinality(A) \in Nat
  BY <1>3, <1>4, FS_RemoveElement, FS_CardinalityType
<1>8. \E x, y \in A : x # y /\ f[x] = f[y]
  <2> HIDE DEF A, f
  <2> QED BY <1>3, <1>6, <1>7, FS_PigeonHole
<1>9. PICK x \in A, y \in A : x # y /\ f[x] = f[y]
  BY <1>8
<1> QED BY <1>9, <1>2

\* The value at x is given by the one at h[x], and h[x] has a lower rank, or its
\* value does not count.
WellFounded(X, S, rank, h, G) ==
  /\ S # {} /\ rank \in [X -> Nat] /\ h \in [X -> X] /\ G \in [X \X S -> S]
  /\ \A x \in X : \/ rank[h[x]] < rank[x]
                  \/ \A u, v \in S : G[<<x, u>>] = G[<<x, v>>]

\* Then there is a function of these values.
LEMMA Recursion ==
  ASSUME NEW X, NEW S, NEW rank, NEW h, NEW G, WellFounded(X, S, rank, h, G)
  PROVE  \E f \in [X -> S] : \A x \in X : f[x] = G[<<x, f[h[x]]>>]
<1> USE DEF WellFounded
<1> DEFINE Low(n) == {x \in X : rank[x] <= n}
           Step(g, x) == G[<<x, g[h[x]]>>]
           Fits(g, n) == g \in [X -> S] /\ \A x \in Low(n) : g[x] = Step(g, x)
           Agree == {n \in Nat : \A g1, g2 \in [X -> S] :
                        Fits(g1, n) /\ Fits(g2, n)
                          => \A x \in Low(n) : g1[x] = g2[x]}
           Reached == {n \in Nat : \E g \in [X -> S] : Fits(g, n)}
           Base == {x \in X : \A u, v \in S : G[<<x, u>>] = G[<<x, v>>]}
<1>1. \A n \in Nat : \A x \in Low(n + 1) : x \in Base \/ h[x] \in Low(n)
  OBVIOUS
<1>2. Low(0) \subseteq Base
  OBVIOUS
<1>3. \A g1, g2 \in [X -> S] : \A x \in Base : Step(g1, x) = Step(g2, x)
  OBVIOUS
<1> HIDE DEF Base
<1>4. Agree = Nat
  <2>1. 0 \in Agree
    <3> SUFFICES ASSUME NEW g1 \in [X -> S], NEW g2 \in [X -> S],
                        Fits(g1, 0), Fits(g2, 0), NEW x \in Low(0)
                 PROVE  g1[x] = g2[x]
      OBVIOUS
    <3>1. g1[x] = Step(g1, x) /\ g2[x] = Step(g2, x)
      OBVIOUS
    <3> QED BY <1>2, <1>3, <3>1
  <2>2. ASSUME NEW n \in Agree PROVE n + 1 \in Agree
    <3> SUFFICES ASSUME NEW g1 \in [X -> S], NEW g2 \in [X -> S],
                        Fits(g1, n + 1), Fits(g2, n + 1),
                        NEW x \in Low(n + 1)
                 PROVE  g1[x] = g2[x]
      OBVIOUS
    <3>1. Low(n) \subseteq Low(n + 1)
      OBVIOUS
    <3>2. Fits(g1, n) /\ Fits(g2, n)
      BY <3>1
    <3>3. \A y \in Low(n) : g1[y] = g2[y]
      BY <3>2
    <3>4. g1[x] = Step(g1, x) /\ g2[x] = Step(g2, x)
      OBVIOUS
    <3>5. x \in Base \/ h[x] \in Low(n)
      BY <1>1
    <3> QED BY <1>3, <3>3, <3>4, <3>5
  <2> HIDE DEF Agree
  <2>3. Agree \in SUBSET Nat
    BY DEF Agree
  <2> QED BY <2>1, <2>2, <2>3, NatInd
<1>5. Reached = Nat
  <2>1. 0 \in Reached
    <3> PICK c \in S : TRUE
      OBVIOUS
    <3> DEFINE k == [x \in X |-> c]
               g == [x \in X |-> Step(k, x)]
    <3>1. k \in [X -> S] /\ g \in [X -> S]
      OBVIOUS
    <3>2. Fits(g, 0)
      BY <1>2, <1>3, <3>1
    <3> QED BY <3>1, <3>2
  <2>2. ASSUME NEW n \in Reached PROVE n + 1 \in Reached
    <3> PICK g \in [X -> S] : Fits(g, n)
      OBVIOUS
    <3> DEFINE next == [x \in X |-> Step(g, x)]
    <3>1. next \in [X -> S]
      OBVIOUS
    <3>2. \A x \in Low(n) : next[x] = g[x]
      OBVIOUS
    <3>3. ASSUME NEW x \in Low(n + 1) PROVE next[x] = Step(next, x)
      <4>1. CASE x \in Base
        BY <1>3, <3>1, <4>1
      <4>2. CASE h[x] \in Low(n)
        <5>1. next[h[x]] = g[h[x]]
          BY <3>2, <4>2
        <5> QED BY <5>1
      <4> QED BY <1>1, <4>1, <4>2
    <3>4. Fits(next, n + 1)
      BY <3>1, <3>3
    <3>5. n + 1 \in Nat
      OBVIOUS
    <3> HIDE DEF Fits, next
    <3> QED BY <3>1, <3>4, <3>5
  <2> HIDE DEF Reached
  <2>3. Reached \in SUBSET Nat
    BY DEF Reached
  <2> QED BY <2>1, <2>2, <2>3, NatInd
<1> DEFINE F(n) == CHOOSE g : Fits(g, n)
           f == [x \in X |-> F(rank[x])[x]]
<1>6. \A n \in Nat : Fits(F(n), n)
  BY <1>5
<1>7. f \in [X -> S]
  BY <1>6
<1>8. ASSUME NEW x \in X PROVE f[x] = Step(f, x)
  <2>1. rank[x] \in Nat /\ x \in Low(rank[x])
    OBVIOUS
  <2>2. f[x] = Step(F(rank[x]), x) /\ F(rank[x]) \in [X -> S]
    <3>1. Fits(F(rank[x]), rank[x])
      BY <1>6, <2>1
    <3> HIDE DEF F
    <3> QED BY <2>1, <3>1
  <2>3. CASE x \in Base
    <3> HIDE DEF f, F, Step
    <3> QED BY <1>3, <1>7, <2>2, <2>3
  <2>4. CASE rank[h[x]] < rank[x]
    <3>1. rank[h[x]] \in Nat /\ h[x] \in X /\ h[x] \in Low(rank[h[x]])
      OBVIOUS
    <3>2. Fits(F(rank[x]), rank[h[x]])
      <4>1. Low(rank[h[x]]) \subseteq Low(rank[x])
        BY <2>4, <3>1
      <4>2. Fits(F(rank[x]), rank[x])
        BY <1>6, <2>1
      <4> QED BY <4>1, <4>2
    <3>3. F(rank[x])[h[x]] = F(rank[h[x]])[h[x]]
      <4>1. rank[h[x]] \in Agree
        BY <1>4, <3>1
      <4>2. Fits(F(rank[h[x]]), rank[h[x]])
        BY <1>6, <3>1
      <4> HIDE DEF F
      <4> QED BY <3>1, <3>2, <4>1, <4>2
    <3>4. f[h[x]] = F(rank[h[x]])[h[x]]
      BY <3>1
    <3> HIDE DEF f, F
    <3> QED BY <2>2, <3>3, <3>4
  <2>5. x \in Base \/ rank[h[x]] < rank[x]
    BY DEF Base
  <2> QED BY <2>3, <2>4, <2>5
<1> HIDE DEF f
<1> QED BY <1>7, <1>8

-----------------------------------------------------------------------------
(* Powers of 2 *)

LEMMA Pow2Def ==
  /\ Pow2 \in [Nat -> Nat \ {0}]
  /\ Pow2[0] = 1
  /\ \A n \in Nat : Pow2[n + 1] = 2 * Pow2[n]
<1> DEFINE S == Nat \ {0}
           h == [x \in Nat |-> IF x = 0 THEN 0 ELSE x - 1]
           G == [y \in Nat \X S |-> IF y[1] = 0 THEN 1 ELSE 2 * y[2]]
           rank == [x \in Nat |-> x]
<1>1. \E f \in [Nat -> S] : \A x \in Nat : f[x] = G[<<x, f[h[x]]>>]
  <2>1. WellFounded(Nat, S, rank, h, G)
    BY DEF WellFounded
  <2> HIDE DEF S, h, G, rank
  <2> QED BY <2>1, Recursion
<1>2. PICK f \in [Nat -> S] : \A x \in Nat : f[x] = G[<<x, f[h[x]]>>]
  BY <1>1
<1>3. f = [n \in Nat |-> IF n = 0 THEN 1 ELSE 2 * f[n - 1]]
  <2>1. ASSUME NEW n \in Nat
        PROVE  f[n] = IF n = 0 THEN 1 ELSE 2 * f[n - 1]
    <3>1. f[n] = G[<<n, f[h[n]]>>] /\ f[h[n]] \in S
      BY <1>2
    <3>2. G[<<n, f[h[n]]>>] = IF n = 0 THEN 1 ELSE 2 * f[h[n]]
      BY <3>1
    <3>3. n # 0 => h[n] = n - 1
      OBVIOUS
    <3> QED BY <3>1, <3>2, <3>3
  <2> QED BY <2>1
<1>4. Pow2 = [n \in Nat |-> IF n = 0 THEN 1 ELSE 2 * Pow2[n - 1]]
  BY <1>3 DEF Pow2
<1>5. \A n \in Nat : Pow2[n] \in Nat \ {0}
  <2> DEFINE A == {n \in Nat : Pow2[n] \in Nat \ {0}}
  <2>1. 0 \in A /\ \A n \in A : n + 1 \in A
    BY <1>4
  <2> HIDE DEF A
  <2>2. A \in SUBSET Nat
    BY DEF A
  <2>3. A = Nat
    BY <2>1, <2>2, NatInd
  <2> QED BY <2>3 DEF A
<1> QED BY <1>4, <1>5

LEMMA Pow2Sum ==
  ASSUME NEW a \in Nat, NEW b \in Nat
  PROVE  Pow2[a + b] = Pow2[a] * Pow2[b]
<1> DEFINE A == {n \in Nat : Pow2[a + n] = Pow2[a] * Pow2[n]}
<1>1. 0 \in A
  BY Pow2Def
<1>2. ASSUME NEW n \in A PROVE n + 1 \in A
  <2>1. a + (n + 1) = (a + n) + 1 /\ a + n \in Nat /\ n \in Nat /\ n + 1 \in Nat
    OBVIOUS
  <2>2. Pow2[a + (n + 1)] = 2 * (Pow2[a] * Pow2[n])
    BY <2>1, Pow2Def
  <2>3. Pow2[n + 1] = 2 * Pow2[n] /\ Pow2[n] \in Nat /\ Pow2[a] \in Nat
    BY <2>1, Pow2Def
  <2>4. Pow2[a + (n + 1)] = Pow2[a] * Pow2[n + 1]
    BY <2>2, <2>3
  <2> QED BY <2>1, <2>4
<1> HIDE DEF A
<1>3. A \in SUBSET Nat
  BY DEF A
<1>4. A = Nat
  BY <1>1, <1>2, <1>3, NatInd
<1> QED BY <1>4 DEF A

LEMMA Pow2Divides ==
  ASSUME NEW a \in Nat, NEW b \in Nat, a <= b
  PROVE  /\ \E q \in Nat \ {0} : Pow2[b] = q * Pow2[a]
         /\ Pow2[a] <= Pow2[b]
<1>1. b - a \in Nat /\ b = a + (b - a)
  OBVIOUS
<1>2. Pow2[b] = Pow2[a] * Pow2[b - a]
  BY <1>1, Pow2Sum
<1>3. Pow2[b - a] \in Nat \ {0} /\ Pow2[a] \in Nat \ {0}
  BY <1>1, Pow2Def
<1>4. Pow2[b] = Pow2[b - a] * Pow2[a]
  BY <1>2, <1>3
<1>5. Pow2[b - a] * Pow2[a] >= Pow2[a]
  BY <1>3
<1> QED BY <1>3, <1>4, <1>5

LEMMA Pow2Seven ==
  /\ Pow2[7] = 128
  /\ \A k \in Nat : Pow2[7 * (k + 1)] = 128 * Pow2[7 * k]
<1>1. Pow2[7] = 128
  <2>1. Pow2[1] = 2 BY Pow2Def, 0 + 1 = 1
  <2>2. Pow2[2] = 4 BY <2>1, Pow2Def, 1 + 1 = 2
  <2>3. Pow2[3] = 8 BY <2>2, Pow2Def, 2 + 1 = 3
  <2>4. Pow2[4] = 16 BY <2>3, Pow2Def, 3 + 1 = 4
  <2>5. Pow2[5] = 32 BY <2>4, Pow2Def, 4 + 1 = 5
  <2>6. Pow2[6] = 64 BY <2>5, Pow2Def, 5 + 1 = 6
  <2> QED BY <2>6, Pow2Def, 6 + 1 = 7
<1>2. ASSUME NEW k \in Nat PROVE Pow2[7 * (k + 1)] = 128 * Pow2[7 * k]
  <2>1. 7 * k \in Nat /\ 7 \in Nat /\ 7 * (k + 1) = 7 + 7 * k
    OBVIOUS
  <2>2. Pow2[7 + 7 * k] = Pow2[7] * Pow2[7 * k]
    BY <2>1, Pow2Sum
  <2> QED BY <1>1, <2>1, <2>2
<1> QED BY <1>1, <1>2

-----------------------------------------------------------------------------
(* Varints *)

Byte == 0 .. 255

LEMMA StrongInd ==
  ASSUME NEW A \in SUBSET Nat,
         \A n \in Nat : (\A m \in Nat : m < n => m \in A) => n \in A
  PROVE  A = Nat
<1> DEFINE Below == {n \in Nat : \A m \in Nat : m < n => m \in A}
<1>1. 0 \in Below
  OBVIOUS
<1>2. ASSUME NEW n \in Below PROVE n + 1 \in Below
  OBVIOUS
<1> HIDE DEF Below
<1>3. Below \in SUBSET Nat
  BY DEF Below
<1>4. Below = Nat
  BY <1>1, <1>2, <1>3, NatInd
<1> QED BY <1>4 DEF Below

LEMMA Div128 ==
  ASSUME NEW n \in Nat
  PROVE  /\ n \div 128 \in Nat
         /\ n % 128 \in 0 .. 127
         /\ n = 128 * (n \div 128) + (n % 128)
         /\ n >= 128 => n \div 128 < n /\ n \div 128 > 0
         /\ n < 128 => n % 128 = n /\ (128 + n) % 128 = n
OBVIOUS

LEMMA VarintDef ==
  /\ Varint \in [Nat -> Seq(Byte)]
  /\ \A n \in Nat :
       Varint[n] = IF n < 128 THEN <<n>>
                   ELSE <<128 + (n % 128)>> \o Varint[n \div 128]
<1> DEFINE S == Seq(Byte)
           h == [x \in Nat |-> x \div 128]
           G == [y \in Nat \X S |-> IF y[1] < 128 THEN <<y[1]>>
                                    ELSE <<128 + (y[1] % 128)>> \o y[2]]
           rank == [x \in Nat |-> x]
<1>1. ASSUME NEW x \in Nat, NEW v \in S
      PROVE  /\ x < 128 => <<x>> \in S
             /\ <<128 + (x % 128)>> \o v \in S
  <2>1. x < 128 => x \in Byte
    BY DEF Byte
  <2>2. 128 + (x % 128) \in Byte
    BY Div128 DEF Byte
  <2> HIDE DEF Byte
  <2> QED BY <2>1, <2>2
<1>2. WellFounded(Nat, S, rank, h, G)
  <2>1. S # {}
    BY EmptySeq
  <2>2. h \in [Nat -> Nat]
    BY Div128
  <2>3. G \in [Nat \X S -> S]
    BY <1>1
  <2>4. ASSUME NEW x \in Nat
        PROVE  \/ rank[h[x]] < rank[x]
               \/ \A u, v \in S : G[<<x, u>>] = G[<<x, v>>]
    BY Div128
  <2> HIDE DEF S, h, G
  <2> QED BY <2>1, <2>2, <2>3, <2>4 DEF WellFounded
<1>3. \E f \in [Nat -> S] : \A x \in Nat : f[x] = G[<<x, f[h[x]]>>]
  <2> HIDE DEF S, h, G, rank
  <2> QED BY <1>2, Recursion
<1>4. PICK f \in [Nat -> S] : \A x \in Nat : f[x] = G[<<x, f[h[x]]>>]
  BY <1>3
<1>5. f = [n \in Nat |-> IF n < 128 THEN <<n>>
                         ELSE <<128 + (n % 128)>> \o f[n \div 128]]
  <2>1. ASSUME NEW n \in Nat
        PROVE  f[n] = IF n < 128 THEN <<n>>
                      ELSE <<128 + (n % 128)>> \o f[n \div 128]
    <3>1. h[n] = n \div 128 /\ h[n] \in Nat
      BY Div128
    <3>2. f[n] = G[<<n, f[h[n]]>>] /\ f[h[n]] \in S
      <4> HIDE DEF S, h, G
      <4> QED BY <1>4, <3>1
    <3>3. G[<<n, f[h[n]]>>] = IF n < 128 THEN <<n>>
                              ELSE <<128 + (n % 128)>> \o f[h[n]]
      BY <3>2
    <3> QED BY <3>1, <3>2, <3>3
  <2> QED BY <2>1
<1>6. Varint = [n \in Nat |-> IF n < 128 THEN <<n>>
                              ELSE <<128 + (n % 128)>> \o Varint[n \div 128]]
  <2> DEFINE Value(g) == [n \in Nat |->
                            IF n < 128 THEN <<n>>
                            ELSE <<128 + (n % 128)>> \o g[n \div 128]]
             v == CHOOSE g : g = Value(g)
  <2>1. f = Value(f)
    BY <1>5
  <2>2. Varint = v
    BY DEF Varint
  <2>3. v = Value(v)
    <3> HIDE DEF Value
    <3> QED BY <2>1
  <2> HIDE DEF v
  <2> QED BY <2>2, <2>3
<1>7. \A n \in Nat : Varint[n] = IF n < 128 THEN <<n>>
                                 ELSE <<128 + (n % 128)>> \o Varint[n \div 128]
  BY <1>6
<1> HIDE DEF S
<1>8. \A n \in Nat : Varint[n] \in S
  <2> DEFINE A == {n \in Nat : Varint[n] \in S}
  <2>1. ASSUME NEW n \in Nat, \A m \in Nat : m < n => m \in A PROVE n \in A
    <3>1. CASE n < 128
      <4>1. <<n>> \in S
        <5>1. <<>> \in S
          BY EmptySeq DEF S
        <5> QED BY <1>1, <3>1, <5>1
      <4> QED BY <1>7, <3>1, <4>1
    <3>2. CASE n >= 128
      <4>1. Varint[n \div 128] \in S
        BY <2>1, <3>2, Div128
      <4>2. <<128 + (n % 128)>> \o Varint[n \div 128] \in S
        BY <1>1, <4>1
      <4>3. ~(n < 128)
        BY <3>2
      <4>4. Varint[n] = <<128 + (n % 128)>> \o Varint[n \div 128]
        BY <1>7, <4>3
      <4> QED BY <4>2, <4>4
    <3> QED BY <3>1, <3>2
  <2> HIDE DEF A
  <2>2. A \in SUBSET Nat
    BY DEF A
  <2>3. A = Nat
    BY <2>1, <2>2, StrongInd
  <2> QED BY <2>3 DEF A
<1>9. Varint \in [Nat -> S]
  BY <1>6, <1>8
<1> QED BY <1>7, <1>9 DEF S

\* What a reader relies on: only the last byte is below 128, a byte is zero only
\* in the varint of zero, and there are as many bytes as the number needs.
HasVarintForm(v, n) ==
  /\ Len(v) >= 1
  /\ \A i \in 1 .. Len(v) : v[i] < 128 <=> i = Len(v)
  /\ (\E i \in 1 .. Len(v) : v[i] = 0) <=> n = 0
  /\ n < Pow2[7 * Len(v)]
  /\ Len(v) > 1 => n >= Pow2[7 * (Len(v) - 1)]

LEMMA VarintStep ==
  ASSUME NEW n \in Nat, n >= 128
  PROVE  LET v == Varint[n]
             w == Varint[n \div 128]
         IN /\ v \in Seq(Byte) /\ w \in Seq(Byte)
            /\ Len(v) = 1 + Len(w)
            /\ v[1] = 128 + (n % 128)
            /\ \A i \in 2 .. Len(v) : v[i] = w[i - 1]
<1> DEFINE w == Varint[n \div 128]
           b == 128 + (n % 128)
<1>1. w \in Seq(Byte) /\ Varint[n] \in Seq(Byte)
  BY VarintDef, Div128
<1>2. b \in Byte
  BY Div128 DEF Byte
<1>3. Varint[n] = <<b>> \o w
  <2>1. ~(n < 128)
    OBVIOUS
  <2> QED BY <2>1, VarintDef
<1> HIDE DEF w, b, Byte
<1>4. <<b>> \in Seq(Byte) /\ Len(<<b>>) = 1 /\ <<b>>[1] = b
  BY <1>2
<1>5. /\ Len(<<b>> \o w) = 1 + Len(w)
      /\ \A i \in 1 .. 1 + Len(w) :
           (<<b>> \o w)[i] = IF i <= 1 THEN <<b>>[i] ELSE w[i - 1]
  BY <1>1, <1>4, ConcatProperties
<1>6. Len(w) \in Nat
  BY <1>1, LenProperties
<1>7. Varint[n][1] = b /\ Len(Varint[n]) = 1 + Len(w)
  BY <1>3, <1>4, <1>5, <1>6
<1>8. \A i \in 2 .. 1 + Len(w) : Varint[n][i] = w[i - 1]
  BY <1>3, <1>5, <1>6
<1> QED BY <1>1, <1>7, <1>8 DEF w, b

LEMMA VarintForm ==
  ASSUME NEW n \in Nat
  PROVE  /\ Varint[n] \in Seq(Byte)
         /\ HasVarintForm(Varint[n], n)
<1> DEFINE A == {k \in Nat : HasVarintForm(Varint[k], k)}
<1>1. ASSUME NEW k \in Nat, \A m \in Nat : m < k => m \in A PROVE k \in A
  <2>1. CASE k < 128
    <3>1. Varint[k] = <<k>>
      BY <2>1, VarintDef
    <3>2. Len(<<k>>) = 1 /\ <<k>>[1] = k
      OBVIOUS
    <3>3. 7 * Len(<<k>>) = 7 /\ k < Pow2[7]
      BY <2>1, Pow2Seven
    <3>4. HasVarintForm(<<k>>, k)
      BY <2>1, <3>2, <3>3 DEF HasVarintForm
    <3> QED BY <3>1, <3>4
  <2>2. CASE k >= 128
    <3> DEFINE v == Varint[k]
               m == k \div 128
               w == Varint[m]
    <3>1. /\ v \in Seq(Byte) /\ w \in Seq(Byte)
          /\ Len(v) = 1 + Len(w)
          /\ v[1] = 128 + (k % 128)
          /\ \A i \in 2 .. Len(v) : v[i] = w[i - 1]
      BY <2>2, VarintStep
    <3>2. /\ m \in Nat \ {0} /\ k % 128 \in 0 .. 127
          /\ k = 128 * m + (k % 128) /\ m < k
      BY <2>2, Div128
    <3>3. HasVarintForm(w, m)
      BY <1>1, <3>2
    <3> HIDE DEF v, m, w
    <3>4. Len(w) \in Nat
      BY <3>1, LenProperties
    <3>5. Len(w) >= 1 /\ \A i \in 1 .. Len(w) : w[i] < 128 <=> i = Len(w)
      BY <3>3 DEF HasVarintForm
    <3>6. \A i \in 1 .. Len(v) : v[i] < 128 <=> i = Len(v)
      BY <3>1, <3>2, <3>4, <3>5
    <3>7. \A i \in 1 .. Len(v) : v[i] # 0
      BY <3>1, <3>2, <3>3, <3>4 DEF HasVarintForm
    <3>8. k < Pow2[7 * Len(v)]
      <4>1. m < Pow2[7 * Len(w)]
        BY <3>3 DEF HasVarintForm
      <4>2. Pow2[7 * (Len(w) + 1)] = 128 * Pow2[7 * Len(w)]
        BY <3>4, Pow2Seven
      <4>3. 7 * Len(w) \in Nat
        BY <3>4
      <4>4. Pow2[7 * Len(w)] \in Nat
        BY <4>3, Pow2Def
      <4>5. Len(w) + 1 = Len(v)
        BY <3>1, <3>4
      <4> QED BY <3>2, <4>1, <4>2, <4>4, <4>5
    <3>9. k >= Pow2[7 * (Len(v) - 1)]
      <4>1. CASE Len(w) = 1
        <5>1. 7 * (Len(v) - 1) = 7
          BY <3>1, <4>1
        <5> QED BY <2>2, <5>1, Pow2Seven
      <4>2. CASE Len(w) > 1
        <5>1. m >= Pow2[7 * (Len(w) - 1)]
          BY <3>3, <4>2 DEF HasVarintForm
        <5>2. Pow2[7 * ((Len(w) - 1) + 1)] = 128 * Pow2[7 * (Len(w) - 1)]
          <6>1. Len(w) - 1 \in Nat
            BY <3>4, <4>2
          <6> QED BY <6>1, Pow2Seven
        <5>3. (Len(w) - 1) + 1 = Len(v) - 1 /\ 7 * (Len(w) - 1) \in Nat
          BY <3>1, <3>4, <4>2
        <5>4. Pow2[7 * (Len(w) - 1)] \in Nat
          BY <5>3, Pow2Def
        <5> QED BY <3>2, <5>1, <5>2, <5>3, <5>4
      <4>3. Len(w) = 1 \/ Len(w) > 1
        BY <3>4, <3>5
      <4> QED BY <4>1, <4>2, <4>3
    <3>10. HasVarintForm(v, k)
      BY <3>1, <3>2, <3>4, <3>5, <3>6, <3>7, <3>8, <3>9 DEF HasVarintForm
    <3> QED BY <3>10 DEF v
  <2> QED BY <2>1, <2>2
<1> HIDE DEF A
<1>2. A \in SUBSET Nat
  BY DEF A
<1>3. A = Nat
  BY <1>1, <1>2, StrongInd
<1> QED BY <1>3, VarintDef DEF A

-----------------------------------------------------------------------------
(* Reading a varint *)

LEMMA UnsignedDef ==
  ASSUME NEW s \in Seq(Nat), NEW e \in Nat, e <= Len(s)
  PROVE  /\ \A p \in 1 .. e + 1 : Unsigned(s, p, e) \in Nat
         /\ Unsigned(s, e + 1, e) = 0
         /\ \A p \in 1 .. e :
              Unsigned(s, p, e) = (s[p] % 128) + 128 * Unsigned(s, p + 1, e)
<1> DEFINE X == 1 .. e + 1
           h == [i \in X |-> IF i > e THEN i ELSE i + 1]
           G == [y \in X \X Nat |-> IF y[1] > e THEN 0
                                    ELSE (s[y[1]] % 128) + 128 * y[2]]
           rank == [i \in X |-> (e + 1) - i]
           Value(f) == [i \in X |-> IF i > e THEN 0
                                    ELSE (s[i] % 128) + 128 * f[i + 1]]
           v == CHOOSE f : f = Value(f)
<1>1. \A i \in 1 .. e : s[i] % 128 \in Nat
  BY ElementOfSeq
<1>2. WellFounded(X, Nat, rank, h, G)
  <2>1. rank \in [X -> Nat] /\ h \in [X -> X]
    OBVIOUS
  <2>2. G \in [X \X Nat -> Nat]
    <3>1. ASSUME NEW x \in X, NEW u \in Nat
          PROVE  (IF x > e THEN 0 ELSE (s[x] % 128) + 128 * u) \in Nat
      <4>1. CASE x > e
        BY <4>1
      <4>2. CASE x \in 1 .. e
        <5> DEFINE d == s[x] % 128
        <5>1. d \in Nat /\ ~(x > e)
          BY <1>1, <4>2
        <5> HIDE DEF d
        <5>2. d + 128 * u \in Nat
          BY <5>1
        <5> QED BY <5>1, <5>2 DEF d
      <4> QED BY <4>1, <4>2
    <3> HIDE DEF X
    <3> QED BY <3>1
  <2>3. ASSUME NEW x \in X
        PROVE  \/ rank[h[x]] < rank[x]
               \/ \A u, w \in Nat : G[<<x, u>>] = G[<<x, w>>]
    <3>1. CASE x > e
      <4>1. \A u \in Nat : G[<<x, u>>] = 0
        BY <3>1
      <4> HIDE DEF G
      <4> QED BY <4>1
    <3>2. CASE x <= e
      <4>1. h[x] = x + 1 /\ x + 1 \in X
        BY <3>2
      <4>2. rank[x + 1] < rank[x]
        BY <4>1
      <4> QED BY <4>1, <4>2
    <3>3. x > e \/ x <= e
      OBVIOUS
    <3> HIDE DEF X, h, G, rank
    <3> QED BY <3>1, <3>2, <3>3
  <2> HIDE DEF X, h, G, rank
  <2> QED BY <2>1, <2>2, <2>3 DEF WellFounded
<1>3. \E f \in [X -> Nat] : \A x \in X : f[x] = G[<<x, f[h[x]]>>]
  <2> HIDE DEF X, h, G, rank
  <2> QED BY <1>2, Recursion
<1>4. PICK f \in [X -> Nat] : \A x \in X : f[x] = G[<<x, f[h[x]]>>]
  BY <1>3
<1>5. f = Value(f)
  <2>1. ASSUME NEW i \in X
        PROVE  f[i] = IF i > e THEN 0 ELSE (s[i] % 128) + 128 * f[i + 1]
    <3>1. h[i] \in X /\ (i <= e => h[i] = i + 1)
      OBVIOUS
    <3>2. f[i] = G[<<i, f[h[i]]>>] /\ f[h[i]] \in Nat
      <4> HIDE DEF X, h, G
      <4> QED BY <1>4, <3>1
    <3>3. G[<<i, f[h[i]]>>] = IF i > e THEN 0
                              ELSE (s[i] % 128) + 128 * f[h[i]]
      BY <3>2
    <3> QED BY <3>1, <3>2, <3>3
  <2> HIDE DEF X
  <2> QED BY <2>1
<1>6. v = Value(v)
  BY <1>5
<1> HIDE DEF v
<1>7. /\ v[e + 1] = 0
      /\ \A p \in 1 .. e : v[p] = (s[p] % 128) + 128 * v[p + 1]
  <2>1. /\ e + 1 \in X /\ e + 1 > e
        /\ \A p \in 1 .. e : p \in X /\ ~(p > e)
    OBVIOUS
  <2>2. \A i \in X : v[i] = IF i > e THEN 0 ELSE (s[i] % 128) + 128 * v[i + 1]
    <3> HIDE DEF X
    <3> QED BY <1>6
  <2> HIDE DEF X, Value
  <2>3. v[e + 1] = 0
    BY <2>1, <2>2
  <2>4. ASSUME NEW p \in 1 .. e PROVE v[p] = (s[p] % 128) + 128 * v[p + 1]
    BY <2>1, <2>2
  <2> QED BY <2>3, <2>4
<1>8. \A p \in X : v[p] \in Nat
  <2> DEFINE A == {n \in Nat : \A p \in X : (e + 1) - p = n => v[p] \in Nat}
  <2>1. 0 \in A
    BY <1>7
  <2>2. ASSUME NEW n \in A PROVE n + 1 \in A
    <3> SUFFICES ASSUME NEW p \in X, (e + 1) - p = n + 1 PROVE v[p] \in Nat
      OBVIOUS
    <3>1. p \in 1 .. e /\ p + 1 \in X /\ (e + 1) - (p + 1) = n
      OBVIOUS
    <3>2. v[p + 1] \in Nat /\ s[p] % 128 \in Nat
      BY <1>1, <3>1
    <3>3. v[p] = (s[p] % 128) + 128 * v[p + 1]
      BY <1>7, <3>1
    <3>4. PICK a \in Nat, b \in Nat : a = s[p] % 128 /\ b = v[p + 1]
      BY <3>2
    <3>5. v[p] = a + 128 * b
      BY <3>3, <3>4
    <3> QED BY <3>5
  <2> HIDE DEF A
  <2>3. A \in SUBSET Nat
    BY DEF A
  <2>4. A = Nat
    BY <2>1, <2>2, <2>3, NatInd
  <2>5. ASSUME NEW p \in X PROVE v[p] \in Nat
    <3>1. (e + 1) - p \in A
      BY <2>4
    <3> QED BY <3>1 DEF A
  <2> QED BY <2>5
<1>9. \A p \in X : Unsigned(s, p, e) = v[p]
  BY DEF Unsigned, v
<1>10. e + 1 \in X /\ \A p \in 1 .. e : p \in X /\ p + 1 \in X
  OBVIOUS
<1>11. \A p \in 1 .. e + 1 : Unsigned(s, p, e) \in Nat
  BY <1>8, <1>9
<1> HIDE DEF X
<1>12. Unsigned(s, e + 1, e) = 0
  BY <1>7, <1>9, <1>10
<1>13. ASSUME NEW p \in 1 .. e
       PROVE  Unsigned(s, p, e) = (s[p] % 128) + 128 * Unsigned(s, p + 1, e)
  <2>1. Unsigned(s, p, e) = v[p] /\ Unsigned(s, p + 1, e) = v[p + 1]
    BY <1>9, <1>10
  <2>2. v[p] = (s[p] % 128) + 128 * v[p + 1]
    BY <1>7
  <2> QED BY <2>1, <2>2
<1> QED BY <1>11, <1>12, <1>13

\* v is what s holds from place p on.
Holds(s, p, v) ==
  /\ (p + Len(v)) - 1 <= Len(s)
  /\ \A i \in 1 .. Len(v) : s[(p + i) - 1] = v[i]

LEMMA UnsignedReads ==
  ASSUME NEW n \in Nat, NEW s \in Seq(Nat), NEW p \in Nat \ {0},
         Holds(s, p, Varint[n])
  PROVE  Unsigned(s, p, (p + Len(Varint[n])) - 1) = n
<1> DEFINE A == {k \in Nat : \A t \in Seq(Nat), q \in Nat \ {0} :
                   Holds(t, q, Varint[k])
                     => Unsigned(t, q, (q + Len(Varint[k])) - 1) = k}
<1>1. ASSUME NEW k \in Nat, \A m \in Nat : m < k => m \in A PROVE k \in A
  <2> SUFFICES ASSUME NEW t \in Seq(Nat), NEW q \in Nat \ {0},
                      Holds(t, q, Varint[k])
               PROVE  Unsigned(t, q, (q + Len(Varint[k])) - 1) = k
    OBVIOUS
  <2> DEFINE v == Varint[k]
             e == (q + Len(v)) - 1
  <2>1. Len(v) \in Nat \ {0}
    BY VarintForm, LenProperties DEF HasVarintForm
  <2>2. e \in Nat /\ e <= Len(t) /\ q \in 1 .. e
    BY <2>1 DEF Holds
  <2>3. Unsigned(t, q, e) = (t[q] % 128) + 128 * Unsigned(t, q + 1, e)
    <3> HIDE DEF e, v
    <3> QED BY <2>2, UnsignedDef
  <2>4. t[q] = v[1]
    <3>1. (q + 1) - 1 = q /\ 1 \in 1 .. Len(v)
      BY <2>1
    <3> QED BY <3>1 DEF Holds
  <2>5. CASE k < 128
    <3>1. v = <<k>>
      BY <2>5, VarintDef
    <3>2. v[1] = k /\ Len(v) = 1
      BY <3>1
    <3>3. e = q /\ Unsigned(t, e + 1, e) = 0
      BY <2>2, <3>2, UnsignedDef
    <3>4. k % 128 = k
      BY <2>5, Div128
    <3> HIDE DEF v, e
    <3>5. Unsigned(t, q, e) = k + 128 * 0
      BY <2>3, <2>4, <3>2, <3>3, <3>4
    <3> QED BY <3>5 DEF e, v
  <2>6. CASE k >= 128
    <3> DEFINE m == k \div 128
               w == Varint[m]
    <3>1. /\ v \in Seq(Byte) /\ w \in Seq(Byte)
          /\ Len(v) = 1 + Len(w)
          /\ v[1] = 128 + (k % 128)
          /\ \A i \in 2 .. Len(v) : v[i] = w[i - 1]
      BY <2>6, VarintStep
    <3>2. /\ m \in Nat /\ k % 128 \in 0 .. 127 /\ k = 128 * m + (k % 128)
          /\ m < k
      BY <2>6, Div128
    <3>3. Len(w) \in Nat /\ e = q + Len(w)
      <4>1. Len(w) \in Nat
        BY <3>1, LenProperties
      <4> HIDE DEF v, w
      <4> QED BY <3>1, <4>1
    <3> HIDE DEF v, w, m, e
    <3>4. Holds(t, q + 1, w)
      <4>1. ((q + 1) + Len(w)) - 1 <= Len(t)
        BY <2>2, <3>1, <3>3
      <4>2. ASSUME NEW i \in 1 .. Len(w) PROVE t[((q + 1) + i) - 1] = w[i]
        <5>1. i + 1 \in 1 .. Len(v) /\ i + 1 \in 2 .. Len(v)
          BY <3>1, <3>3
        <5>2. t[(q + (i + 1)) - 1] = v[i + 1] /\ v[i + 1] = w[(i + 1) - 1]
          BY <3>1, <5>1 DEF Holds, v
        <5>3. (q + (i + 1)) - 1 = ((q + 1) + i) - 1 /\ (i + 1) - 1 = i
          OBVIOUS
        <5> QED BY <5>2, <5>3
      <4> QED BY <4>1, <4>2 DEF Holds
    <3>5. Unsigned(t, q + 1, ((q + 1) + Len(w)) - 1) = m
      <4>1. m \in A
        BY <1>1, <3>2
      <4>2. q + 1 \in Nat \ {0}
        OBVIOUS
      <4> QED BY <3>4, <4>1, <4>2 DEF w
    <3>6. ((q + 1) + Len(w)) - 1 = e
      BY <3>1, <3>3
    <3>7. (128 + (k % 128)) % 128 = k % 128
      BY <3>2, Div128
    <3>8. Unsigned(t, q, e) = (k % 128) + 128 * m
      BY <2>3, <2>4, <3>1, <3>5, <3>6, <3>7
    <3>9. (k % 128) + 128 * m = k
      BY <3>2
    <3> QED BY <3>8, <3>9 DEF e, v
  <2> QED BY <2>5, <2>6
<1> HIDE DEF A
<1>2. A \in SUBSET Nat
  BY DEF A
<1>3. A = Nat
  BY <1>1, <1>2, StrongInd
<1> QED BY <1>3 DEF A

\* The end of a varint that is there, and of one that is cut off.
LEMMA VarintEnds ==
  ASSUME NEW n \in Nat, NEW s \in Seq(Nat), NEW p \in Nat \ {0},
         Holds(s, p, Varint[n])
  PROVE  VarintEnd(s, p) = (p + Len(Varint[n])) - 1
<1> DEFINE v == Varint[n]
           e == (p + Len(v)) - 1
           ends == {i \in p .. Len(s) : s[i] < 128}
<1>1. Len(v) \in Nat \ {0} /\ \A i \in 1 .. Len(v) : v[i] < 128 <=> i = Len(v)
  BY VarintForm, LenProperties DEF HasVarintForm
<1>2. e \in p .. Len(s) /\ Len(s) \in Nat
  BY <1>1, LenProperties DEF Holds
<1>3. \A j \in p .. e : s[j] < 128 <=> j = e
  <2> SUFFICES ASSUME NEW j \in p .. e PROVE s[j] < 128 <=> j = e
    OBVIOUS
  <2> DEFINE i == (j - p) + 1
  <2>1. i \in 1 .. Len(v) /\ (p + i) - 1 = j /\ (i = Len(v) <=> j = e)
    <3> DEFINE n1 == Len(v)
    <3>1. n1 \in Nat \ {0}
      BY <1>1
    <3> HIDE DEF n1
    <3>2. /\ j \in p .. (p + n1) - 1
          /\ i \in 1 .. n1 /\ (p + i) - 1 = j
          /\ (i = n1 <=> j = (p + n1) - 1)
      <4>1. j \in p .. (p + n1) - 1
        BY DEF n1
      <4> QED BY <3>1, <4>1
    <3> QED BY <3>2 DEF n1
  <2>2. s[j] = v[i]
    <3> HIDE DEF i, v
    <3> QED BY <2>1 DEF Holds, v
  <2>3. i = Len(v) <=> j = e
    BY <2>1
  <2> HIDE DEF i, v
  <2> QED BY <1>1, <2>1, <2>2, <2>3
<1> HIDE DEF v, e
<1>4. e \in ends /\ \A j \in ends : e <= j
  <2>1. e \in ends
    BY <1>2, <1>3
  <2>2. ASSUME NEW j \in ends, j < e PROVE FALSE
    BY <1>2, <1>3, <2>2
  <2>3. \A j \in ends : j \in Int /\ e \in Int
    BY <1>2
  <2> QED BY <2>1, <2>2, <2>3
<1>5. (CHOOSE i \in ends : \A j \in ends : i <= j) = e
  <2>1. ASSUME NEW i \in ends, \A j \in ends : i <= j PROVE i = e
    BY <1>2, <1>4, <2>1
  <2> HIDE DEF ends
  <2> QED BY <1>4, <2>1
<1>6. VarintEnd(s, p) = e
  <2>1. ends # {}
    BY <1>4
  <2> QED BY <1>5, <2>1 DEF VarintEnd
<1> QED BY <1>6 DEF e, v

LEMMA VarintCut ==
  ASSUME NEW s, NEW p, \A i \in p .. Len(s) : ~(s[i] < 128)
  PROVE  VarintEnd(s, p) = 0
BY DEF VarintEnd

-----------------------------------------------------------------------------
(* Numbers *)

LEMMA Widths ==
  /\ IntBits - 1 \in Nat /\ IntBits \in Nat /\ LongBits \in Nat
  /\ LongBits - 1 \in Nat
  /\ Pow2[IntBits - 1] \in Nat \ {0}
  /\ Pow2[IntBits] = 2 * Pow2[IntBits - 1]
  /\ Pow2[LongBits - 1] \in Nat \ {0}
  /\ Pow2[LongBits] = 2 * Pow2[LongBits - 1]
  /\ Pow2[IntBits - 1] <= Pow2[LongBits - 1]
  /\ Int32 \subseteq Int
<1>1. /\ IntBits - 1 \in Nat /\ IntBits \in Nat /\ LongBits \in Nat
      /\ LongBits - 1 \in Nat /\ IntBits - 1 <= LongBits - 1
      /\ (IntBits - 1) + 1 = IntBits /\ (LongBits - 1) + 1 = LongBits
  BY WireAssumption DEF WireAssumption
<1>2. Pow2[IntBits - 1] <= Pow2[LongBits - 1]
  BY <1>1, Pow2Divides
<1>3. /\ Pow2[IntBits] = 2 * Pow2[IntBits - 1]
      /\ Pow2[LongBits] = 2 * Pow2[LongBits - 1]
      /\ Pow2[IntBits - 1] \in Nat \ {0} /\ Pow2[LongBits - 1] \in Nat \ {0}
  BY <1>1, Pow2Def
<1>4. Int32 \subseteq Int
  BY <1>3 DEF Int32
<1> QED BY <1>1, <1>2, <1>3, <1>4

\* The number whose varint stands for n.
Code(n) == IF n < 0 THEN n + Pow2[LongBits] ELSE n

LEMMA CodeType ==
  ASSUME NEW n \in Int32
  PROVE  /\ Code(n) \in Nat
         /\ Code(n) = 0 <=> n = 0
         /\ WriteInt(n) = Varint[Code(n)]
         /\ n < 0 => /\ Code(n) >= Pow2[LongBits - 1]
                     /\ Code(n) < Pow2[LongBits]
         /\ n >= 0 => Code(n) = n /\ n < Pow2[LongBits - 1]
BY Widths DEF Code, WriteInt, Int32

LEMMA ModPlus ==
  ASSUME NEW M \in Nat \ {0}, NEW q \in Int, NEW r \in 0 .. M - 1
  PROVE  (q * M + r) % M = r /\ r % M = r
OBVIOUS

\* A number is read as it was written, negative ones too: WireFormatLite's
\* WriteInt32 and ReadPrimitive, for every width of int32 and int64.
THEOREM IntReads ==
  ASSUME NEW n \in Int32, NEW s \in Seq(Nat), NEW p \in Nat \ {0},
         Holds(s, p, WriteInt(n))
  PROVE  ReadInt(s, p, (p + Len(WriteInt(n))) - 1) = n
<1> DEFINE e == (p + Len(WriteInt(n))) - 1
           M == Pow2[IntBits]
           H == Pow2[IntBits - 1]
           u == Unsigned(s, p, e)
<1>1. u = Code(n)
  <2>1. Code(n) \in Nat /\ WriteInt(n) = Varint[Code(n)]
    BY CodeType
  <2> QED BY <2>1, UnsignedReads
<1>2. /\ H \in Nat \ {0} /\ M = 2 * H /\ n \in Int /\ -H <= n /\ n <= H - 1
  BY Widths DEF Int32
<1>3. M \in Nat \ {0}
  BY <1>2
<1>4. ReadInt(s, p, e) = IF u % M >= H THEN (u % M) - M ELSE u % M
  BY DEF ReadInt
<1>5. CASE n < 0
  <2>1. PICK q \in Nat \ {0} : Pow2[LongBits] = q * M
    <3>1. IntBits <= LongBits
      BY WireAssumption DEF WireAssumption
    <3> QED BY <3>1, Widths, Pow2Divides
  <2>2. u = n + q * M
    BY <1>1, <1>5, <2>1 DEF Code
  <2> HIDE DEF u, M, H
  <2>3. n + M \in 0 .. M - 1 /\ q - 1 \in Int
    BY <1>2, <1>5
  <2>4. ((q - 1) * M + (n + M)) % M = n + M
    BY <1>3, <2>3, ModPlus
  <2>5. n + q * M = (q - 1) * M + (n + M)
    BY <1>2, <1>3
  <2>6. u % M = n + M
    BY <2>2, <2>4, <2>5
  <2>7. n + M >= H /\ (n + M) - M = n
    BY <1>2
  <2> QED BY <1>4, <2>6, <2>7 DEF e
<1>6. CASE n >= 0
  <2>1. u = n
    BY <1>1, <1>6, <1>2 DEF Code
  <2> HIDE DEF u, M, H
  <2>2. n \in 0 .. M - 1
    BY <1>2, <1>6
  <2>3. u % M = n
    BY <1>3, <2>1, <2>2, ModPlus
  <2>4. ~(n >= H)
    BY <1>2
  <2> QED BY <1>4, <2>3, <2>4 DEF e
<1> QED BY <1>2, <1>5, <1>6

\* WireFormatLite::Int32Size is the number of bytes that WriteInt32 writes, so
\* SerializeToString finds as many as ByteSizeLong made room for.
THEOREM IntSizes ==
  ASSUME NEW n \in Int32
  PROVE  IntSize(n) = Len(WriteInt(n))
<1> DEFINE c == Code(n)
           k == Len(Varint[c])
           L == LongBits
<1>1. c \in Nat /\ WriteInt(n) = Varint[c]
  BY CodeType
<1>2. /\ k \in Nat \ {0} /\ c < Pow2[7 * k]
      /\ k > 1 => c >= Pow2[7 * (k - 1)]
  <2> HIDE DEF c
  <2>1. Varint[c] \in Seq(Byte) /\ HasVarintForm(Varint[c], c)
    BY <1>1, VarintForm
  <2>2. k \in Nat
    BY <2>1, LenProperties
  <2> QED BY <2>1, <2>2 DEF HasVarintForm
<1>3. L \in Nat /\ L >= 1
  BY Widths
<1> HIDE DEF c, k, L
<1>4. CASE n < 0
  <2> DEFINE K == (L + 6) \div 7
  <2>1. K \in Nat /\ 7 * K >= L /\ 7 * K <= L + 6 /\ K >= 1
    BY <1>3
  <2>2. c >= Pow2[L - 1] /\ c < Pow2[L]
    BY <1>4, CodeType DEF c, L
  <2> HIDE DEF K
  <2>3. ASSUME k < K PROVE FALSE
    <3>1. 7 * k \in Nat /\ L - 1 \in Nat /\ 7 * k <= L - 1
      BY <1>2, <1>3, <2>1, <2>3
    <3>2. Pow2[7 * k] <= Pow2[L - 1]
      BY <3>1, Pow2Divides
    <3>3. Pow2[7 * k] \in Nat /\ Pow2[L - 1] \in Nat
      BY <3>1, Pow2Def
    <3> QED BY <1>1, <1>2, <2>2, <3>2, <3>3 DEF c
  <2>4. ASSUME k > K PROVE FALSE
    <3>1. 7 * (k - 1) \in Nat /\ L <= 7 * (k - 1) /\ k > 1
      BY <1>2, <1>3, <2>1, <2>4
    <3>2. Pow2[L] <= Pow2[7 * (k - 1)]
      BY <1>3, <3>1, Pow2Divides
    <3>3. Pow2[L] \in Nat /\ Pow2[7 * (k - 1)] \in Nat
      BY <1>3, <3>1, Pow2Def
    <3> QED BY <1>1, <1>2, <2>2, <3>1, <3>2, <3>3 DEF c
  <2>5. k = K
    BY <1>2, <2>1, <2>3, <2>4
  <2>6. IntSize(n) = K
    BY <1>4 DEF IntSize, K, L
  <2> QED BY <1>1, <2>5, <2>6 DEF k
<1>5. CASE n >= 0
  <2> DEFINE Fits(j) == c < Pow2[7 * j] /\ (j > 1 => c >= Pow2[7 * (j - 1)])
  <2>1. c = n /\ c < Pow2[L - 1]
    BY <1>5, CodeType DEF c, L
  <2>2. k \in 1 .. L
    <3> SUFFICES ASSUME k > L PROVE FALSE
      BY <1>2, <1>3
    <3>1. k > 1 /\ 7 * (k - 1) \in Nat /\ L - 1 \in Nat /\ L - 1 <= 7 * (k - 1)
      BY <1>2, <1>3
    <3>2. Pow2[L - 1] <= Pow2[7 * (k - 1)]
      BY <3>1, Pow2Divides
    <3>3. Pow2[L - 1] \in Nat /\ Pow2[7 * (k - 1)] \in Nat
      BY <3>1, Pow2Def
    <3> QED BY <1>1, <1>2, <2>1, <3>1, <3>2, <3>3 DEF c
  <2>3. ASSUME NEW i \in Nat \ {0}, NEW j \in Nat \ {0},
               Fits(i), Fits(j), i < j
        PROVE  FALSE
    <3>1. 7 * i \in Nat /\ 7 * (j - 1) \in Nat /\ 7 * i <= 7 * (j - 1) /\ j > 1
      BY <2>3
    <3>2. Pow2[7 * i] <= Pow2[7 * (j - 1)]
      BY <3>1, Pow2Divides
    <3>3. Pow2[7 * i] \in Nat /\ Pow2[7 * (j - 1)] \in Nat
      BY <3>1, Pow2Def
    <3> QED BY <1>1, <2>3, <3>1, <3>2, <3>3 DEF c
  <2>4. Fits(k)
    BY <1>2
  <2> HIDE DEF Fits
  <2>5. ASSUME NEW j \in 1 .. L, Fits(j) PROVE j = k
    <3>1. j \in Nat \ {0} /\ k \in Nat \ {0}
      BY <1>2, <1>3
    <3>2. ~(j < k) /\ ~(k < j)
      BY <2>3, <2>4, <2>5, <3>1
    <3> QED BY <3>1, <3>2
  <2>6. (CHOOSE j \in 1 .. L : Fits(j)) = k
    BY <2>2, <2>4, <2>5
  <2>7. IntSize(n) = CHOOSE j \in 1 .. L : Fits(j)
    <3>1. n \in Int
      BY Widths
    <3>2. ~(n < 0)
      BY <1>5, <3>1
    <3> QED BY <2>1, <3>2 DEF IntSize, Fits, L
  <2> QED BY <1>1, <2>6, <2>7 DEF k
<1>6. n \in Int
  BY Widths
<1> QED BY <1>4, <1>5, <1>6

-----------------------------------------------------------------------------
(* The messages a client sends and a server answers with *)

ShortText == {t \in Seq(0 .. 127) : Len(t) \in Int32}

TextMsg(T, t)   == Set(New(T), 3, t)
SumMsg(n)       == Set(New(AddRet), 3, n)
PairMsg(a, b)   == Set(Set(New(Add), 3, a), 4, b)

TextSaid(T, t)  == [type |-> T, fields |-> [f \in {3} |-> t]]
SumSaid(n)      == [type |-> AddRet, fields |-> [f \in {3} |-> <<n>>]]
PairSaid(a, b)  == [type |-> Add,
                    fields |-> [f \in {3, 4} |-> IF f = 3 THEN <<a>> ELSE <<b>>]]

TextBytes(t)    == <<26>> \o (WriteInt(Len(t)) \o t)
NumberBytes(f, n) == <<8 * f>> \o WriteInt(n)
PairBytes(a, b) == NumberBytes(3, a) \o NumberBytes(4, b)

LEMMA Classes ==
  /\ \A T \in {Echo, C_Echo} :
       /\ T.required = {3} /\ Fields(T) = {1, 2, 3} /\ T.text = TRUE
       /\ \A f : IsText(T, f) <=> f = 3
  /\ AddRet.required = {3} /\ Fields(AddRet) = {1, 2, 3}
  /\ Add.required = {3, 4} /\ Fields(Add) = {1, 2, 3, 4}
  /\ \A T \in {Add, AddRet} : T.text = FALSE /\ \A f : ~IsText(T, f)
  /\ \A T \in {Echo, C_Echo, Add, AddRet} : T.service_id = 1000
  /\ Echo.command_id = 1 /\ C_Echo.command_id = 2
  /\ Add.command_id = 1001 /\ AddRet.command_id = 1002
<1>1. 3 .. 3 = {3} /\ 3 .. 4 = {3, 4}
  OBVIOUS
<1>2. 2 + 1 = 3 /\ 2 + 2 = 4
  OBVIOUS
<1> QED BY <1>1, <1>2 DEF Echo, C_Echo, Add, AddRet, Class, Fields, IsText

LEMMA ClassesDiffer ==
  /\ Echo # C_Echo /\ Echo # Add /\ Echo # AddRet
  /\ C_Echo # Add /\ C_Echo # AddRet /\ Add # AddRet
<1>1. \A S, T : S.command_id # T.command_id => S # T
  OBVIOUS
<1> QED BY <1>1, Classes

LEMMA TextMsgFields ==
  ASSUME NEW T \in {Echo, C_Echo}, NEW t
  PROVE  LET m == TextMsg(T, t)
         IN /\ m.type = T /\ m.has = {3}
            /\ m.value[3] = t /\ DOMAIN m.value = {1, 2, 3}
            /\ service_id(m) = 1000 /\ command_id(m) = T.command_id
            /\ Said(m) = TextSaid(T, t)
<1> DEFINE m == TextMsg(T, t)
<1>1. m.type = T /\ m.has = {3}
  BY DEF TextMsg, Set, New
<1>2. /\ m.value = [New(T).value EXCEPT ![3] = t]
      /\ New(T).value = [f \in Fields(T) |->
                           IF f = 1 THEN T.service_id
                           ELSE IF f = 2 THEN T.command_id
                           ELSE IF IsText(T, f) THEN <<>> ELSE 0]
  BY DEF TextMsg, Set, New
<1>3. Fields(T) = {1, 2, 3} /\ T.required = {3} /\ T.service_id = 1000
  BY Classes
<1>4. /\ m.value[3] = t /\ DOMAIN m.value = {1, 2, 3}
      /\ m.value[1] = 1000 /\ m.value[2] = T.command_id
  BY <1>2, <1>3
<1>5. Said(m) = TextSaid(T, t)
  <2>1. IsText(T, 3)
    BY Classes
  <2> HIDE DEF m
  <2> QED BY <1>1, <1>3, <1>4, <2>1 DEF Said, TextSaid
<1> QED BY <1>1, <1>4, <1>5 DEF service_id, command_id

LEMMA SumMsgFields ==
  ASSUME NEW n
  PROVE  LET m == SumMsg(n)
         IN /\ m.type = AddRet /\ m.has = {3}
            /\ m.value[3] = n /\ DOMAIN m.value = {1, 2, 3}
            /\ service_id(m) = 1000 /\ command_id(m) = 1002
            /\ Said(m) = SumSaid(n)
<1> DEFINE m == SumMsg(n)
           T == AddRet
<1>1. m.type = T /\ m.has = {3}
  BY DEF SumMsg, Set, New
<1>2. /\ m.value = [New(T).value EXCEPT ![3] = n]
      /\ New(T).value = [f \in Fields(T) |->
                           IF f = 1 THEN T.service_id
                           ELSE IF f = 2 THEN T.command_id
                           ELSE IF IsText(T, f) THEN <<>> ELSE 0]
  BY DEF SumMsg, Set, New
<1>3. /\ Fields(T) = {1, 2, 3} /\ T.required = {3} /\ T.service_id = 1000
      /\ T.command_id = 1002
  BY Classes
<1>4. /\ m.value[3] = n /\ DOMAIN m.value = {1, 2, 3}
      /\ m.value[1] = 1000 /\ m.value[2] = 1002
  BY <1>2, <1>3
<1>5. Said(m) = SumSaid(n)
  <2>1. ~IsText(T, 3)
    BY Classes
  <2> HIDE DEF m
  <2> QED BY <1>1, <1>3, <1>4, <2>1 DEF Said, SumSaid
<1> QED BY <1>1, <1>4, <1>5 DEF service_id, command_id

LEMMA PairMsgFields ==
  ASSUME NEW a, NEW b
  PROVE  LET m == PairMsg(a, b)
         IN /\ m.type = Add /\ m.has = {3, 4}
            /\ m.value[3] = a /\ m.value[4] = b
            /\ DOMAIN m.value = {1, 2, 3, 4}
            /\ service_id(m) = 1000 /\ command_id(m) = 1001
            /\ Said(m) = PairSaid(a, b)
<1> DEFINE m == PairMsg(a, b)
           T == Add
<1>1. m.type = T /\ m.has = {3, 4}
  BY DEF PairMsg, Set, New
<1>2. /\ m.value = [[New(T).value EXCEPT ![3] = a] EXCEPT ![4] = b]
      /\ New(T).value = [f \in Fields(T) |->
                           IF f = 1 THEN T.service_id
                           ELSE IF f = 2 THEN T.command_id
                           ELSE IF IsText(T, f) THEN <<>> ELSE 0]
  BY DEF PairMsg, Set, New
<1>3. /\ Fields(T) = {1, 2, 3, 4} /\ T.required = {3, 4}
      /\ T.service_id = 1000 /\ T.command_id = 1001
  BY Classes
<1>4. /\ m.value[3] = a /\ m.value[4] = b /\ DOMAIN m.value = {1, 2, 3, 4}
      /\ m.value[1] = 1000 /\ m.value[2] = 1001
  BY <1>2, <1>3
<1>5. Said(m) = PairSaid(a, b)
  <2>1. \A f : ~IsText(T, f)
    BY Classes
  <2>2. [f \in {3, 4} |-> IF IsText(T, f) THEN m.value[f] ELSE <<m.value[f]>>]
          = [f \in {3, 4} |-> IF f = 3 THEN <<a>> ELSE <<b>>]
    <3> HIDE DEF m
    <3> QED BY <1>4, <2>1
  <2> HIDE DEF m
  <2> QED BY <1>1, <1>3, <2>2 DEF Said, PairSaid
<1> QED BY <1>1, <1>4, <1>5 DEF service_id, command_id

-----------------------------------------------------------------------------
(* Writing *)

LEMMA NumberBytesType ==
  ASSUME NEW f \in {3, 4}, NEW n \in Int32
  PROVE  /\ WriteInt(n) \in Seq(Byte) /\ Len(WriteInt(n)) \in Nat \ {0}
         /\ NumberBytes(f, n) \in Seq(Byte)
         /\ Len(NumberBytes(f, n)) = 1 + Len(WriteInt(n))
         /\ NumberBytes(f, n)[1] = 8 * f
         /\ \A i \in 1 .. Len(WriteInt(n)) :
              NumberBytes(f, n)[1 + i] = WriteInt(n)[i]
<1> DEFINE w == WriteInt(n)
<1>1. /\ w \in Seq(Byte) /\ Len(w) \in Nat \ {0}
  <2>1. Code(n) \in Nat /\ w = Varint[Code(n)]
    BY CodeType
  <2>2. w \in Seq(Byte) /\ Len(w) >= 1
    BY <2>1, VarintForm DEF HasVarintForm
  <2> HIDE DEF w
  <2> QED BY <2>2, LenProperties
<1>2. 8 * f \in Byte
  BY DEF Byte
<1> HIDE DEF w
<1>3. <<8 * f>> \in Seq(Byte) /\ Len(<<8 * f>>) = 1 /\ <<8 * f>>[1] = 8 * f
  <2> DEFINE b == 8 * f
  <2> HIDE DEF b, Byte
  <2>1. b \in Byte
    BY <1>2 DEF b
  <2>2. <<b>> \in Seq(Byte) /\ Len(<<b>>) = 1 /\ <<b>>[1] = b
    BY <2>1
  <2> QED BY <2>2 DEF b
<1>4. /\ <<8 * f>> \o w \in Seq(Byte)
      /\ Len(<<8 * f>> \o w) = 1 + Len(w)
      /\ \A i \in 1 .. 1 + Len(w) :
           (<<8 * f>> \o w)[i] = IF i <= 1 THEN <<8 * f>>[i] ELSE w[i - 1]
  BY <1>1, <1>3, ConcatProperties
<1>5. (<<8 * f>> \o w)[1] = 8 * f
  BY <1>1, <1>3, <1>4
<1>6. ASSUME NEW i \in 1 .. Len(w) PROVE (<<8 * f>> \o w)[1 + i] = w[i]
  <2>1. 1 + i \in 1 .. 1 + Len(w) /\ ~(1 + i <= 1) /\ (1 + i) - 1 = i
    BY <1>1
  <2> QED BY <1>4, <2>1
<1> QED BY <1>1, <1>4, <1>5, <1>6 DEF NumberBytes, w

LEMMA TextType ==
  ASSUME NEW t \in ShortText
  PROVE  /\ t \in Seq(Byte) /\ Len(t) \in Nat /\ Len(t) \in Int32
         /\ WriteInt(Len(t)) = Varint[Len(t)]
<1>1. t \in Seq(0 .. 127) /\ Len(t) \in Int32
  BY DEF ShortText
<1>2. Len(t) \in Nat
  BY <1>1, LenProperties
<1>3. t \in Seq(Byte)
  <2>1. 0 .. 127 \subseteq Byte
    BY DEF Byte
  <2> HIDE DEF Byte
  <2> QED BY <1>1, <2>1, SeqMonotonic
<1> QED BY <1>1, <1>2, <1>3 DEF WriteInt

LEMMA TextBytesType ==
  ASSUME NEW t \in ShortText
  PROVE  LET w == Varint[Len(t)]
             k == Len(w)
         IN /\ w \in Seq(Byte) /\ k \in Nat \ {0}
            /\ TextBytes(t) \in Seq(Byte)
            /\ Len(TextBytes(t)) = (1 + k) + Len(t)
            /\ TextBytes(t)[1] = 26
            /\ \A i \in 1 .. k : TextBytes(t)[1 + i] = w[i]
            /\ \A i \in 1 .. Len(t) : TextBytes(t)[(1 + k) + i] = t[i]
<1> DEFINE w == Varint[Len(t)]
           k == Len(w)
           x == <<26>> \o (w \o t)
<1>1. /\ t \in Seq(Byte) /\ Len(t) \in Nat /\ WriteInt(Len(t)) = w
  BY TextType
<1>2. w \in Seq(Byte) /\ Len(w) >= 1
  BY <1>1, VarintForm DEF HasVarintForm
<1> HIDE DEF w
<1>3. k \in Nat \ {0}
  BY <1>2, LenProperties
<1>4. <<26>> \in Seq(Byte) /\ Len(<<26>>) = 1 /\ <<26>>[1] = 26
  <2>1. 26 \in Byte
    BY DEF Byte
  <2> HIDE DEF Byte
  <2> QED BY <2>1
<1>5. /\ w \o t \in Seq(Byte) /\ Len(w \o t) = k + Len(t)
      /\ \A i \in 1 .. k + Len(t) :
           (w \o t)[i] = IF i <= k THEN w[i] ELSE t[i - k]
  BY <1>1, <1>2, ConcatProperties
<1>6. /\ x \in Seq(Byte) /\ Len(x) = 1 + (k + Len(t))
      /\ \A i \in 1 .. 1 + (k + Len(t)) :
           x[i] = IF i <= 1 THEN <<26>>[i] ELSE (w \o t)[i - 1]
  BY <1>4, <1>5, ConcatProperties
<1> HIDE DEF x, k
<1>7. x[1] = 26
  BY <1>1, <1>3, <1>4, <1>6
<1>8. ASSUME NEW i \in 1 .. k PROVE x[1 + i] = w[i]
  <2>1. /\ 1 + i \in 1 .. 1 + (k + Len(t)) /\ ~(1 + i <= 1)
        /\ (1 + i) - 1 = i /\ i \in 1 .. k + Len(t) /\ i <= k
    BY <1>1, <1>3
  <2> QED BY <1>5, <1>6, <2>1
<1>9. ASSUME NEW i \in 1 .. Len(t) PROVE x[(1 + k) + i] = t[i]
  <2>1. /\ (1 + k) + i \in 1 .. 1 + (k + Len(t)) /\ ~((1 + k) + i <= 1)
        /\ ((1 + k) + i) - 1 = k + i /\ k + i \in 1 .. k + Len(t)
        /\ ~(k + i <= k) /\ (k + i) - k = i
    BY <1>1, <1>3
  <2> QED BY <1>5, <1>6, <2>1
<1>10. Len(x) = (1 + k) + Len(t)
  BY <1>1, <1>3, <1>6
<1>11. TextBytes(t) = x
  BY <1>1 DEF TextBytes, x
<1> QED BY <1>2, <1>3, <1>6, <1>7, <1>8, <1>9, <1>10, <1>11 DEF w, k

LEMMA TextWritten ==
  ASSUME NEW T \in {Echo, C_Echo}, NEW t \in ShortText
  PROVE  /\ Serialize(TextMsg(T, t)) = TextBytes(t)
         /\ ByteSize(TextMsg(T, t)) = Len(TextBytes(t))
<1> DEFINE m == TextMsg(T, t)
<1>1. m.type = T /\ m.has = {3} /\ m.value[3] = t
  BY TextMsgFields
<1>2. Fields(T) = {1, 2, 3} /\ IsText(T, 3)
  BY Classes
<1> HIDE DEF m
<1>3. WriteField(m, 1) = <<>> /\ WriteField(m, 2) = <<>>
  BY <1>1 DEF WriteField
<1>4. WriteField(m, 3) = TextBytes(t)
  <2>1. Tag(T, 3) = 26
    BY <1>2 DEF Tag
  <2> QED BY <1>1, <1>2, <2>1 DEF WriteField, TextBytes
<1>5. Serialize(m) = ((<<>> \o <<>>) \o TextBytes(t)) \o <<>>
  <2>1. 4 \notin Fields(m.type)
    BY <1>1, <1>2
  <2> QED BY <1>3, <1>4, <2>1 DEF Serialize
<1>6. TextBytes(t) \in Seq(Byte)
  BY TextBytesType
<1>7. Serialize(m) = TextBytes(t)
  <2>1. <<>> \in Seq(Byte)
    BY EmptySeq
  <2> HIDE DEF Byte
  <2>2. <<>> \o <<>> = <<>>
    BY <2>1, ConcatEmptySeq
  <2> QED BY <1>5, <1>6, <2>2, ConcatEmptySeq
<1>8. ByteSize(m) = 0 + 0 + (1 + (IntSize(Len(t)) + Len(t))) + 0
  BY <1>1, <1>2 DEF ByteSize, FieldSize
<1>9. IntSize(Len(t)) = Len(Varint[Len(t)])
  BY TextType, IntSizes
<1>10. /\ Len(TextBytes(t)) = (1 + Len(Varint[Len(t)])) + Len(t)
       /\ Len(Varint[Len(t)]) \in Nat /\ Len(t) \in Nat
  BY TextType, TextBytesType
<1>11. ByteSize(m) = Len(TextBytes(t))
  BY <1>8, <1>9, <1>10
<1> QED BY <1>7, <1>11 DEF m

LEMMA SumWritten ==
  ASSUME NEW n \in Int32
  PROVE  Serialize(SumMsg(n)) = NumberBytes(3, n)
<1> DEFINE m == SumMsg(n)
<1>1. m.type = AddRet /\ m.has = {3} /\ m.value[3] = n
  BY SumMsgFields
<1>2. Fields(AddRet) = {1, 2, 3} /\ ~IsText(AddRet, 3)
  BY Classes
<1> HIDE DEF m
<1>3. WriteField(m, 1) = <<>> /\ WriteField(m, 2) = <<>>
  BY <1>1 DEF WriteField
<1>4. WriteField(m, 3) = NumberBytes(3, n)
  <2>1. Tag(AddRet, 3) = 8 * 3
    BY <1>2 DEF Tag
  <2> QED BY <1>1, <1>2, <2>1 DEF WriteField, NumberBytes
<1>5. Serialize(m) = ((<<>> \o <<>>) \o NumberBytes(3, n)) \o <<>>
  <2>1. 4 \notin Fields(m.type)
    BY <1>1, <1>2
  <2> QED BY <1>3, <1>4, <2>1 DEF Serialize
<1>6. NumberBytes(3, n) \in Seq(Byte)
  BY NumberBytesType
<1>7. <<>> \in Seq(Byte)
  BY EmptySeq
<1> HIDE DEF Byte
<1>8. <<>> \o <<>> = <<>>
  BY <1>7, ConcatEmptySeq
<1> QED BY <1>5, <1>6, <1>8, ConcatEmptySeq DEF m

LEMMA PairWritten ==
  ASSUME NEW a \in Int32, NEW b \in Int32
  PROVE  /\ Serialize(PairMsg(a, b)) = PairBytes(a, b)
         /\ ByteSize(PairMsg(a, b)) = Len(PairBytes(a, b))
         /\ PairBytes(a, b) \in Seq(Byte)
         /\ Len(PairBytes(a, b))
              = Len(NumberBytes(3, a)) + Len(NumberBytes(4, b))
<1> DEFINE m == PairMsg(a, b)
           x == NumberBytes(3, a)
           y == NumberBytes(4, b)
<1>1. m.type = Add /\ m.has = {3, 4} /\ m.value[3] = a /\ m.value[4] = b
  BY PairMsgFields
<1>2. Fields(Add) = {1, 2, 3, 4} /\ \A f : ~IsText(Add, f)
  BY Classes
<1> HIDE DEF m
<1>3. WriteField(m, 1) = <<>> /\ WriteField(m, 2) = <<>>
  BY <1>1 DEF WriteField
<1>4. WriteField(m, 3) = x /\ WriteField(m, 4) = y
  <2>1. Tag(Add, 3) = 8 * 3 /\ Tag(Add, 4) = 8 * 4
    BY <1>2 DEF Tag
  <2> QED BY <1>1, <1>2, <2>1 DEF WriteField, NumberBytes
<1>5. Serialize(m) = ((<<>> \o <<>>) \o x) \o y
  <2>1. 4 \in Fields(m.type)
    BY <1>1, <1>2
  <2> HIDE DEF x, y
  <2> QED BY <1>3, <1>4, <2>1 DEF Serialize
<1>6. /\ x \in Seq(Byte) /\ Len(x) = 1 + Len(WriteInt(a))
      /\ y \in Seq(Byte) /\ Len(y) = 1 + Len(WriteInt(b))
      /\ Len(WriteInt(a)) \in Nat /\ Len(WriteInt(b)) \in Nat
  BY NumberBytesType
<1>7. <<>> \in Seq(Byte)
  BY EmptySeq
<1>8. ByteSize(m) = 0 + 0 + (1 + IntSize(a)) + (1 + IntSize(b))
  BY <1>1, <1>2 DEF ByteSize, FieldSize
<1> HIDE DEF Byte, x, y
<1>9. <<>> \o <<>> = <<>>
  BY <1>7, ConcatEmptySeq
<1>10. Serialize(m) = x \o y
  BY <1>5, <1>6, <1>9, ConcatEmptySeq
<1>11. x \o y \in Seq(Byte) /\ Len(x \o y) = Len(x) + Len(y)
  BY <1>6, ConcatProperties
<1>12. ByteSize(m) = Len(x \o y)
  BY <1>6, <1>8, <1>11, IntSizes
<1> QED BY <1>10, <1>11, <1>12 DEF PairBytes, x, y, m

-----------------------------------------------------------------------------
(* Reading *)

\* The varint of n begins at p, and the end of s cuts it off: nothing is read.
CutOff(s, p, n) ==
  /\ s \in Seq(Nat) /\ n \in Nat /\ p \in Nat \ {0}
  /\ Len(s) < (p + Len(Varint[n])) - 1
  /\ \A i \in 1 .. Len(Varint[n]) :
       (p + i) - 1 <= Len(s) => s[(p + i) - 1] = Varint[n][i]

LEMMA VarintCutOff ==
  ASSUME NEW s, NEW p, NEW n, CutOff(s, p, n)
  PROVE  VarintEnd(s, p) = 0
<1> USE DEF CutOff
<1> DEFINE v == Varint[n]
<1>1. Len(v) \in Nat \ {0} /\ \A i \in 1 .. Len(v) : v[i] < 128 <=> i = Len(v)
  BY VarintForm, LenProperties DEF HasVarintForm
<1> HIDE DEF v
<1>2. ASSUME NEW j \in p .. Len(s) PROVE ~(s[j] < 128)
  <2> DEFINE i == (j - p) + 1
  <2>1. i \in 1 .. Len(v) /\ i # Len(v) /\ (p + i) - 1 = j /\ j <= Len(s)
    BY <1>1, LenProperties DEF v
  <2> HIDE DEF i
  <2>2. s[j] = v[i]
    BY <2>1 DEF v
  <2> QED BY <1>1, <2>1, <2>2
<1> QED BY <1>2, VarintCut

\* The bytes of s from place p on are the first of v.
Begins(s, p, v) ==
  /\ p <= Len(s)
  /\ \A i \in 1 .. Len(v) : (p + i) - 1 <= Len(s) => s[(p + i) - 1] = v[i]

LEMMA ReadsNumber ==
  ASSUME NEW T \in {Add, AddRet}, NEW f \in {3, 4}, NEW n \in Int32,
         NEW s \in Seq(Nat), NEW p \in Nat \ {0},
         Begins(s, p, NumberBytes(f, n))
  PROVE  LET v == NumberBytes(f, n)
         IN /\ Len(s) >= (p + Len(v)) - 1 =>
                 ReadField(T, s, p)
                   = [field |-> f, next |-> p + Len(v), value |-> n]
            /\ Len(s) < (p + Len(v)) - 1 => ReadField(T, s, p).next = 0
<1> DEFINE v == NumberBytes(f, n)
           w == WriteInt(n)
           e == VarintEnd(s, p + 1)
<1>1. /\ w \in Seq(Byte) /\ Len(w) \in Nat \ {0} /\ Len(v) = 1 + Len(w)
      /\ v[1] = 8 * f /\ \A i \in 1 .. Len(w) : v[1 + i] = w[i]
  BY NumberBytesType
<1>2. Code(n) \in Nat /\ w = Varint[Code(n)]
  BY CodeType
<1>3. Len(s) \in Nat /\ p <= Len(s) /\ p + 1 \in Nat \ {0}
  BY LenProperties DEF Begins
<1> HIDE DEF v, w
<1>4. s[p] \div 8 = f
  <2>1. s[p] = v[1]
    <3>1. (p + 1) - 1 = p /\ 1 \in 1 .. Len(v) /\ p <= Len(s)
      BY <1>1, <1>3
    <3> QED BY <3>1 DEF Begins, v
  <2> QED BY <1>1, <2>1
<1>5. ~IsText(T, f)
  BY Classes
<1>6. ASSUME NEW i \in 1 .. Len(w), ((p + 1) + i) - 1 <= Len(s)
      PROVE  s[((p + 1) + i) - 1] = w[i]
  <2>1. 1 + i \in 1 .. Len(v) /\ (p + (1 + i)) - 1 = ((p + 1) + i) - 1
    BY <1>1, <1>3
  <2>2. s[(p + (1 + i)) - 1] = v[1 + i]
    BY <1>6, <2>1 DEF Begins, v
  <2> QED BY <1>1, <2>1, <2>2
<1>7. CASE Len(s) >= (p + Len(v)) - 1
  <2>1. Holds(s, p + 1, w)
    <3>1. ((p + 1) + Len(w)) - 1 <= Len(s)
      BY <1>1, <1>3, <1>7
    <3>2. \A i \in 1 .. Len(w) : ((p + 1) + i) - 1 <= Len(s)
      BY <1>1, <1>3, <3>1
    <3> QED BY <1>6, <3>1, <3>2 DEF Holds
  <2>2. e = ((p + 1) + Len(w)) - 1
    BY <1>2, <1>3, <2>1, VarintEnds
  <2>3. ReadInt(s, p + 1, e) = n
    <3> HIDE DEF e
    <3> QED BY <1>3, <2>1, <2>2, IntReads DEF w
  <2> HIDE DEF e
  <2>4. e # 0 /\ ~(e > Len(s)) /\ e + 1 = p + Len(v)
    BY <1>1, <1>3, <1>7, <2>2
  <2>5. ReadField(T, s, p) = [field |-> f, next |-> p + Len(v), value |-> n]
    BY <1>4, <1>5, <2>3, <2>4 DEF ReadField, e
  <2> QED BY <1>3, <1>7, <2>5, <1>1 DEF v
<1>8. CASE Len(s) < (p + Len(v)) - 1
  <2>1. Len(s) < ((p + 1) + Len(w)) - 1
    BY <1>1, <1>3, <1>8
  <2>2. e = 0
    <3>1. CutOff(s, p + 1, Code(n))
      BY <1>2, <1>3, <1>6, <2>1 DEF CutOff
    <3> QED BY <3>1, VarintCutOff
  <2>3. ReadField(T, s, p).next = 0
    BY <1>4, <2>2 DEF ReadField
  <2> QED BY <1>3, <1>8, <2>3, <1>1 DEF v
<1>9. \/ Len(s) >= (p + Len(v)) - 1
      \/ Len(s) < (p + Len(v)) - 1
  BY <1>1, <1>3
<1> QED BY <1>7, <1>8, <1>9

LEMMA ReadsText ==
  ASSUME NEW T \in {Echo, C_Echo}, NEW t \in ShortText, NEW s \in Seq(Nat),
         Begins(s, 1, TextBytes(t))
  PROVE  LET v == TextBytes(t)
         IN /\ Len(s) = Len(v) =>
                 ReadField(T, s, 1)
                   = [field |-> 3, next |-> Len(s) + 1, value |-> t]
            /\ Len(s) < Len(v) => ReadField(T, s, 1).next = 0
<1> DEFINE v == TextBytes(t)
           w == Varint[Len(t)]
           k == Len(w)
           e == VarintEnd(s, 2)
<1>1. /\ k \in Nat \ {0} /\ Len(v) = (1 + k) + Len(t) /\ v[1] = 26
      /\ \A i \in 1 .. k : v[1 + i] = w[i]
      /\ \A i \in 1 .. Len(t) : v[(1 + k) + i] = t[i]
  BY TextBytesType
<1>2. t \in Seq(Byte) /\ Len(t) \in Nat
  BY TextType
<1>3. Len(s) \in Nat /\ 1 <= Len(s)
  BY LenProperties DEF Begins
<1>4. ASSUME NEW i \in 1 .. Len(v), i <= Len(s) PROVE s[i] = v[i]
  <2>1. (1 + i) - 1 = i
    OBVIOUS
  <2> QED BY <1>4, <2>1 DEF Begins
<1> HIDE DEF v, w, k
<1>5. s[1] \div 8 = 3
  <2>1. s[1] = 26
    BY <1>1, <1>2, <1>3, <1>4
  <2> QED BY <2>1
<1>6. IsText(T, 3)
  BY Classes
<1>7. ASSUME NEW i \in 1 .. Len(w), (2 + i) - 1 <= Len(s)
      PROVE  s[(2 + i) - 1] = w[i]
  <2>1. 1 + i \in 1 .. Len(v) /\ 1 + i <= Len(s) /\ (2 + i) - 1 = 1 + i
    BY <1>1, <1>2, <1>7 DEF k
  <2> QED BY <1>1, <1>4, <2>1 DEF k
<1>8. CASE Len(s) < 1 + k
  <2>1. Len(s) < (2 + Len(w)) - 1
    BY <1>1, <1>3, <1>8 DEF k
  <2>2. e = 0
    <3>1. \A i \in 1 .. Len(w) : (2 + i) - 1 <= Len(s) => s[(2 + i) - 1] = w[i]
      BY <1>7
    <3>2. CutOff(s, 2, Len(t))
      BY <1>2, <2>1, <3>1 DEF w, CutOff
    <3> QED BY <3>2, VarintCutOff
  <2>3. ReadField(T, s, 1).next = 0
    BY <2>2 DEF ReadField
  <2>4. Len(s) # Len(v)
    BY <1>1, <1>2, <1>3, <1>8
  <2> QED BY <2>3, <2>4 DEF v
<1>9. CASE Len(s) >= 1 + k
  <2>1. Holds(s, 2, w)
    <3>1. (2 + Len(w)) - 1 <= Len(s)
      BY <1>1, <1>3, <1>9 DEF k
    <3>2. \A i \in 1 .. Len(w) : (2 + i) - 1 <= Len(s)
      BY <1>1, <1>3, <1>9 DEF k
    <3> QED BY <1>7, <3>1, <3>2 DEF Holds
  <2>2. e = 1 + k
    <3>1. e = (2 + Len(w)) - 1
      BY <1>2, <2>1, VarintEnds DEF w
    <3> QED BY <1>1, <3>1 DEF k
  <2>3. Unsigned(s, 2, 1 + k) = Len(t)
    <3>1. Unsigned(s, 2, (2 + Len(w)) - 1) = Len(t)
      BY <1>2, <2>1, UnsignedReads DEF w
    <3>2. (2 + Len(w)) - 1 = 1 + k
      BY <1>1 DEF k
    <3> QED BY <3>1, <3>2
  <2> HIDE DEF e
  <2>4. e # 0 /\ e + Unsigned(s, 2, e) = Len(v)
    BY <1>1, <1>2, <2>2, <2>3
  <2>5. 1 + 1 = 2
    OBVIOUS
  <2>6. CASE Len(s) < Len(v)
    <3>1. Len(v) > Len(s)
      BY <1>1, <1>2, <1>3, <2>6
    <3>2. ReadField(T, s, 1).next = 0
      BY <1>5, <1>6, <2>4, <2>5, <3>1 DEF ReadField, e
    <3> QED BY <1>1, <1>2, <1>3, <2>6, <3>2 DEF v
  <2>7. CASE Len(s) = Len(v)
    <3>1. ~(Len(v) > Len(s))
      BY <1>3, <2>7
    <3>2. SubSeq(s, e + 1, Len(v)) = t
      <4> DEFINE c == SubSeq(s, e + 1, Len(v))
      <4>1. \A i \in e + 1 .. Len(v) : s[i] \in Nat
        BY <1>1, <1>2, <2>2, <2>7, ElementOfSeq
      <4>2. /\ c \in Seq(Nat)
            /\ Len(c) = IF e + 1 <= Len(v) THEN (Len(v) - (e + 1)) + 1 ELSE 0
            /\ \A i \in 1 .. (Len(v) - (e + 1)) + 1 : c[i] = s[((e + 1) + i) - 1]
        <5>1. e + 1 \in Int /\ Len(v) \in Int
          BY <1>1, <1>2, <2>2
        <5> QED BY <4>1, <5>1, SubSeqProperties
      <4>3. Len(c) = Len(t)
        BY <1>1, <1>2, <2>2, <4>2
      <4>4. ASSUME NEW i \in 1 .. Len(t) PROVE c[i] = t[i]
        <5>1. /\ i \in 1 .. (Len(v) - (e + 1)) + 1
              /\ ((e + 1) + i) - 1 = (1 + k) + i
              /\ (1 + k) + i \in 1 .. Len(v) /\ (1 + k) + i <= Len(s)
          BY <1>1, <1>2, <2>2, <2>7
        <5> HIDE DEF c
        <5>2. c[i] = s[((e + 1) + i) - 1]
          BY <4>2, <5>1
        <5>3. s[(1 + k) + i] = v[(1 + k) + i]
          BY <1>4, <5>1
        <5> QED BY <1>1, <5>1, <5>2, <5>3
      <4>5. t \in Seq(Nat)
        <5>1. Byte \subseteq Nat
          BY DEF Byte
        <5> QED BY <1>2, <5>1, SeqMonotonic
      <4> HIDE DEF c
      <4> QED BY <4>2, <4>3, <4>4, <4>5, SeqEqual DEF c
    <3>3. ReadField(T, s, 1) = [field |-> 3, next |-> Len(v) + 1, value |-> t]
      BY <1>5, <1>6, <2>4, <2>5, <3>1, <3>2 DEF ReadField, e
    <3> QED BY <1>3, <2>7, <3>3 DEF v
  <2>8. CASE Len(s) > Len(v)
    <3>1. Len(s) # Len(v) /\ ~(Len(s) < Len(v))
      BY <1>1, <1>2, <1>3, <2>8
    <3> QED BY <3>1 DEF v
  <2>9. Len(s) < Len(v) \/ Len(s) = Len(v) \/ Len(s) > Len(v)
    BY <1>1, <1>2, <1>3
  <2> QED BY <2>6, <2>7, <2>8, <2>9
<1>10. Len(s) < 1 + k \/ Len(s) >= 1 + k
  BY <1>1, <1>3
<1> QED BY <1>8, <1>9, <1>10

-----------------------------------------------------------------------------
(* Parsing *)

LEMMA Least ==
  ASSUME NEW A \in SUBSET Nat, A # {}
  PROVE  \E i \in A : \A j \in A : i <= j
<1> SUFFICES ASSUME \A i \in A : \E j \in A : j < i PROVE FALSE
  <2>1. \A i, j \in A : ~(i <= j) => j < i
    OBVIOUS
  <2> QED BY <2>1
<1> DEFINE B == {n \in Nat : n \notin A}
<1>1. ASSUME NEW n \in Nat, \A m \in Nat : m < n => m \in B PROVE n \in B
  BY <1>1
<1> HIDE DEF B
<1>2. B \in SUBSET Nat
  BY DEF B
<1>3. B = Nat
  BY <1>1, <1>2, StrongInd
<1> QED BY <1>3 DEF B

LEMMA FieldNext ==
  ASSUME NEW T, NEW s \in Seq(Nat), NEW p \in 1 .. Len(s)
  PROVE  \/ ReadField(T, s, p).next = 0
         \/ /\ ReadField(T, s, p).next \in 1 .. Len(s) + 1
            /\ ReadField(T, s, p).next > p
<1> DEFINE e == VarintEnd(s, p + 1)
           text == IsText(T, s[p] \div 8)
           last == IF e # 0 /\ text THEN e + Unsigned(s, p + 1, e) ELSE e
<1>1. Len(s) \in Nat
  BY LenProperties
<1>2. e = 0 \/ e \in p + 1 .. Len(s)
  <2> DEFINE ends == {i \in p + 1 .. Len(s) : s[i] < 128}
  <2>1. CASE ends = {}
    BY <2>1 DEF VarintEnd
  <2>2. CASE ends # {}
    <3>1. ends \in SUBSET Nat
      BY <1>1
    <3>2. e = CHOOSE i \in ends : \A j \in ends : i <= j
      BY <2>2 DEF VarintEnd
    <3> HIDE DEF ends
    <3>3. e \in ends
      BY <2>2, <3>1, <3>2, Least
    <3> QED BY <3>3 DEF ends
  <2> QED BY <2>1, <2>2
<1> HIDE DEF e
<1>3. CASE e = 0
  BY <1>3 DEF ReadField, e
<1>4. CASE e \in p + 1 .. Len(s)
  <2>1. Unsigned(s, p + 1, e) \in Nat
    <3>1. e \in Nat /\ e <= Len(s) /\ p + 1 \in 1 .. e + 1
      BY <1>1, <1>4
    <3> QED BY <3>1, UnsignedDef
  <2>2. last \in Nat /\ last >= e /\ e > p /\ e # 0
    BY <1>1, <1>4, <2>1
  <2>3. ReadField(T, s, p).next = IF last > Len(s) THEN 0 ELSE last + 1
    BY <2>2 DEF ReadField, e
  <2> HIDE DEF last
  <2> QED BY <1>1, <1>4, <2>2, <2>3
<1> QED BY <1>2, <1>3, <1>4

\* The loop over the tags.
LEMMA MergeDef ==
  ASSUME NEW T, NEW s \in Seq(Nat)
  PROVE  /\ Merge(T, s)[Len(s) + 1] = [ok |-> TRUE, fields |-> <<>>]
         /\ \A p \in 1 .. Len(s) :
              LET r == ReadField(T, s, p)
              IN /\ r.next = 0
                      => Merge(T, s)[p] = [ok |-> FALSE, fields |-> <<>>]
                 /\ r.next # 0
                      => Merge(T, s)[p]
                           = [ok |-> Merge(T, s)[r.next].ok,
                              fields |-> <<r>> \o Merge(T, s)[r.next].fields]
<1> DEFINE n == Len(s) + 1
           X == 1 .. n
           r(p) == ReadField(T, s, p)
           V == {r(p) : p \in 1 .. Len(s)}
           S == [ok : BOOLEAN, fields : Seq(V)]
           Done == [ok |-> TRUE, fields |-> <<>>]
           Fails == [ok |-> FALSE, fields |-> <<>>]
           More(p, rest) == [ok |-> rest.ok, fields |-> <<r(p)>> \o rest.fields]
           h == [p \in X |-> IF p = n \/ r(p).next = 0 THEN p ELSE r(p).next]
           G == [y \in X \X S |-> IF y[1] = n THEN Done
                                  ELSE IF r(y[1]).next = 0 THEN Fails
                                  ELSE More(y[1], y[2])]
           rank == [p \in X |-> n - p]
           Value(f) == [p \in X |-> IF p = n THEN Done
                                    ELSE IF r(p).next = 0 THEN Fails
                                    ELSE More(p, f[r(p).next])]
           v == CHOOSE f : f = Value(f)
<1>1. Len(s) \in Nat /\ n \in X
  BY LenProperties
<1>2. \A p \in X : p = n \/ p \in 1 .. Len(s)
  BY <1>1
<1>3. Done \in S /\ Fails \in S
  <2>1. <<>> \in Seq(V)
    BY EmptySeq
  <2> HIDE DEF V
  <2> QED BY <2>1
<1>4. ASSUME NEW p \in 1 .. Len(s), NEW u \in S PROVE More(p, u) \in S
  <2>1. r(p) \in V
    OBVIOUS
  <2> HIDE DEF V, r
  <2>2. <<r(p)>> \in Seq(V)
    BY <2>1
  <2>3. <<r(p)>> \o u.fields \in Seq(V)
    BY <2>2, ConcatProperties
  <2> QED BY <2>3
<1>5. ASSUME NEW p \in 1 .. Len(s), r(p).next # 0
      PROVE  r(p).next \in X /\ r(p).next > p
  BY <1>5, FieldNext
<1> HIDE DEF S, Done, Fails, More, r
<1>6. h \in [X -> X]
  <2>1. ASSUME NEW p \in X
        PROVE  (IF p = n \/ r(p).next = 0 THEN p ELSE r(p).next) \in X
    BY <1>2, <1>5
  <2> HIDE DEF X
  <2> QED BY <2>1
<1>7. G \in [X \X S -> S]
  <2>1. ASSUME NEW p \in X, NEW u \in S
        PROVE  (IF p = n THEN Done ELSE IF r(p).next = 0 THEN Fails
                ELSE More(p, u)) \in S
    BY <1>2, <1>3, <1>4
  <2> HIDE DEF X
  <2> QED BY <2>1
<1>8. WellFounded(X, S, rank, h, G)
  <2>1. S # {}
    BY <1>3
  <2>2. rank \in [X -> Nat]
    BY <1>1
  <2>3. ASSUME NEW p \in X
        PROVE  \/ rank[h[p]] < rank[p]
               \/ \A u, w \in S : G[<<p, u>>] = G[<<p, w>>]
    <3>1. CASE p = n \/ r(p).next = 0
      <4>1. \A u, w \in S : G[<<p, u>>] = G[<<p, w>>]
        <5> HIDE DEF X
        <5> QED BY <3>1
      <4> QED BY <4>1
    <3>2. CASE ~(p = n \/ r(p).next = 0)
      <4>1. h[p] = r(p).next /\ p \in 1 .. Len(s)
        BY <1>2, <3>2
      <4>2. h[p] \in X /\ h[p] > p
        BY <1>5, <3>2, <4>1
      <4> HIDE DEF h
      <4>3. rank[h[p]] = n - h[p] /\ rank[p] = n - p
        BY <4>2
      <4> QED BY <1>1, <4>2, <4>3
    <3> QED BY <3>1, <3>2
  <2> HIDE DEF X, h, G, rank
  <2> QED BY <1>6, <1>7, <2>1, <2>2, <2>3 DEF WellFounded
<1>9. \E f \in [X -> S] : \A x \in X : f[x] = G[<<x, f[h[x]]>>]
  <2> HIDE DEF X, h, G, rank
  <2> QED BY <1>8, Recursion
<1>10. PICK f \in [X -> S] : \A x \in X : f[x] = G[<<x, f[h[x]]>>]
  BY <1>9
<1>11. f = Value(f)
  <2>1. ASSUME NEW p \in X
        PROVE  f[p] = IF p = n THEN Done ELSE IF r(p).next = 0 THEN Fails
                      ELSE More(p, f[r(p).next])
    <3>1. h[p] \in X
      BY <1>6
    <3>2. f[p] = G[<<p, f[h[p]]>>] /\ f[h[p]] \in S
      <4> HIDE DEF X, h, G
      <4> QED BY <1>10, <3>1
    <3>3. G[<<p, f[h[p]]>>] = IF p = n THEN Done
                              ELSE IF r(p).next = 0 THEN Fails
                              ELSE More(p, f[h[p]])
      <4> HIDE DEF X, h
      <4> QED BY <3>2
    <3>4. ~(p = n \/ r(p).next = 0) => h[p] = r(p).next
      OBVIOUS
    <3> HIDE DEF X, h, G
    <3> QED BY <3>2, <3>3, <3>4
  <2> HIDE DEF X
  <2> QED BY <2>1
<1>12. v = Value(v)
  BY <1>11
<1>13. Merge(T, s) = v
  BY DEF Merge, v, Value, X, n, Done, Fails, More, r
<1> HIDE DEF v
<1>14. /\ v[n] = Done
       /\ \A p \in 1 .. Len(s) : v[p] = IF r(p).next = 0 THEN Fails
                                        ELSE More(p, v[r(p).next])
  <2>1. \A p \in 1 .. Len(s) : p \in X /\ p # n
    BY <1>1
  <2> HIDE DEF X
  <2> QED BY <1>1, <1>12, <2>1
<1> QED BY <1>13, <1>14 DEF Done, Fails, More, r

\* s is the field r and no more, or r1 and r2.
IsField(T, s, r) ==
  /\ s \in Seq(Nat) /\ 1 <= Len(s)
  /\ r = ReadField(T, s, 1) /\ r.next = Len(s) + 1

IsFields(T, s, r1, r2) ==
  /\ s \in Seq(Nat) /\ r1 = ReadField(T, s, 1) /\ r1.next \in 1 .. Len(s)
  /\ r2 = ReadField(T, s, r1.next) /\ r2.next = Len(s) + 1
  /\ r1.field # r2.field

\* s parses, as a message of T with the values v.
ParsesAs(T, s, v) ==
  /\ Parse(T, s).ok = TRUE /\ Parse(T, s).message.type = T
  /\ \A f \in Fields(T) : Parse(T, s).message.value[f] = v[f]

OneValue(T, r) ==
  [f \in Fields(T) |-> IF f = r.field THEN r.value ELSE New(T).value[f]]

TwoValues(T, r1, r2) ==
  [f \in Fields(T) |-> IF f = r1.field THEN r1.value
                       ELSE IF f = r2.field THEN r2.value
                       ELSE New(T).value[f]]

\* What has been parsed when the fields read are those of a sequence.
LEMMA ParseOne ==
  ASSUME NEW T, NEW s, NEW r, IsField(T, s, r)
  PROVE  ParsesAs(T, s, OneValue(T, r))
<1> USE DEF IsField
<1> DEFINE m == Parse(T, s).message
<1> DEFINE read == Merge(T, s)[1].fields
           Latest(f) == CHOOSE i \in DOMAIN read :
                          /\ read[i].field = f
                          /\ \A j \in DOMAIN read : read[j].field = f => j <= i
           seen == {read[i].field : i \in DOMAIN read}
<1>1. 1 \in 1 .. Len(s) /\ Len(s) + 1 # 0
  BY LenProperties
<1>2. Merge(T, s)[Len(s) + 1] = [ok |-> TRUE, fields |-> <<>>]
  BY MergeDef
<1>3. Merge(T, s)[1] = [ok |-> TRUE, fields |-> <<r>> \o <<>>]
  <2>1. r.next # 0 /\ r.next = Len(s) + 1
    BY <1>1
  <2>2. Merge(T, s)[1] = [ok |-> Merge(T, s)[r.next].ok,
                          fields |-> <<r>> \o Merge(T, s)[r.next].fields]
    BY <1>1, <2>1, MergeDef
  <2> QED BY <1>2, <2>1, <2>2
<1>4. read = <<r>> /\ Merge(T, s)[1].ok = TRUE
  <2>1. <<r>> \o <<>> = <<r>>
    OBVIOUS
  <2> QED BY <1>3, <2>1
<1>5. DOMAIN read = {1} /\ read[1] = r
  BY <1>4
<1>6. /\ Parse(T, s).ok = Merge(T, s)[1].ok
      /\ m.type = New(T).type
      /\ m.value = [f \in DOMAIN New(T).value |->
                      IF f \in seen THEN read[Latest(f)].value
                      ELSE New(T).value[f]]
  BY DEF Parse, New
<1> HIDE DEF read
<1>7. seen = {r.field}
  BY <1>5
<1>8. Latest(r.field) = 1
  BY <1>5
<1>9. DOMAIN New(T).value = Fields(T) /\ New(T).type = T
  BY DEF New
<1>10. ASSUME NEW f \in Fields(T)
       PROVE  m.value[f] = IF f = r.field THEN r.value ELSE New(T).value[f]
  <2>1. m.value[f] = IF f \in seen THEN read[Latest(f)].value
                     ELSE New(T).value[f]
    BY <1>6, <1>9
  <2> HIDE DEF seen, Latest
  <2> QED BY <1>5, <1>7, <1>8, <2>1
<1> QED BY <1>4, <1>6, <1>9, <1>10 DEF ParsesAs, OneValue

LEMMA ParseTwo ==
  ASSUME NEW T, NEW s, NEW r1, NEW r2, IsFields(T, s, r1, r2)
  PROVE  ParsesAs(T, s, TwoValues(T, r1, r2))
<1> USE DEF IsFields
<1> DEFINE q == r1.next
           m == Parse(T, s).message
<1> DEFINE read == Merge(T, s)[1].fields
           Latest(f) == CHOOSE i \in DOMAIN read :
                          /\ read[i].field = f
                          /\ \A j \in DOMAIN read : read[j].field = f => j <= i
           seen == {read[i].field : i \in DOMAIN read}
<1>1. 1 \in 1 .. Len(s) /\ q # 0 /\ Len(s) + 1 # 0
  BY LenProperties
<1>2. Merge(T, s)[Len(s) + 1] = [ok |-> TRUE, fields |-> <<>>]
  BY MergeDef
<1>3. r1.next = q /\ r2.next = Len(s) + 1 /\ r1.field # r2.field
  OBVIOUS
<1>4. Merge(T, s)[q] = [ok |-> TRUE, fields |-> <<r2>> \o <<>>]
  <2>1. Merge(T, s)[q] = [ok |-> Merge(T, s)[r2.next].ok,
                          fields |-> <<r2>> \o Merge(T, s)[r2.next].fields]
    BY <1>1, <1>3, MergeDef
  <2> QED BY <1>2, <1>3, <2>1
<1>5. Merge(T, s)[1] = [ok |-> TRUE, fields |-> <<r1>> \o (<<r2>> \o <<>>)]
  <2>1. Merge(T, s)[1] = [ok |-> Merge(T, s)[r1.next].ok,
                          fields |-> <<r1>> \o Merge(T, s)[r1.next].fields]
    BY <1>1, <1>3, MergeDef
  <2>2. Merge(T, s)[q].ok = TRUE /\ Merge(T, s)[q].fields = <<r2>> \o <<>>
    BY <1>4
  <2> QED BY <1>3, <2>1, <2>2
<1>6. read = <<r1, r2>> /\ Merge(T, s)[1].ok = TRUE
  <2>1. <<r2>> \o <<>> = <<r2>>
    OBVIOUS
  <2>2. <<r1>> \o <<r2>> = <<r1, r2>>
    <3> DEFINE Q == {r1, r2}
               c == <<r1>> \o <<r2>>
               d == <<r1, r2>>
    <3>1. <<r1>> \in Seq(Q) /\ <<r2>> \in Seq(Q) /\ <<r1, r2>> \in Seq(Q)
      OBVIOUS
    <3>2. /\ Len(<<r1>>) = 1 /\ Len(<<r2>>) = 1 /\ Len(<<r1, r2>>) = 2
          /\ <<r1>>[1] = r1 /\ <<r2>>[1] = r2
          /\ <<r1, r2>>[1] = r1 /\ <<r1, r2>>[2] = r2
      OBVIOUS
    <3> HIDE DEF Q
    <3>3. /\ <<r1>> \o <<r2>> \in Seq(Q) /\ Len(<<r1>> \o <<r2>>) = 1 + 1
          /\ \A i \in 1 .. 1 + 1 : (<<r1>> \o <<r2>>)[i]
                                    = IF i <= 1 THEN <<r1>>[i] ELSE <<r2>>[i - 1]
      BY <3>1, <3>2, ConcatProperties
    <3>4. \A i \in 1 .. 2 : c[i] = d[i]
      BY <3>2, <3>3
    <3>5. c \in Seq(Q) /\ d \in Seq(Q) /\ Len(c) = 2 /\ Len(d) = 2
      BY <3>1, <3>2, <3>3
    <3> HIDE DEF c, d
    <3>6. c = d
      BY <3>4, <3>5, SeqEqual
    <3> QED BY <3>6 DEF c, d
  <2> QED BY <1>5, <2>1, <2>2
<1>7. DOMAIN read = {1, 2} /\ read[1] = r1 /\ read[2] = r2
  BY <1>6
<1>8. /\ Parse(T, s).ok = Merge(T, s)[1].ok
      /\ m.type = New(T).type
      /\ m.value = [f \in DOMAIN New(T).value |->
                      IF f \in seen THEN read[Latest(f)].value
                      ELSE New(T).value[f]]
  BY DEF Parse, New
<1> HIDE DEF read
<1>9. seen = {r1.field, r2.field}
  BY <1>7
<1>10. Latest(r1.field) = 1
  BY <1>3, <1>7
<1>11. Latest(r2.field) = 2
  BY <1>3, <1>7
<1>12. DOMAIN New(T).value = Fields(T) /\ New(T).type = T
  BY DEF New
<1>13. ASSUME NEW f \in Fields(T)
       PROVE  m.value[f] = IF f = r1.field THEN r1.value
                           ELSE IF f = r2.field THEN r2.value
                           ELSE New(T).value[f]
  <2>1. m.value[f] = IF f \in seen THEN read[Latest(f)].value
                     ELSE New(T).value[f]
    BY <1>8, <1>12
  <2> HIDE DEF seen, Latest
  <2> QED BY <1>7, <1>9, <1>10, <1>11, <2>1
<1> QED BY <1>6, <1>8, <1>12, <1>13 DEF ParsesAs, TwoValues

\* What is cut off in its first or second field is not a message.
LEMMA ParseFails ==
  ASSUME NEW T, NEW s \in Seq(Nat), 1 <= Len(s),
         \/ ReadField(T, s, 1).next = 0
         \/ /\ ReadField(T, s, 1).next \in 1 .. Len(s)
            /\ ReadField(T, s, ReadField(T, s, 1).next).next = 0
  PROVE  Parse(T, s).ok = FALSE
<1> DEFINE q == ReadField(T, s, 1).next
<1>1. 1 \in 1 .. Len(s)
  BY LenProperties
<1>2. Parse(T, s).ok = Merge(T, s)[1].ok
  BY DEF Parse
<1>3. CASE q = 0
  <2>1. Merge(T, s)[1] = [ok |-> FALSE, fields |-> <<>>]
    BY <1>1, <1>3, MergeDef
  <2> QED BY <1>2, <2>1
<1>4. CASE q \in 1 .. Len(s) /\ ReadField(T, s, q).next = 0
  <2>1. Merge(T, s)[q] = [ok |-> FALSE, fields |-> <<>>]
    BY <1>4, MergeDef
  <2>2. q # 0
    BY <1>4
  <2>3. Merge(T, s)[1]
          = [ok |-> Merge(T, s)[q].ok,
             fields |-> <<ReadField(T, s, 1)>> \o Merge(T, s)[q].fields]
    BY <1>1, <2>2, MergeDef
  <2> QED BY <1>2, <2>1, <2>3
<1> QED BY <1>3, <1>4

\* c is the first bytes of s, or all of them.
Initial(c, s) ==
  /\ c \in Seq(Nat) /\ 1 <= Len(c) /\ Len(c) <= Len(s)
  /\ \A i \in 1 .. Len(c) : c[i] = s[i]

\* A text is read as it was written, and refused when a byte of it is missing.
LEMMA TextReads ==
  ASSUME NEW T \in {Echo, C_Echo}, NEW t \in ShortText, NEW c,
         Initial(c, TextBytes(t))
  PROVE  /\ Len(c) < Len(TextBytes(t)) => Parse(T, c).ok = FALSE
         /\ Len(c) = Len(TextBytes(t)) =>
              /\ Parse(T, c).ok = TRUE
              /\ Parse(T, c).message.type = T
              /\ Parse(T, c).message.value[3] = t
              /\ Said(Parse(T, c).message) = TextSaid(T, t)
<1> DEFINE v == TextBytes(t)
           m == Parse(T, c).message
<1>1. c \in Seq(Nat) /\ 1 <= Len(c) /\ Len(c) <= Len(v) /\ Len(c) \in Nat
  BY LenProperties DEF Initial
<1>2. Begins(c, 1, v)
  <2>1. ASSUME NEW i \in 1 .. Len(v), (1 + i) - 1 <= Len(c)
        PROVE  c[(1 + i) - 1] = v[i]
    <3>1. (1 + i) - 1 = i /\ i \in 1 .. Len(c)
      BY <1>1, <2>1
    <3> QED BY <3>1 DEF Initial
  <2> HIDE DEF v
  <2> QED BY <1>1, <2>1 DEF Begins
<1>3. CASE Len(c) < Len(v)
  <2>1. ReadField(T, c, 1).next = 0
    BY <1>1, <1>2, <1>3, ReadsText
  <2>2. Parse(T, c).ok = FALSE
    BY <1>1, <2>1, ParseFails
  <2> QED BY <1>1, <1>3, <2>2
<1>4. CASE Len(c) = Len(v)
  <2>1. ReadField(T, c, 1) = [field |-> 3, next |-> Len(c) + 1, value |-> t]
    BY <1>1, <1>2, <1>4, ReadsText
  <2>2. /\ ReadField(T, c, 1).next = Len(c) + 1
        /\ ReadField(T, c, 1).field = 3 /\ ReadField(T, c, 1).value = t
    BY <2>1
  <2>3. /\ Parse(T, c).ok = TRUE /\ m.type = T
        /\ \A f \in Fields(T) : m.value[f] = IF f = 3 THEN t
                                             ELSE New(T).value[f]
    <3> DEFINE r == ReadField(T, c, 1)
    <3>1. IsField(T, c, r)
      BY <1>1, <2>2 DEF IsField
    <3>2. ParsesAs(T, c, OneValue(T, r))
      BY <3>1, ParseOne
    <3> QED BY <2>2, <3>2 DEF ParsesAs, OneValue
  <2>4. 3 \in Fields(T) /\ T.required = {3} /\ IsText(T, 3)
    BY Classes
  <2> HIDE DEF m
  <2>5. m.value[3] = t
    BY <2>3, <2>4
  <2>6. Said(m) = TextSaid(T, t)
    BY <2>3, <2>4, <2>5 DEF Said, TextSaid
  <2> QED BY <1>1, <1>4, <2>3, <2>5, <2>6 DEF m
<1> QED BY <1>1, <1>3, <1>4

\* So is a sum.
LEMMA SumReads ==
  ASSUME NEW n \in Int32
  PROVE  /\ Parse(AddRet, NumberBytes(3, n)).ok = TRUE
         /\ Said(Parse(AddRet, NumberBytes(3, n)).message) = SumSaid(n)
<1> DEFINE v == NumberBytes(3, n)
           m == Parse(AddRet, v).message
<1>1. v \in Seq(Nat) /\ 1 <= Len(v) /\ Len(v) \in Nat
  <2>1. v \in Seq(Byte) /\ Len(v) = 1 + Len(WriteInt(n)) /\ Len(WriteInt(n)) \in Nat
    BY NumberBytesType
  <2>2. Byte \subseteq Nat
    BY DEF Byte
  <2> HIDE DEF v
  <2>3. v \in Seq(Nat)
    BY <2>1, <2>2, SeqMonotonic
  <2> QED BY <2>1, <2>3
<1> HIDE DEF v
<1>2. Begins(v, 1, v)
  <2>1. \A i \in 1 .. Len(v) : (1 + i) - 1 = i
    BY <1>1
  <2> QED BY <1>1, <2>1 DEF Begins
<1>3. ReadField(AddRet, v, 1) = [field |-> 3, next |-> 1 + Len(v), value |-> n]
  <2>1. Len(v) >= (1 + Len(v)) - 1
    BY <1>1
  <2> QED BY <1>1, <1>2, <2>1, ReadsNumber DEF v
<1>4. /\ ReadField(AddRet, v, 1).next = Len(v) + 1
      /\ ReadField(AddRet, v, 1).field = 3 /\ ReadField(AddRet, v, 1).value = n
  BY <1>1, <1>3
<1>5. /\ Parse(AddRet, v).ok = TRUE /\ m.type = AddRet
      /\ \A f \in Fields(AddRet) : m.value[f] = IF f = 3 THEN n
                                                ELSE New(AddRet).value[f]
  <2> DEFINE r == ReadField(AddRet, v, 1)
  <2>1. IsField(AddRet, v, r)
    BY <1>1, <1>4 DEF IsField
  <2>2. ParsesAs(AddRet, v, OneValue(AddRet, r))
    BY <2>1, ParseOne
  <2> QED BY <1>4, <2>2 DEF ParsesAs, OneValue
<1>6. 3 \in Fields(AddRet) /\ AddRet.required = {3} /\ ~IsText(AddRet, 3)
  BY Classes
<1> HIDE DEF m
<1>7. m.value[3] = n
  BY <1>5, <1>6
<1>8. Said(m) = SumSaid(n)
  BY <1>5, <1>6, <1>7 DEF Said, SumSaid
<1> QED BY <1>5, <1>8 DEF m, v

\* And two numbers, unless it is just the second field that is missing.
LEMMA PairReads ==
  ASSUME NEW a \in Int32, NEW b \in Int32, NEW c, Initial(c, PairBytes(a, b))
  PROVE  /\ /\ Len(c) < Len(PairBytes(a, b))
            /\ Len(c) # Len(NumberBytes(3, a))
            => Parse(Add, c).ok = FALSE
         /\ Len(c) = Len(PairBytes(a, b)) =>
              /\ Parse(Add, c).ok = TRUE
              /\ Parse(Add, c).message.type = Add
              /\ Parse(Add, c).message.value[3] = a
              /\ Parse(Add, c).message.value[4] = b
              /\ Said(Parse(Add, c).message) = PairSaid(a, b)
<1> DEFINE x == NumberBytes(3, a)
           y == NumberBytes(4, b)
           v == PairBytes(a, b)
           q == 1 + Len(x)
           m == Parse(Add, c).message
<1>1. c \in Seq(Nat) /\ 1 <= Len(c) /\ Len(c) <= Len(v) /\ Len(c) \in Nat
  BY LenProperties DEF Initial
<1>2. /\ x \in Seq(Byte) /\ Len(x) \in Nat \ {0}
      /\ y \in Seq(Byte) /\ Len(y) \in Nat \ {0}
  <2>1. /\ x \in Seq(Byte) /\ Len(x) = 1 + Len(WriteInt(a))
        /\ y \in Seq(Byte) /\ Len(y) = 1 + Len(WriteInt(b))
        /\ Len(WriteInt(a)) \in Nat /\ Len(WriteInt(b)) \in Nat
    BY NumberBytesType
  <2> HIDE DEF x, y
  <2> QED BY <2>1
<1>3. Len(v) = Len(x) + Len(y) /\ v = x \o y
  BY PairWritten DEF PairBytes
<1> HIDE DEF x, y, v
<1>4. /\ \A i \in 1 .. Len(x) : v[i] = x[i]
      /\ \A i \in 1 .. Len(y) : v[Len(x) + i] = y[i]
  <2>1. \A i \in 1 .. Len(x) + Len(y) :
          v[i] = IF i <= Len(x) THEN x[i] ELSE y[i - Len(x)]
    BY <1>2, <1>3, ConcatProperties
  <2>2. ASSUME NEW i \in 1 .. Len(y) PROVE v[Len(x) + i] = y[i]
    <3>1. /\ Len(x) + i \in 1 .. Len(x) + Len(y) /\ ~(Len(x) + i <= Len(x))
          /\ (Len(x) + i) - Len(x) = i
      BY <1>2
    <3> QED BY <2>1, <3>1
  <2>3. ASSUME NEW i \in 1 .. Len(x) PROVE v[i] = x[i]
    <3>1. i \in 1 .. Len(x) + Len(y) /\ i <= Len(x)
      BY <1>2
    <3> QED BY <2>1, <3>1
  <2> QED BY <2>2, <2>3
<1>5. \A i \in 1 .. Len(c) : c[i] = v[i]
  BY DEF Initial, v
<1>6. Begins(c, 1, x)
  <2>1. ASSUME NEW i \in 1 .. Len(x), (1 + i) - 1 <= Len(c)
        PROVE  c[(1 + i) - 1] = x[i]
    <3>1. (1 + i) - 1 = i /\ i \in 1 .. Len(c)
      BY <1>1, <2>1
    <3> QED BY <1>4, <1>5, <3>1
  <2> QED BY <1>1, <2>1 DEF Begins
<1>7. CASE Len(c) < Len(x)
  <2>1. Len(c) < (1 + Len(x)) - 1
    BY <1>1, <1>2, <1>7
  <2>2. ReadField(Add, c, 1).next = 0
    BY <1>1, <1>6, <2>1, ReadsNumber DEF x
  <2>3. Parse(Add, c).ok = FALSE
    BY <1>1, <2>2, ParseFails
  <2>4. Len(c) # Len(v)
    BY <1>1, <1>2, <1>3, <1>7
  <2> QED BY <2>3, <2>4 DEF v
<1>8. CASE Len(c) = Len(x)
  <2>1. Len(c) # Len(v)
    BY <1>1, <1>2, <1>3, <1>8
  <2> QED BY <1>8, <2>1 DEF v, x
<1>9. CASE Len(c) > Len(x)
  <2>1. q \in 1 .. Len(c)
    BY <1>1, <1>2, <1>9
  <2>2. ReadField(Add, c, 1) = [field |-> 3, next |-> q, value |-> a]
    <3>1. Len(c) >= (1 + Len(x)) - 1
      BY <1>1, <1>2, <1>9
    <3> QED BY <1>1, <1>6, <3>1, ReadsNumber DEF x
  <2>3. Begins(c, q, y)
    <3>1. ASSUME NEW i \in 1 .. Len(y), (q + i) - 1 <= Len(c)
          PROVE  c[(q + i) - 1] = y[i]
      <4>1. (q + i) - 1 = Len(x) + i /\ Len(x) + i \in 1 .. Len(c)
        BY <1>1, <1>2, <3>1
      <4> QED BY <1>4, <1>5, <4>1
    <3>2. q <= Len(c)
      BY <2>1
    <3> HIDE DEF q
    <3> QED BY <3>1, <3>2 DEF Begins
  <2>4. q \in Nat \ {0}
    BY <1>2
  <2>5. (q + Len(y)) - 1 = Len(v)
    BY <1>2, <1>3
  <2>6. CASE Len(c) < Len(v)
    <3>1. ReadField(Add, c, q).next = 0
      BY <1>1, <2>3, <2>4, <2>5, <2>6, ReadsNumber DEF y
    <3>2. Parse(Add, c).ok = FALSE
      <4>1. ReadField(Add, c, 1).next = q
        BY <2>2
      <4> QED BY <1>1, <2>1, <3>1, <4>1, ParseFails
    <3>3. Len(c) # Len(v)
      BY <1>1, <1>2, <1>3, <2>6
    <3> QED BY <3>2, <3>3 DEF v
  <2>7. CASE Len(c) = Len(v)
    <3>1. ReadField(Add, c, q) = [field |-> 4, next |-> q + Len(y), value |-> b]
      <4>1. Len(c) >= (q + Len(y)) - 1
        BY <1>1, <2>5, <2>7
      <4> QED BY <1>1, <2>3, <2>4, <4>1, ReadsNumber DEF y
    <3>2. q + Len(y) = Len(c) + 1
      BY <1>2, <1>3, <2>7
    <3>3. /\ ReadField(Add, c, 1).next = q
          /\ ReadField(Add, c, 1).field = 3 /\ ReadField(Add, c, 1).value = a
          /\ ReadField(Add, c, q).next = Len(c) + 1
          /\ ReadField(Add, c, q).field = 4 /\ ReadField(Add, c, q).value = b
      BY <2>2, <3>1, <3>2
    <3> HIDE DEF q
    <3>4. /\ Parse(Add, c).ok = TRUE /\ m.type = Add
          /\ \A f \in Fields(Add) : m.value[f] = IF f = 3 THEN a
                                                 ELSE IF f = 4 THEN b
                                                 ELSE New(Add).value[f]
      <4> DEFINE r1 == ReadField(Add, c, 1)
                 r2 == ReadField(Add, c, q)
      <4>1. r1.field # r2.field
        BY <3>3
      <4>2. IsFields(Add, c, r1, r2)
        BY <1>1, <2>1, <3>3, <4>1 DEF IsFields
      <4>3. ParsesAs(Add, c, TwoValues(Add, r1, r2))
        BY <4>2, ParseTwo
      <4> QED BY <3>3, <4>3 DEF ParsesAs, TwoValues
    <3>5. /\ 3 \in Fields(Add) /\ 4 \in Fields(Add) /\ Add.required = {3, 4}
          /\ \A f : ~IsText(Add, f)
      BY Classes
    <3> HIDE DEF m
    <3>6. m.value[3] = a /\ m.value[4] = b
      BY <3>4, <3>5
    <3>7. Said(m) = PairSaid(a, b)
      <4>1. [f \in {3, 4} |-> IF IsText(Add, f) THEN m.value[f] ELSE <<m.value[f]>>]
              = [f \in {3, 4} |-> IF f = 3 THEN <<a>> ELSE <<b>>]
        BY <3>5, <3>6
      <4> QED BY <3>4, <3>5, <4>1 DEF Said, PairSaid
    <3>8. ~(Len(c) < Len(v))
      BY <1>1, <2>7
    <3> QED BY <3>4, <3>6, <3>7, <3>8 DEF m, v
  <2>8. Len(c) < Len(v) \/ Len(c) = Len(v)
    BY <1>1, <1>2, <1>3
  <2> QED BY <2>6, <2>7, <2>8
<1>10. Len(c) < Len(x) \/ Len(c) = Len(x) \/ Len(c) > Len(x)
  BY <1>1, <1>2
<1> QED BY <1>7, <1>8, <1>9, <1>10

-----------------------------------------------------------------------------
(* C strings *)

ZeroByte(s) == \E i \in 1 .. Len(s) : s[i] = 0

\* A C string is cut before the first zero byte.
LEMMA CStringCuts ==
  ASSUME NEW s \in Seq(Nat), 1 <= Len(s), s[1] # 0
  PROVE  /\ ~ZeroByte(s) => CString(s) = s
         /\ ZeroByte(s) => /\ Initial(CString(s), s)
                           /\ Len(CString(s)) < Len(s)
                           /\ s[Len(CString(s)) + 1] = 0
<1> DEFINE zeros == {i \in DOMAIN s : s[i] = 0}
           k == CHOOSE i \in zeros : \A j \in zeros : i <= j
<1>1. DOMAIN s = 1 .. Len(s) /\ Len(s) \in Nat
  BY LenProperties
<1>2. CString(s) = IF zeros = {} THEN s ELSE SubSeq(s, 1, k - 1)
  BY DEF CString
<1>3. zeros = {} <=> ~ZeroByte(s)
  BY <1>1 DEF ZeroByte
<1>4. ASSUME ZeroByte(s)
      PROVE  /\ Initial(CString(s), s) /\ Len(CString(s)) < Len(s)
             /\ s[Len(CString(s)) + 1] = 0
  <2>1. zeros \in SUBSET Nat /\ zeros # {}
    BY <1>1, <1>3, <1>4
  <2>2. \E i \in zeros : \A j \in zeros : i <= j
    <3> HIDE DEF zeros
    <3> QED BY <2>1, Least
  <2>3. k \in zeros
    <3> HIDE DEF zeros
    <3> QED BY <2>2
  <2>4. k \in 1 .. Len(s) /\ s[k] = 0
    BY <1>1, <2>3
  <2> HIDE DEF k, zeros
  <2>5. k # 1
    BY <2>4
  <2>6. k - 1 \in 1 .. Len(s) /\ k - 1 < Len(s) /\ (k - 1) + 1 = k
    BY <1>1, <2>4, <2>5
  <2>7. CString(s) = SubSeq(s, 1, k - 1)
    BY <1>2, <1>3, <1>4
  <2>8. /\ SubSeq(s, 1, k - 1) \in Seq(Nat)
        /\ Len(SubSeq(s, 1, k - 1)) = k - 1
        /\ \A i \in 1 .. k - 1 : SubSeq(s, 1, k - 1)[i] = s[i]
    BY <1>1, <2>6, SubSeqProperties
  <2> QED BY <2>4, <2>6, <2>7, <2>8 DEF Initial
<1> QED BY <1>2, <1>3, <1>4

\* The zero bytes of an encoding are those of its text and its numbers.
LEMMA TextZeros ==
  ASSUME NEW t \in ShortText
  PROVE  ZeroByte(TextBytes(t)) <=> t = <<>> \/ \E i \in DOMAIN t : t[i] = 0
<1> DEFINE w == Varint[Len(t)]
           k == Len(w)
           v == TextBytes(t)
<1>1. /\ k \in Nat \ {0} /\ Len(t) \in Nat
      /\ Len(v) = (1 + k) + Len(t) /\ v[1] = 26
      /\ \A i \in 1 .. k : v[1 + i] = w[i]
      /\ \A i \in 1 .. Len(t) : v[(1 + k) + i] = t[i]
  BY TextBytesType, TextType
<1>2. (\E i \in 1 .. k : w[i] = 0) <=> Len(t) = 0
  BY <1>1, VarintForm DEF HasVarintForm
<1>3. DOMAIN t = 1 .. Len(t) /\ (t = <<>> <=> Len(t) = 0)
  BY LenProperties, EmptySeq DEF ShortText
<1> HIDE DEF w, k, v
<1>4. ASSUME NEW i \in 1 .. Len(v), v[i] = 0
      PROVE  t = <<>> \/ \E j \in DOMAIN t : t[j] = 0
  <2>1. i # 1
    BY <1>1, <1>4
  <2>2. CASE i <= 1 + k
    <3>1. i - 1 \in 1 .. k /\ 1 + (i - 1) = i
      BY <1>1, <2>1, <2>2
    <3>2. w[i - 1] = 0
      BY <1>1, <1>4, <3>1
    <3> QED BY <1>2, <1>3, <3>1, <3>2
  <2>3. CASE i > 1 + k
    <3>1. i - (1 + k) \in 1 .. Len(t) /\ (1 + k) + (i - (1 + k)) = i
      BY <1>1, <2>3
    <3>2. t[i - (1 + k)] = 0
      BY <1>1, <1>4, <3>1
    <3> QED BY <1>3, <3>1, <3>2
  <2>4. i <= 1 + k \/ i > 1 + k
    BY <1>1
  <2> QED BY <2>2, <2>3, <2>4
<1>5. ASSUME t = <<>> PROVE ZeroByte(v)
  <2>1. PICK i \in 1 .. k : w[i] = 0
    BY <1>2, <1>3, <1>5
  <2>2. 1 + i \in 1 .. Len(v) /\ v[1 + i] = 0
    BY <1>1, <2>1
  <2> QED BY <2>2 DEF ZeroByte
<1>6. ASSUME NEW i \in DOMAIN t, t[i] = 0 PROVE ZeroByte(v)
  <2>1. (1 + k) + i \in 1 .. Len(v) /\ v[(1 + k) + i] = 0
    BY <1>1, <1>3, <1>6
  <2> QED BY <2>1 DEF ZeroByte
<1> QED BY <1>4, <1>5, <1>6 DEF ZeroByte, v

LEMMA NumberZeros ==
  ASSUME NEW f \in {3, 4}, NEW n \in Int32
  PROVE  ZeroByte(NumberBytes(f, n)) <=> n = 0
<1> DEFINE w == WriteInt(n)
           v == NumberBytes(f, n)
<1>1. /\ Len(w) \in Nat \ {0} /\ Len(v) = 1 + Len(w) /\ v[1] = 8 * f
      /\ \A i \in 1 .. Len(w) : v[1 + i] = w[i]
  BY NumberBytesType
<1>2. (\E i \in 1 .. Len(w) : w[i] = 0) <=> n = 0
  <2>1. Code(n) \in Nat /\ (Code(n) = 0 <=> n = 0) /\ w = Varint[Code(n)]
    BY CodeType
  <2>2. HasVarintForm(Varint[Code(n)], Code(n))
    BY <2>1, VarintForm
  <2> QED BY <2>1, <2>2 DEF HasVarintForm
<1> HIDE DEF w, v
<1>3. ASSUME NEW i \in 1 .. Len(v), v[i] = 0 PROVE n = 0
  <2>1. i # 1
    BY <1>1, <1>3
  <2>2. i - 1 \in 1 .. Len(w) /\ 1 + (i - 1) = i
    BY <1>1, <2>1
  <2>3. w[i - 1] = 0
    BY <1>1, <1>3, <2>2
  <2> QED BY <1>2, <2>2, <2>3
<1>4. ASSUME n = 0 PROVE ZeroByte(v)
  <2>1. PICK i \in 1 .. Len(w) : w[i] = 0
    BY <1>2, <1>4
  <2>2. 1 + i \in 1 .. Len(v) /\ v[1 + i] = 0
    BY <1>1, <2>1
  <2> QED BY <2>2 DEF ZeroByte
<1> QED BY <1>3, <1>4 DEF ZeroByte, v

LEMMA PairParts ==
  ASSUME NEW a \in Int32, NEW b \in Int32
  PROVE  LET x == NumberBytes(3, a)
             y == NumberBytes(4, b)
             v == PairBytes(a, b)
         IN /\ Len(x) \in Nat \ {0} /\ Len(y) \in Nat \ {0}
            /\ Len(v) = Len(x) + Len(y)
            /\ \A i \in 1 .. Len(x) : v[i] = x[i]
            /\ \A i \in 1 .. Len(y) : v[Len(x) + i] = y[i]
            /\ v[1] = 24 /\ v[Len(x) + 1] = 32
<1> DEFINE x == NumberBytes(3, a)
           y == NumberBytes(4, b)
           v == PairBytes(a, b)
<1>1. /\ x \in Seq(Byte) /\ Len(x) \in Nat \ {0} /\ x[1] = 24
      /\ y \in Seq(Byte) /\ Len(y) \in Nat \ {0} /\ y[1] = 32
  <2>1. /\ x \in Seq(Byte) /\ Len(x) = 1 + Len(WriteInt(a)) /\ x[1] = 8 * 3
        /\ y \in Seq(Byte) /\ Len(y) = 1 + Len(WriteInt(b)) /\ y[1] = 8 * 4
        /\ Len(WriteInt(a)) \in Nat /\ Len(WriteInt(b)) \in Nat
    BY NumberBytesType
  <2> HIDE DEF x, y
  <2> QED BY <2>1
<1>2. Len(v) = Len(x) + Len(y) /\ v = x \o y
  BY PairWritten DEF PairBytes
<1> HIDE DEF x, y, v
<1>3. \A i \in 1 .. Len(x) + Len(y) :
        v[i] = IF i <= Len(x) THEN x[i] ELSE y[i - Len(x)]
  BY <1>1, <1>2, ConcatProperties
<1>4. ASSUME NEW i \in 1 .. Len(y) PROVE v[Len(x) + i] = y[i]
  <2>1. /\ Len(x) + i \in 1 .. Len(x) + Len(y) /\ ~(Len(x) + i <= Len(x))
        /\ (Len(x) + i) - Len(x) = i
    BY <1>1
  <2> QED BY <1>3, <2>1
<1>5. ASSUME NEW i \in 1 .. Len(x) PROVE v[i] = x[i]
  <2>1. i \in 1 .. Len(x) + Len(y) /\ i <= Len(x)
    BY <1>1
  <2> QED BY <1>3, <2>1
<1>6. 1 \in 1 .. Len(x) /\ 1 \in 1 .. Len(y)
  BY <1>1
<1>7. v[1] = 24 /\ v[Len(x) + 1] = 32
  BY <1>1, <1>4, <1>5, <1>6
<1> QED BY <1>1, <1>2, <1>4, <1>5, <1>7 DEF x, y, v

LEMMA PairZeros ==
  ASSUME NEW a \in Int32, NEW b \in Int32
  PROVE  ZeroByte(PairBytes(a, b)) <=> a = 0 \/ b = 0
<1> DEFINE x == NumberBytes(3, a)
           y == NumberBytes(4, b)
           v == PairBytes(a, b)
<1>1. /\ Len(x) \in Nat \ {0} /\ Len(y) \in Nat \ {0}
      /\ Len(v) = Len(x) + Len(y)
      /\ \A i \in 1 .. Len(x) : v[i] = x[i]
      /\ \A i \in 1 .. Len(y) : v[Len(x) + i] = y[i]
  BY PairParts
<1>2. (ZeroByte(x) <=> a = 0) /\ (ZeroByte(y) <=> b = 0)
  BY NumberZeros
<1> HIDE DEF x, y, v
<1>3. ASSUME NEW i \in 1 .. Len(v), v[i] = 0 PROVE ZeroByte(x) \/ ZeroByte(y)
  <2>1. CASE i <= Len(x)
    <3>1. i \in 1 .. Len(x)
      BY <1>1, <2>1
    <3> QED BY <1>1, <1>3, <3>1 DEF ZeroByte
  <2>2. CASE i > Len(x)
    <3>1. i - Len(x) \in 1 .. Len(y) /\ Len(x) + (i - Len(x)) = i
      BY <1>1, <2>2
    <3>2. y[i - Len(x)] = 0
      BY <1>1, <1>3, <3>1
    <3> QED BY <3>1, <3>2 DEF ZeroByte
  <2>3. i <= Len(x) \/ i > Len(x)
    BY <1>1
  <2> QED BY <2>1, <2>2, <2>3
<1>4. ASSUME NEW i \in 1 .. Len(x), x[i] = 0 PROVE ZeroByte(v)
  <2>1. i \in 1 .. Len(v) /\ v[i] = 0
    BY <1>1, <1>4
  <2> QED BY <2>1 DEF ZeroByte
<1>5. ASSUME NEW i \in 1 .. Len(y), y[i] = 0 PROVE ZeroByte(v)
  <2>1. Len(x) + i \in 1 .. Len(v) /\ v[Len(x) + i] = 0
    BY <1>1, <1>5
  <2> QED BY <2>1 DEF ZeroByte
<1>6. ZeroByte(v) <=> ZeroByte(x) \/ ZeroByte(y)
  BY <1>3, <1>4, <1>5 DEF ZeroByte
<1> QED BY <1>2, <1>6 DEF v

-----------------------------------------------------------------------------
(* Frames *)

\* z is x and then y.
IsJoin(z, x, y) ==
  /\ z \in Seq(Nat) /\ Len(z) = Len(x) + Len(y)
  /\ \A i \in 1 .. Len(x) : z[i] = x[i]
  /\ \A i \in 1 .. Len(y) : z[Len(x) + i] = y[i]

LEMMA Joined ==
  ASSUME NEW x \in Seq(Nat), NEW y \in Seq(Nat)
  PROVE  IsJoin(x \o y, x, y)
<1>1. /\ x \o y \in Seq(Nat) /\ Len(x \o y) = Len(x) + Len(y)
      /\ Len(x) \in Nat /\ Len(y) \in Nat
      /\ \A i \in 1 .. Len(x) + Len(y) :
           (x \o y)[i] = IF i <= Len(x) THEN x[i] ELSE y[i - Len(x)]
  BY ConcatProperties, LenProperties
<1>2. ASSUME NEW i \in 1 .. Len(x) PROVE (x \o y)[i] = x[i]
  <2>1. i \in 1 .. Len(x) + Len(y) /\ i <= Len(x)
    BY <1>1
  <2> QED BY <1>1, <2>1
<1>3. ASSUME NEW i \in 1 .. Len(y) PROVE (x \o y)[Len(x) + i] = y[i]
  <2>1. /\ Len(x) + i \in 1 .. Len(x) + Len(y) /\ ~(Len(x) + i <= Len(x))
        /\ (Len(x) + i) - Len(x) = i
    BY <1>1
  <2> QED BY <1>1, <2>1
<1> QED BY <1>1, <1>2, <1>3 DEF IsJoin

\* p is n packed.
IsPacked(p, n) == p \in Seq(Nat) /\ Len(p) = SizeofInt /\ p[1] = n

LEMMA Packed ==
  ASSUME NEW n \in Nat
  PROVE  IsPacked(pack_int(n), n)
<1> DEFINE z == [i \in 1 .. SizeofInt - 1 |-> 0]
<1>1. SizeofInt - 1 \in Nat /\ 1 + (SizeofInt - 1) = SizeofInt
  BY RpcAssumption
<1>2. z \in Seq(Nat) /\ Len(z) = SizeofInt - 1
  <2>1. z \in [1 .. SizeofInt - 1 -> Nat]
    OBVIOUS
  <2> HIDE DEF z
  <2>2. z \in Seq(Nat)
    BY <1>1, <2>1, IsASeq
  <2>3. DOMAIN z = 1 .. SizeofInt - 1
    BY <2>1
  <2> QED BY <1>1, <2>2, <2>3, LenProperties
<1> HIDE DEF z
<1>3. <<n>> \in Seq(Nat) /\ Len(<<n>>) = 1 /\ <<n>>[1] = n
  OBVIOUS
<1>4. /\ <<n>> \o z \in Seq(Nat) /\ Len(<<n>> \o z) = 1 + Len(z)
      /\ \A i \in 1 .. 1 : (<<n>> \o z)[i] = <<n>>[i]
  <2>1. IsJoin(<<n>> \o z, <<n>>, z)
    BY <1>2, <1>3, Joined
  <2> QED BY <1>3, <2>1 DEF IsJoin
<1> QED BY <1>1, <1>2, <1>3, <1>4 DEF pack_int, z, IsPacked

\* F is a frame of some data.
IsFrame(F, c, data) ==
  /\ F \in Seq(Nat) /\ Len(F) = 3 * SizeofInt + Len(data)
  /\ F[1] = Len(data) + 2 * SizeofInt
  /\ F[SizeofInt + 1] = 1000 /\ F[2 * SizeofInt + 1] = c
  /\ \A i \in 1 .. Len(data) : F[3 * SizeofInt + i] = data[i]

LEMMA RawForm ==
  ASSUME NEW c \in Nat, NEW data \in Seq(Nat)
  PROVE  IsFrame(get_raw(1000, c, data), c, data)
<1> DEFINE n == Len(data) + 2 * SizeofInt
           a == pack_int(n)
           b == pack_int(1000)
           d == pack_int(c)
           ab == a \o b
           abd == ab \o d
           F == get_raw(1000, c, data)
<1>1. n \in Nat /\ 1000 \in Nat /\ Len(data) \in Nat /\ SizeofInt \in Nat \ {0}
  BY RpcAssumption, LenProperties
<1>2. /\ a \in Seq(Nat) /\ Len(a) = SizeofInt /\ a[1] = n
      /\ b \in Seq(Nat) /\ Len(b) = SizeofInt /\ b[1] = 1000
      /\ d \in Seq(Nat) /\ Len(d) = SizeofInt /\ d[1] = c
  <2>1. IsPacked(a, n) /\ IsPacked(b, 1000) /\ IsPacked(d, c)
    <3> HIDE DEF n
    <3> QED BY <1>1, Packed
  <2> QED BY <2>1 DEF IsPacked
<1>3. F = abd \o data
  BY DEF get_raw
<1> HIDE DEF a, b, d, F
<1>4. /\ ab \in Seq(Nat) /\ Len(ab) = 2 * SizeofInt
      /\ \A i \in 1 .. SizeofInt : ab[i] = a[i]
      /\ \A i \in 1 .. SizeofInt : ab[SizeofInt + i] = b[i]
  <2>1. IsJoin(ab, a, b)
    BY <1>2, Joined
  <2> HIDE DEF ab
  <2> QED BY <1>1, <1>2, <2>1 DEF IsJoin
<1> HIDE DEF ab
<1>5. /\ abd \in Seq(Nat) /\ Len(abd) = 3 * SizeofInt
      /\ \A i \in 1 .. 2 * SizeofInt : abd[i] = ab[i]
      /\ \A i \in 1 .. SizeofInt : abd[2 * SizeofInt + i] = d[i]
  <2>1. IsJoin(abd, ab, d)
    BY <1>2, <1>4, Joined
  <2> HIDE DEF abd
  <2> QED BY <1>1, <1>2, <1>4, <2>1 DEF IsJoin
<1> HIDE DEF abd
<1>6. /\ F \in Seq(Nat) /\ Len(F) = 3 * SizeofInt + Len(data)
      /\ \A i \in 1 .. 3 * SizeofInt : F[i] = abd[i]
      /\ \A i \in 1 .. Len(data) : F[3 * SizeofInt + i] = data[i]
  <2>1. IsJoin(F, abd, data)
    BY <1>3, <1>5, Joined
  <2> QED BY <1>5, <2>1 DEF IsJoin
<1>7. /\ 1 \in 1 .. SizeofInt /\ 1 \in 1 .. 2 * SizeofInt
      /\ SizeofInt + 1 \in 1 .. 2 * SizeofInt
      /\ 1 \in 1 .. 3 * SizeofInt /\ SizeofInt + 1 \in 1 .. 3 * SizeofInt
      /\ 2 * SizeofInt + 1 \in 1 .. 3 * SizeofInt
  BY <1>1
<1> HIDE DEF n
<1>8. F[1] = n
  <2>1. F[1] = abd[1] /\ abd[1] = ab[1] /\ ab[1] = a[1]
    BY <1>4, <1>5, <1>6, <1>7
  <2> QED BY <1>2, <2>1
<1>9. F[SizeofInt + 1] = 1000
  <2>1. /\ F[SizeofInt + 1] = abd[SizeofInt + 1]
        /\ abd[SizeofInt + 1] = ab[SizeofInt + 1]
        /\ ab[SizeofInt + 1] = b[1]
    BY <1>4, <1>5, <1>6, <1>7
  <2> QED BY <1>2, <2>1
<1>10. F[2 * SizeofInt + 1] = c
  <2>1. /\ F[2 * SizeofInt + 1] = abd[2 * SizeofInt + 1]
        /\ abd[2 * SizeofInt + 1] = d[1]
    BY <1>5, <1>6, <1>7
  <2> QED BY <1>2, <2>1
<1> QED BY <1>6, <1>8, <1>9, <1>10 DEF F, n, IsFrame

\* What is taken from a stream is its first message, and the rest is left.
TakesData(stream, c, data, rest) ==
  LET msg == FirstMsg(stream)
  IN /\ stream # <<>> /\ ~(Len(msg) <= 2 * SizeofInt)
     /\ Key(msg) = <<1000, c>> /\ Payload(msg) = data
     /\ AfterFirst(stream) = rest

\* The first message of a stream is the one that was put there first: what
\* get_raw packs, Msg and read_ids take apart, and the rest is left.
THEOREM Framing ==
  ASSUME NEW c \in Nat, NEW data \in Seq(Nat), 1 <= Len(data),
         NEW rest \in Seq(Nat)
  PROVE  TakesData(get_raw(1000, c, data) \o rest, c, data, rest)
<1> DEFINE F == get_raw(1000, c, data)
           stream == F \o rest
           msg == FirstMsg(stream)
           n == Len(data) + 2 * SizeofInt
<1>1. /\ F \in Seq(Nat) /\ Len(F) = 3 * SizeofInt + Len(data) /\ F[1] = n
      /\ F[SizeofInt + 1] = 1000 /\ F[2 * SizeofInt + 1] = c
      /\ \A i \in 1 .. Len(data) : F[3 * SizeofInt + i] = data[i]
  <2>1. IsFrame(F, c, data)
    BY RawForm
  <2> QED BY <2>1 DEF IsFrame
<1>2. SizeofInt \in Nat \ {0} /\ Len(data) \in Nat /\ Len(rest) \in Nat
  BY RpcAssumption, LenProperties
<1> HIDE DEF F
<1>3. /\ stream \in Seq(Nat) /\ Len(stream) = Len(F) + Len(rest)
      /\ \A i \in 1 .. Len(F) : stream[i] = F[i]
      /\ \A i \in 1 .. Len(rest) : stream[Len(F) + i] = rest[i]
  <2>1. IsJoin(stream, F, rest)
    BY <1>1, Joined
  <2> QED BY <2>1 DEF IsJoin
<1>4. \A i \in 1 .. Len(stream) : stream[i] \in Nat
  BY <1>3, ElementOfSeq
<1> HIDE DEF stream
<1>5. /\ 1 \in 1 .. Len(F) /\ SizeofInt + 1 \in 1 .. Len(F)
      /\ 2 * SizeofInt + 1 \in 1 .. Len(F)
  BY <1>1, <1>2
<1>6. stream[1] = n /\ stream[SizeofInt + 1] = 1000
      /\ stream[2 * SizeofInt + 1] = c
  <2>1. /\ stream[1] = F[1] /\ stream[SizeofInt + 1] = F[SizeofInt + 1]
        /\ stream[2 * SizeofInt + 1] = F[2 * SizeofInt + 1]
    BY <1>3, <1>5
  <2> QED BY <1>1, <2>1
<1>7. stream # <<>>
  <2>1. Len(stream) # 0
    BY <1>1, <1>2, <1>3
  <2> QED BY <2>1
<1>8. /\ msg \in Seq(Nat) /\ Len(msg) = n
      /\ \A i \in 1 .. n : msg[i] = stream[SizeofInt + i]
  <2>1. msg = SubSeq(stream, SizeofInt + 1, SizeofInt + n)
    BY <1>6 DEF FirstMsg
  <2>2. \A i \in SizeofInt + 1 .. SizeofInt + n : stream[i] \in Nat
    <3>1. \A i \in SizeofInt + 1 .. SizeofInt + n : i \in 1 .. Len(stream)
      BY <1>1, <1>2, <1>3
    <3> QED BY <1>4, <3>1
  <2>3. SizeofInt + 1 \in Int /\ SizeofInt + n \in Int
    BY <1>2
  <2>4. /\ msg \in Seq(Nat)
        /\ Len(msg) = IF SizeofInt + 1 <= SizeofInt + n
                      THEN (SizeofInt + n) - (SizeofInt + 1) + 1 ELSE 0
        /\ \A i \in 1 .. (SizeofInt + n) - (SizeofInt + 1) + 1 :
             msg[i] = stream[((SizeofInt + 1) + i) - 1]
    <3> HIDE DEF msg, n
    <3> QED BY <2>1, <2>2, <2>3, SubSeqProperties
  <2> HIDE DEF msg
  <2>5. /\ (SizeofInt + n) - (SizeofInt + 1) + 1 = n
        /\ SizeofInt + 1 <= SizeofInt + n
        /\ \A i \in 1 .. n : ((SizeofInt + 1) + i) - 1 = SizeofInt + i
    BY <1>2
  <2> HIDE DEF n
  <2> QED BY <2>4, <2>5
<1>9. ~(Len(msg) <= 2 * SizeofInt)
  <2> HIDE DEF msg
  <2> QED BY <1>2, <1>8
<1>10. Key(msg) = <<1000, c>>
  <2> HIDE DEF msg
  <2>1. /\ 1 \in 1 .. n /\ SizeofInt + 1 \in 1 .. n
        /\ SizeofInt + (SizeofInt + 1) = 2 * SizeofInt + 1
    BY <1>2
  <2>2. msg[1] = stream[SizeofInt + 1]
        /\ msg[SizeofInt + 1] = stream[2 * SizeofInt + 1]
    <3> HIDE DEF n
    <3> QED BY <1>8, <2>1
  <2> QED BY <1>6, <2>2 DEF Key
<1>11. Payload(msg) = data
  <2> HIDE DEF msg
  <2> DEFINE p == SubSeq(msg, 2 * SizeofInt + 1, n)
  <2>1. Payload(msg) = p
    BY <1>8 DEF Payload
  <2>2. \A i \in 2 * SizeofInt + 1 .. n : msg[i] \in Nat
    <3>1. \A i \in 2 * SizeofInt + 1 .. n : i \in 1 .. Len(msg)
      BY <1>2, <1>8
    <3> QED BY <1>8, <3>1, ElementOfSeq
  <2>3. /\ 2 * SizeofInt + 1 \in Int /\ n \in Int
        /\ n - (2 * SizeofInt + 1) + 1 = Len(data) /\ 2 * SizeofInt + 1 <= n
    BY <1>2
  <2>4. /\ p \in Seq(Nat) /\ Len(p) = Len(data)
        /\ \A i \in 1 .. Len(data) : p[i] = msg[((2 * SizeofInt + 1) + i) - 1]
    <3>1. /\ p \in Seq(Nat)
          /\ Len(p) = IF 2 * SizeofInt + 1 <= n
                      THEN n - (2 * SizeofInt + 1) + 1 ELSE 0
          /\ \A i \in 1 .. n - (2 * SizeofInt + 1) + 1 :
               p[i] = msg[((2 * SizeofInt + 1) + i) - 1]
      <4> HIDE DEF n
      <4> QED BY <2>2, <2>3, SubSeqProperties
    <3> HIDE DEF p, n
    <3> QED BY <2>3, <3>1
  <2> HIDE DEF p
  <2>5. ASSUME NEW i \in 1 .. Len(data) PROVE p[i] = data[i]
    <3>1. /\ ((2 * SizeofInt + 1) + i) - 1 = 2 * SizeofInt + i
          /\ 2 * SizeofInt + i \in 1 .. n
          /\ SizeofInt + (2 * SizeofInt + i) = 3 * SizeofInt + i
          /\ 3 * SizeofInt + i \in 1 .. Len(F)
      BY <1>1, <1>2
    <3>2. msg[2 * SizeofInt + i] = stream[3 * SizeofInt + i]
      <4> HIDE DEF n
      <4> QED BY <1>8, <3>1
    <3>3. stream[3 * SizeofInt + i] = F[3 * SizeofInt + i]
          /\ F[3 * SizeofInt + i] = data[i]
      BY <1>1, <1>3, <3>1
    <3>4. p[i] = msg[((2 * SizeofInt + 1) + i) - 1]
      BY <2>4
    <3> QED BY <3>1, <3>2, <3>3, <3>4
  <2> QED BY <2>1, <2>4, <2>5, SeqEqual
<1>12. AfterFirst(stream) = rest
  <2> DEFINE k == Len(F) + 1
             p == SubSeq(stream, k, Len(stream))
  <2>1. AfterFirst(stream) = p
    <3>1. SizeofInt + n + 1 = k
      BY <1>1, <1>2
    <3> QED BY <1>6, <3>1 DEF AfterFirst
  <2>2. k \in Int /\ Len(stream) \in Int /\ Len(stream) - k + 1 = Len(rest)
        /\ (IF k <= Len(stream) THEN Len(stream) - k + 1 ELSE 0) = Len(rest)
    BY <1>1, <1>2, <1>3
  <2>3. \A i \in k .. Len(stream) : stream[i] \in Nat
    BY <1>1, <1>2, <1>4
  <2>4. /\ p \in Seq(Nat) /\ Len(p) = Len(rest)
        /\ \A i \in 1 .. Len(rest) : p[i] = stream[(k + i) - 1]
    <3> HIDE DEF k
    <3>1. /\ p \in Seq(Nat)
          /\ Len(p) = IF k <= Len(stream) THEN Len(stream) - k + 1 ELSE 0
          /\ \A i \in 1 .. Len(stream) - k + 1 : p[i] = stream[(k + i) - 1]
      BY <2>2, <2>3, SubSeqProperties
    <3> HIDE DEF p
    <3> QED BY <2>2, <3>1
  <2> HIDE DEF p
  <2>5. ASSUME NEW i \in 1 .. Len(rest) PROVE p[i] = rest[i]
    <3>1. (k + i) - 1 = Len(F) + i
      BY <1>1, <1>2
    <3> HIDE DEF k
    <3> QED BY <1>3, <2>4, <3>1
  <2> QED BY <2>1, <2>4, <2>5, SeqEqual
<1> QED BY <1>7, <1>9, <1>10, <1>11, <1>12 DEF stream, F, TakesData

-----------------------------------------------------------------------------
(* Requests and answers *)

Encoded(r) ==
  IF r.type = Add THEN PairBytes(r.fields[3][1], r.fields[4][1])
  ELSE IF r.type = AddRet THEN NumberBytes(3, r.fields[3][1])
  ELSE TextBytes(r.fields[3])

Frame(r) == get_raw(1000, r.type.command_id, Encoded(r))

\* What the client can ask, and what it can be told.
Requests == {TextSaid(Echo, t) : t \in Texts}
            \cup {PairSaid(a, b) : a, b \in Numbers}
Replies  == {TextSaid(C_Echo, t) : t \in ShortText}
            \cup {SumSaid(n) : n \in Int32}

LEMMA SaidForms ==
  /\ \A T \in {Echo, C_Echo} : \A t :
       /\ TextSaid(T, t).type = T /\ TextSaid(T, t).fields[3] = t
       /\ Encoded(TextSaid(T, t)) = TextBytes(t)
  /\ \A a, b : /\ PairSaid(a, b).type = Add
               /\ PairSaid(a, b).fields[3] = <<a>>
               /\ PairSaid(a, b).fields[4] = <<b>>
               /\ Sum(PairSaid(a, b)) = a + b
               /\ Encoded(PairSaid(a, b)) = PairBytes(a, b)
  /\ \A n : /\ SumSaid(n).type = AddRet /\ SumSaid(n).fields[3] = <<n>>
            /\ Encoded(SumSaid(n)) = NumberBytes(3, n)
<1>1. ASSUME NEW T \in {Echo, C_Echo}, NEW t
      PROVE  /\ TextSaid(T, t).type = T /\ TextSaid(T, t).fields[3] = t
             /\ Encoded(TextSaid(T, t)) = TextBytes(t)
  <2>1. TextSaid(T, t).type = T /\ TextSaid(T, t).fields[3] = t
    BY DEF TextSaid
  <2>2. T # Add /\ T # AddRet
    BY ClassesDiffer
  <2> QED BY <2>1, <2>2 DEF Encoded
<1>2. ASSUME NEW a, NEW b
      PROVE  /\ PairSaid(a, b).type = Add
             /\ PairSaid(a, b).fields[3] = <<a>>
             /\ PairSaid(a, b).fields[4] = <<b>>
             /\ Sum(PairSaid(a, b)) = a + b
             /\ Encoded(PairSaid(a, b)) = PairBytes(a, b)
  <2>1. /\ PairSaid(a, b).type = Add /\ PairSaid(a, b).fields[3] = <<a>>
        /\ PairSaid(a, b).fields[4] = <<b>>
    BY DEF PairSaid
  <2>2. <<a>>[1] = a /\ <<b>>[1] = b
    OBVIOUS
  <2> QED BY <2>1, <2>2 DEF Encoded, Sum
<1>3. ASSUME NEW n
      PROVE  /\ SumSaid(n).type = AddRet /\ SumSaid(n).fields[3] = <<n>>
             /\ Encoded(SumSaid(n)) = NumberBytes(3, n)
  <2>1. SumSaid(n).type = AddRet /\ SumSaid(n).fields[3] = <<n>>
    BY DEF SumSaid
  <2>2. <<n>>[1] = n /\ Add # AddRet
    BY ClassesDiffer
  <2> QED BY <2>1, <2>2 DEF Encoded
<1> QED BY <1>1, <1>2, <1>3

\* The zeros of a request are those of its encoding.
LEMMA HasZeros ==
  /\ \A t \in ShortText :
       HasZero(TextSaid(Echo, t)) <=> ZeroByte(TextBytes(t))
  /\ \A a, b \in Int32 :
       HasZero(PairSaid(a, b)) <=> ZeroByte(PairBytes(a, b))
<1>1. ASSUME NEW t \in ShortText
      PROVE  HasZero(TextSaid(Echo, t)) <=> ZeroByte(TextBytes(t))
  <2>1. TextSaid(Echo, t).type = Echo /\ TextSaid(Echo, t).fields[3] = t
    BY SaidForms
  <2>2. ZeroByte(TextBytes(t)) <=> t = <<>> \/ \E i \in DOMAIN t : t[i] = 0
    BY TextZeros
  <2> QED BY <2>1, <2>2 DEF HasZero
<1>2. ASSUME NEW a \in Int32, NEW b \in Int32
      PROVE  HasZero(PairSaid(a, b)) <=> ZeroByte(PairBytes(a, b))
  <2>1. /\ PairSaid(a, b).type = Add /\ PairSaid(a, b).fields[3] = <<a>>
        /\ PairSaid(a, b).fields[4] = <<b>> /\ Add # Echo
    BY SaidForms, ClassesDiffer
  <2>2. ZeroByte(PairBytes(a, b)) <=> a = 0 \/ b = 0
    BY PairZeros
  <2>3. (<<a>> = <<0>> <=> a = 0) /\ (<<b>> = <<0>> <=> b = 0)
    OBVIOUS
  <2> QED BY <2>1, <2>2, <2>3 DEF HasZero
<1> QED BY <1>1, <1>2

\* What an encoding is like.
IsData(v) == v \in Seq(Nat) /\ 1 <= Len(v) /\ v[1] # 0

LEMMA BytesAreNat == Seq(Byte) \subseteq Seq(Nat)
<1>1. Byte \subseteq Nat
  BY DEF Byte
<1> QED BY <1>1, SeqMonotonic

LEMMA DataForms ==
  /\ \A t \in ShortText : IsData(TextBytes(t))
  /\ \A a, b \in Int32 : IsData(PairBytes(a, b))
  /\ \A n \in Int32 : IsData(NumberBytes(3, n))
<1>1. ASSUME NEW t \in ShortText PROVE IsData(TextBytes(t))
  <2>1. /\ TextBytes(t) \in Seq(Byte) /\ TextBytes(t)[1] = 26
        /\ Len(TextBytes(t)) = (1 + Len(Varint[Len(t)])) + Len(t)
        /\ Len(Varint[Len(t)]) \in Nat \ {0} /\ Len(t) \in Nat
    BY TextBytesType, TextType
  <2> QED BY <2>1, BytesAreNat DEF IsData
<1>2. ASSUME NEW a \in Int32, NEW b \in Int32 PROVE IsData(PairBytes(a, b))
  <2>1. /\ PairBytes(a, b) \in Seq(Byte) /\ PairBytes(a, b)[1] = 24
        /\ Len(PairBytes(a, b))
             = Len(NumberBytes(3, a)) + Len(NumberBytes(4, b))
        /\ Len(NumberBytes(3, a)) \in Nat \ {0}
        /\ Len(NumberBytes(4, b)) \in Nat \ {0}
    BY PairWritten, PairParts
  <2> QED BY <2>1, BytesAreNat DEF IsData
<1>3. ASSUME NEW n \in Int32 PROVE IsData(NumberBytes(3, n))
  <2>1. /\ NumberBytes(3, n) \in Seq(Byte) /\ NumberBytes(3, n)[1] = 8 * 3
        /\ Len(NumberBytes(3, n)) = 1 + Len(WriteInt(n))
        /\ Len(WriteInt(n)) \in Nat \ {0}
    BY NumberBytesType
  <2> QED BY <2>1, BytesAreNat DEF IsData
<1> QED BY <1>1, <1>2, <1>3

LEMMA Asked ==
  /\ Texts \subseteq ShortText /\ Numbers \subseteq Int32
  /\ \A t \in Texts : Prefix \o t \in ShortText
<1>1. ASSUME NEW t \in Texts
      PROVE  t \in ShortText /\ Prefix \o t \in ShortText
  <2>1. /\ t \in Seq(0 .. 127) /\ Prefix \in Seq(1 .. 127)
        /\ Len(Prefix) + Len(t) \in Int32
    BY RpcAssumption
  <2>2. Prefix \in Seq(0 .. 127)
    <3>1. 1 .. 127 \subseteq 0 .. 127
      OBVIOUS
    <3> QED BY <2>1, <3>1, SeqMonotonic
  <2>3. Len(t) \in Nat /\ Len(Prefix) \in Nat
    BY <2>1, LenProperties
  <2>4. Len(t) \in Int32
    <3>1. Pow2[IntBits - 1] \in Nat
      BY Widths
    <3> QED BY <2>1, <2>3, <3>1 DEF Int32
  <2>5. /\ Prefix \o t \in Seq(0 .. 127)
        /\ Len(Prefix \o t) = Len(Prefix) + Len(t)
    BY <2>1, <2>2, ConcatProperties
  <2> QED BY <2>1, <2>4, <2>5 DEF ShortText
<1> QED BY <1>1, RpcAssumption

\* Every request, and every answer, has an encoding and an id.
LEMMA FramesForms ==
  ASSUME NEW r \in Requests \cup Replies
  PROVE  IsData(Encoded(r)) /\ r.type.command_id \in Nat
<1>1. CASE r \in {TextSaid(Echo, t) : t \in Texts}
  <2>1. PICK t \in Texts : r = TextSaid(Echo, t)
    BY <1>1
  <2>2. Encoded(r) = TextBytes(t) /\ r.type = Echo /\ t \in ShortText
    BY <2>1, SaidForms, Asked
  <2> QED BY <2>2, DataForms, Classes
<1>2. CASE r \in {PairSaid(a, b) : a, b \in Numbers}
  <2>1. PICK a \in Numbers, b \in Numbers : r = PairSaid(a, b)
    BY <1>2
  <2>2. Encoded(r) = PairBytes(a, b) /\ r.type = Add
    BY <2>1, SaidForms
  <2>3. a \in Int32 /\ b \in Int32
    BY Asked
  <2> QED BY <2>2, <2>3, DataForms, Classes
<1>3. CASE r \in {TextSaid(C_Echo, t) : t \in ShortText}
  <2>1. PICK t \in ShortText : r = TextSaid(C_Echo, t)
    BY <1>3
  <2>2. Encoded(r) = TextBytes(t) /\ r.type = C_Echo
    BY <2>1, SaidForms
  <2> QED BY <2>2, DataForms, Classes
<1>4. CASE r \in {SumSaid(n) : n \in Int32}
  <2>1. PICK n \in Int32 : r = SumSaid(n)
    BY <1>4
  <2>2. Encoded(r) = NumberBytes(3, n) /\ r.type = AddRet
    BY <2>1, SaidForms
  <2> QED BY <2>2, DataForms, Classes
<1> QED BY <1>1, <1>2, <1>3, <1>4 DEF Requests, Replies

\* The client sends the frame of what it asks, and SerializeToString's
\* assertion holds.
SendsFrame(m) ==
  /\ Len(Serialize(m)) = ByteSize(m)
  /\ get_raw(service_id(m), command_id(m), Serialize(m)) = Frame(Said(m))

LEMMA RequestSent ==
  /\ \A t \in Texts : /\ SendsFrame(TextMsg(Echo, t))
                      /\ Said(TextMsg(Echo, t)) \in Requests
  /\ \A a, b \in Numbers : /\ SendsFrame(PairMsg(a, b))
                           /\ Said(PairMsg(a, b)) \in Requests
<1>1. ASSUME NEW t \in Texts
      PROVE  /\ SendsFrame(TextMsg(Echo, t))
             /\ Said(TextMsg(Echo, t)) \in Requests
  <2>1. t \in ShortText
    BY Asked
  <2>2. /\ service_id(TextMsg(Echo, t)) = 1000
        /\ command_id(TextMsg(Echo, t)) = Echo.command_id
        /\ Said(TextMsg(Echo, t)) = TextSaid(Echo, t)
    BY TextMsgFields
  <2>3. /\ Serialize(TextMsg(Echo, t)) = TextBytes(t)
        /\ ByteSize(TextMsg(Echo, t)) = Len(TextBytes(t))
    BY <2>1, TextWritten
  <2>4. /\ TextSaid(Echo, t).type = Echo
        /\ Encoded(TextSaid(Echo, t)) = TextBytes(t)
    BY SaidForms
  <2> QED BY <2>2, <2>3, <2>4 DEF SendsFrame, Frame, Requests
<1>2. ASSUME NEW a \in Numbers, NEW b \in Numbers
      PROVE  SendsFrame(PairMsg(a, b)) /\ Said(PairMsg(a, b)) \in Requests
  <2>1. a \in Int32 /\ b \in Int32
    BY Asked
  <2>2. /\ service_id(PairMsg(a, b)) = 1000
        /\ command_id(PairMsg(a, b)) = 1001
        /\ Said(PairMsg(a, b)) = PairSaid(a, b)
    BY PairMsgFields
  <2>3. /\ Serialize(PairMsg(a, b)) = PairBytes(a, b)
        /\ ByteSize(PairMsg(a, b)) = Len(PairBytes(a, b))
    BY <2>1, PairWritten
  <2>4. /\ PairSaid(a, b).type = Add /\ Add.command_id = 1001
        /\ Encoded(PairSaid(a, b)) = PairBytes(a, b)
    BY SaidForms, Classes
  <2> QED BY <2>2, <2>3, <2>4 DEF SendsFrame, Frame, Requests
<1> QED BY <1>1, <1>2

\* The answer of a service that is given r.
Reply(r) ==
  IF r.type = Echo THEN <<TextMsg(C_Echo, Prefix \o r.fields[3])>>
  ELSE IF Sum(r) \in Int32 THEN <<SumMsg(Sum(r))>> ELSE <<>>

\* What becomes of a request.
Outcome(r) == IF HasZero(r) THEN [given |-> Nothing, answer |-> <<>>]
              ELSE [given |-> r, answer |-> Reply(r)]

LEMMA Registries ==
  /\ DOMAIN PyProtos = {<<1000, 1>>, <<1000, 1001>>}
  /\ PyProtos[<<1000, 1>>] = Echo /\ PyProtos[<<1000, 1001>>] = Add
  /\ DOMAIN ServerProtos = {<<1000, 1002>>}
  /\ DOMAIN ClientProtos = {<<1000, 1002>>, <<1000, 2>>}
  /\ ClientProtos[<<1000, 2>>] = C_Echo
  /\ ClientProtos[<<1000, 1002>>] = AddRet
<1>1. /\ <<1000, 1>> # <<1000, 1001>> /\ <<1000, 2>> # <<1000, 1002>>
  OBVIOUS
<1> QED BY <1>1 DEF PyProtos, ServerProtos, ClientProtos

LEMMA WholeInitial ==
  ASSUME NEW v, IsData(v)
  PROVE  Initial(v, v)
BY LenProperties DEF IsData, Initial

\* A text, or the part of it that a C string is, given to its service.
LEMMA TextHandled ==
  ASSUME NEW t \in ShortText
  PROVE  HandleMsg(<<1000, 1>>, CString(TextBytes(t)))
           = Outcome(TextSaid(Echo, t))
<1> DEFINE v == TextBytes(t)
           c == CString(v)
           r == TextSaid(Echo, t)
           m == Parse(Echo, c).message
<1>1. IsData(v)
  BY DataForms
<1>2. /\ ~ZeroByte(v) => c = v
      /\ ZeroByte(v) => Initial(c, v) /\ Len(c) < Len(v)
  <2> HIDE DEF v
  <2> QED BY <1>1, CStringCuts DEF IsData
<1>3. HasZero(r) <=> ZeroByte(v)
  BY HasZeros
<1>4. /\ <<1000, 1>> \in DOMAIN PyProtos
      /\ PyProtos[<<1000, 1>>] = Echo
  BY Registries
<1>5. CASE ZeroByte(v)
  <2>1. Initial(c, v) /\ Len(c) < Len(v)
    BY <1>2, <1>5
  <2>2. Parse(Echo, c).ok = FALSE
    <3> HIDE DEF c
    <3> QED BY <2>1, TextReads
  <2> HIDE DEF c, r
  <2>3. HandleMsg(<<1000, 1>>, c) = [given |-> Nothing, answer |-> <<>>]
    BY <1>4, <2>2 DEF HandleMsg
  <2> QED BY <1>3, <1>5, <2>3 DEF Outcome, c, r
<1>6. CASE ~ZeroByte(v)
  <2>1. c = v
    BY <1>2, <1>6
  <2>2. Initial(c, v) /\ Len(c) = Len(v)
    BY <1>1, <2>1, WholeInitial
  <2>3. /\ Parse(Echo, c).ok = TRUE /\ m.type = Echo /\ m.value[3] = t
        /\ Said(m) = r
    <3> HIDE DEF c
    <3> QED BY <2>2, TextReads
  <2>4. on_echo(m) = <<TextMsg(C_Echo, Prefix \o t)>>
    <3> HIDE DEF m
    <3> QED BY <2>3 DEF on_echo, TextMsg
  <2>5. HandleMsg(<<1000, 1>>, c) = [given |-> Said(m), answer |-> on_echo(m)]
    <3> HIDE DEF c
    <3> QED BY <1>4, <2>3 DEF HandleMsg
  <2>6. r.type = Echo /\ r.fields[3] = t
    BY SaidForms
  <2> HIDE DEF m, c, r
  <2>7. Reply(r) = <<TextMsg(C_Echo, Prefix \o t)>>
    BY <2>6 DEF Reply
  <2> QED BY <1>3, <1>6, <2>3, <2>4, <2>5, <2>7 DEF Outcome, c, r
<1> QED BY <1>5, <1>6

\* Two numbers: a C string cannot end just after the first, because the next
\* byte is a tag.
LEMMA PairHandled ==
  ASSUME NEW a \in Int32, NEW b \in Int32
  PROVE  HandleMsg(<<1000, 1001>>, CString(PairBytes(a, b)))
           = Outcome(PairSaid(a, b))
<1> DEFINE v == PairBytes(a, b)
           c == CString(v)
           r == PairSaid(a, b)
           m == Parse(Add, c).message
<1>1. IsData(v)
  BY DataForms
<1>2. /\ ~ZeroByte(v) => c = v
      /\ ZeroByte(v) => /\ Initial(c, v) /\ Len(c) < Len(v)
                        /\ v[Len(c) + 1] = 0
  <2> HIDE DEF v
  <2> QED BY <1>1, CStringCuts DEF IsData
<1>3. HasZero(r) <=> ZeroByte(v)
  BY HasZeros
<1>4. /\ <<1000, 1001>> \in DOMAIN PyProtos
      /\ PyProtos[<<1000, 1001>>] = Add
  BY Registries
<1>5. CASE ZeroByte(v)
  <2>1. Initial(c, v) /\ Len(c) < Len(v) /\ v[Len(c) + 1] = 0
    BY <1>2, <1>5
  <2>2. v[Len(NumberBytes(3, a)) + 1] = 32
    BY PairParts
  <2>3. Parse(Add, c).ok = FALSE
    <3> HIDE DEF c
    <3>1. Len(c) # Len(NumberBytes(3, a))
      <4> HIDE DEF v
      <4> QED BY <2>1, <2>2
    <3> QED BY <2>1, <3>1, PairReads
  <2> HIDE DEF c, r
  <2>4. HandleMsg(<<1000, 1001>>, c) = [given |-> Nothing, answer |-> <<>>]
    BY <1>4, <2>3 DEF HandleMsg
  <2> QED BY <1>3, <1>5, <2>4 DEF Outcome, c, r
<1>6. CASE ~ZeroByte(v)
  <2>1. c = v
    BY <1>2, <1>6
  <2>2. Initial(c, v) /\ Len(c) = Len(v)
    BY <1>1, <2>1, WholeInitial
  <2>3. /\ Parse(Add, c).ok = TRUE /\ m.type = Add
        /\ m.value[3] = a /\ m.value[4] = b /\ Said(m) = r
    <3> HIDE DEF c
    <3> QED BY <2>2, PairReads
  <2>4. Add # Echo
    BY ClassesDiffer
  <2>5. on_add(m) = IF a + b \in Int32 THEN <<SumMsg(a + b)>> ELSE <<>>
    <3> HIDE DEF m
    <3> QED BY <2>3 DEF on_add, SumMsg
  <2>6. HandleMsg(<<1000, 1001>>, c) = [given |-> Said(m), answer |-> on_add(m)]
    <3> HIDE DEF c
    <3> QED BY <1>4, <2>3, <2>4 DEF HandleMsg
  <2>7. r.type = Add /\ Sum(r) = a + b
    BY SaidForms
  <2> HIDE DEF m, c, r
  <2>8. Reply(r) = IF a + b \in Int32 THEN <<SumMsg(a + b)>> ELSE <<>>
    BY <2>4, <2>7 DEF Reply
  <2> QED BY <1>3, <1>6, <2>3, <2>5, <2>6, <2>8 DEF Outcome, c, r
<1> QED BY <1>5, <1>6

\* What the server does with the frame of a request, from Proto::on_msg through
\* handle_pb_msg and its C string to proto.HandleMsg and Test.py: it is given
\* the request and has its answer, or nothing if a zero byte cut it.
THEOREM RequestHandled ==
  ASSUME NEW r \in Requests, NEW msg, Key(msg) = <<1000, r.type.command_id>>,
         Payload(msg) = Encoded(r)
  PROVE  OnMsg(msg) = Outcome(r)
<1>1. CASE r \in {TextSaid(Echo, t) : t \in Texts}
  <2>1. PICK t \in Texts : r = TextSaid(Echo, t)
    BY <1>1
  <2>2. Encoded(r) = TextBytes(t) /\ r.type = Echo /\ t \in ShortText
    BY <2>1, SaidForms, Asked
  <2>3. Key(msg) = <<1000, 1>>
    BY <2>2, Classes
  <2>4. <<1000, 1>> \notin DOMAIN ServerProtos
    BY Registries
  <2>5. HandleMsg(<<1000, 1>>, CString(TextBytes(t))) = Outcome(r)
    BY <2>1, <2>2, TextHandled
  <2> QED BY <2>2, <2>3, <2>4, <2>5 DEF OnMsg
<1>2. CASE r \in {PairSaid(a, b) : a, b \in Numbers}
  <2>1. PICK a \in Numbers, b \in Numbers : r = PairSaid(a, b)
    BY <1>2
  <2>2. /\ Encoded(r) = PairBytes(a, b) /\ r.type = Add
        /\ a \in Int32 /\ b \in Int32
    BY <2>1, SaidForms, Asked
  <2>3. Key(msg) = <<1000, 1001>>
    BY <2>2, Classes
  <2>4. <<1000, 1001>> \notin DOMAIN ServerProtos
    BY Registries
  <2>5. HandleMsg(<<1000, 1001>>, CString(PairBytes(a, b))) = Outcome(r)
    BY <2>1, <2>2, PairHandled
  <2> QED BY <2>2, <2>3, <2>4, <2>5 DEF OnMsg
<1> QED BY <1>1, <1>2 DEF Requests

\* What the client makes of the frame of an answer.
LEMMA ReplyTold ==
  ASSUME NEW r \in Replies, NEW msg, Key(msg) = <<1000, r.type.command_id>>,
         Payload(msg) = Encoded(r)
  PROVE  /\ Key(msg) \in DOMAIN ClientProtos
         /\ Given(ClientProtos[Key(msg)], Payload(msg)) = r
<1>1. CASE r \in {TextSaid(C_Echo, t) : t \in ShortText}
  <2>1. PICK t \in ShortText : r = TextSaid(C_Echo, t)
    BY <1>1
  <2>2. Encoded(r) = TextBytes(t) /\ r.type = C_Echo
    BY <2>1, SaidForms
  <2>3. Key(msg) = <<1000, 2>>
    BY <2>2, Classes
  <2>4. Initial(TextBytes(t), TextBytes(t))
    BY DataForms, WholeInitial
  <2>5. Said(Parse(C_Echo, TextBytes(t)).message) = TextSaid(C_Echo, t)
    <3> DEFINE v == TextBytes(t)
    <3>1. Initial(v, TextBytes(t)) /\ Len(v) = Len(TextBytes(t))
      BY <2>4
    <3> HIDE DEF v
    <3>2. Said(Parse(C_Echo, v).message) = TextSaid(C_Echo, t)
      BY <3>1, TextReads
    <3> QED BY <3>2 DEF v
  <2> QED BY <2>1, <2>2, <2>3, <2>5, Registries DEF Given
<1>2. CASE r \in {SumSaid(n) : n \in Int32}
  <2>1. PICK n \in Int32 : r = SumSaid(n)
    BY <1>2
  <2>2. Encoded(r) = NumberBytes(3, n) /\ r.type = AddRet
    BY <2>1, SaidForms
  <2>3. Key(msg) = <<1000, 1002>>
    BY <2>2, Classes
  <2>4. Said(Parse(AddRet, NumberBytes(3, n)).message) = r
    <3>1. Said(Parse(AddRet, NumberBytes(3, n)).message) = SumSaid(n)
      BY SumReads, Zenon
    <3> QED BY <2>1, <3>1
  <2> QED BY <2>2, <2>3, <2>4, Registries DEF Given
<1> QED BY <1>1, <1>2 DEF Replies

\* The answer is sent if the request is plain; a sum of zero is the only answer
\* that is refused.
RepliesTo(r, m) ==
  /\ Len(CString(Serialize(m))) = Len(Serialize(m))
  /\ get_raw(service_id(m), command_id(m), Serialize(m)) = Frame(AnswerTo(r))

LEMMA EchoSent ==
  ASSUME NEW t \in Texts, ~HasZero(TextSaid(Echo, t))
  PROVE  LET r == TextSaid(Echo, t)
             m == TextMsg(C_Echo, Prefix \o t)
         IN /\ Plain(r) /\ AnswerTo(r) \in Replies
            /\ Reply(r) = <<m>> /\ RepliesTo(r, m)
<1> DEFINE r == TextSaid(Echo, t)
           u == Prefix \o t
           m == TextMsg(C_Echo, u)
           s == TextBytes(u)
<1>1. r.type = Echo /\ r.fields[3] = t /\ Echo # Add
  BY SaidForms, ClassesDiffer
<1>2. t \in ShortText /\ u \in ShortText
  BY Asked
<1>3. AnswerTo(r) = TextSaid(C_Echo, u)
  <2> HIDE DEF r
  <2> QED BY <1>1 DEF AnswerTo, TextSaid
<1>4. Plain(r) /\ Reply(r) = <<m>>
  BY <1>1 DEF Plain, Reply
<1>5. ~ZeroByte(s)
  <2>1. t # <<>> /\ \A i \in DOMAIN t : t[i] # 0
    BY <1>1 DEF HasZero
  <2>2. /\ Prefix \in Seq(1 .. 127) /\ t \in Seq(0 .. 127)
        /\ Len(Prefix) \in Nat /\ Len(t) \in Nat
    BY <1>2, RpcAssumption, LenProperties DEF ShortText
  <2>3. Prefix \in Seq(Nat) /\ t \in Seq(Nat)
    <3>1. 1 .. 127 \subseteq Nat /\ 0 .. 127 \subseteq Nat
      OBVIOUS
    <3> DEFINE A == 1 .. 127
               B == 0 .. 127
    <3>2. Seq(A) \subseteq Seq(Nat)
      <4>1. A \subseteq Nat
        BY <3>1
      <4> HIDE DEF A
      <4> QED BY <4>1, SeqMonotonic
    <3>3. Seq(B) \subseteq Seq(Nat)
      <4>1. B \subseteq Nat
        BY <3>1
      <4> HIDE DEF B
      <4> QED BY <4>1, SeqMonotonic
    <3> QED BY <2>2, <3>2, <3>3
  <2>4. IsJoin(u, Prefix, t)
    BY <2>3, Joined
  <2>5. Len(t) # 0 /\ DOMAIN t = 1 .. Len(t)
    BY <2>1, <2>2, EmptySeq, LenProperties
  <2> HIDE DEF u
  <2>6. Len(u) = Len(Prefix) + Len(t) /\ DOMAIN u = 1 .. Len(u)
    BY <2>4, LenProperties DEF IsJoin
  <2>7. u # <<>>
    BY <2>2, <2>5, <2>6
  <2>8. ASSUME NEW i \in DOMAIN u PROVE u[i] # 0
    <3>1. CASE i \in 1 .. Len(Prefix)
      <4>1. u[i] = Prefix[i]
        BY <2>4, <3>1 DEF IsJoin
      <4>2. Prefix[i] \in 1 .. 127
        BY <2>2, <3>1, ElementOfSeq
      <4> QED BY <4>1, <4>2
    <3>2. CASE i \notin 1 .. Len(Prefix)
      <4>1. /\ i - Len(Prefix) \in 1 .. Len(t)
            /\ Len(Prefix) + (i - Len(Prefix)) = i
        BY <2>2, <2>6, <3>2
      <4>2. u[i] = t[i - Len(Prefix)]
        BY <2>4, <4>1 DEF IsJoin
      <4> QED BY <2>1, <2>5, <4>1, <4>2
    <3> QED BY <3>1, <3>2
  <2>9. ZeroByte(s) <=> u = <<>> \/ \E i \in DOMAIN u : u[i] = 0
    BY <1>2, TextZeros DEF u
  <2> QED BY <2>7, <2>8, <2>9
<1>6. Serialize(m) = s /\ service_id(m) = 1000 /\ command_id(m) = C_Echo.command_id
  BY <1>2, TextWritten, TextMsgFields
<1>7. IsData(s)
  BY <1>2, DataForms
<1>8. CString(s) = s
  <2> HIDE DEF s
  <2> QED BY <1>5, <1>7, CStringCuts DEF IsData
<1>9. Encoded(AnswerTo(r)) = s /\ AnswerTo(r).type = C_Echo
  BY <1>3, SaidForms
<1>10. AnswerTo(r) \in Replies
  BY <1>2, <1>3 DEF Replies
<1> HIDE DEF r, m, s
<1>11. RepliesTo(r, m)
  BY <1>6, <1>8, <1>9 DEF RepliesTo, Frame
<1> QED BY <1>4, <1>10, <1>11 DEF r, m, u

LEMMA SumSent ==
  ASSUME NEW a \in Numbers, NEW b \in Numbers, ~HasZero(PairSaid(a, b))
  PROVE  LET r == PairSaid(a, b)
             m == SumMsg(Sum(r))
         IN /\ Plain(r) <=> Sum(r) \in Int32 \ {0}
            /\ Reply(r) = IF Sum(r) \in Int32 THEN <<m>> ELSE <<>>
            /\ Plain(r) => AnswerTo(r) \in Replies /\ RepliesTo(r, m)
            /\ Sum(r) = 0 => Len(CString(Serialize(m))) # Len(Serialize(m))
<1> DEFINE r == PairSaid(a, b)
           n == Sum(r)
           m == SumMsg(n)
           s == NumberBytes(3, n)
<1>1. r.type = Add /\ Echo # Add
  BY SaidForms, ClassesDiffer
<1> HIDE DEF r
<1>2. Plain(r) <=> n \in Int32 \ {0}
  BY <1>1 DEF Plain, r
<1>3. Reply(r) = IF n \in Int32 THEN <<m>> ELSE <<>>
  BY <1>1 DEF Reply
<1>4. AnswerTo(r) = SumSaid(n)
  BY <1>1 DEF AnswerTo, SumSaid
<1>5. service_id(m) = 1000 /\ command_id(m) = 1002
  BY SumMsgFields
<1> HIDE DEF n, m
<1>6. ASSUME n \in Int32
      PROVE  /\ Serialize(m) = s /\ IsData(s) /\ (ZeroByte(s) <=> n = 0)
  BY <1>6, SumWritten, DataForms, NumberZeros DEF m
<1>7. ASSUME n \in Int32 \ {0}
      PROVE  AnswerTo(r) \in Replies /\ RepliesTo(r, m)
  <2>1. Serialize(m) = s /\ IsData(s) /\ ~ZeroByte(s)
    BY <1>6, <1>7
  <2>2. Encoded(AnswerTo(r)) = s /\ AnswerTo(r).type = AddRet
    BY <1>4, SaidForms
  <2> HIDE DEF s
  <2>3. CString(s) = s
    BY <2>1, CStringCuts DEF IsData
  <2>4. AddRet.command_id = 1002
    BY Classes
  <2>5. AnswerTo(r) \in Replies
    BY <1>4, <1>7 DEF Replies
  <2> QED BY <1>5, <2>1, <2>2, <2>3, <2>4, <2>5 DEF RepliesTo, Frame
<1>8. ASSUME n = 0
      PROVE  Len(CString(Serialize(m))) # Len(Serialize(m))
  <2>1. n \in Int32
    BY <1>8, Widths DEF Int32
  <2>2. Serialize(m) = s /\ IsData(s) /\ ZeroByte(s)
    BY <1>6, <1>8, <2>1
  <2> HIDE DEF s
  <2>3. Len(CString(s)) < Len(s) /\ Len(CString(s)) \in Nat /\ Len(s) \in Nat
    BY <2>2, CStringCuts, LenProperties DEF IsData, Initial
  <2> QED BY <2>2, <2>3
<1> QED BY <1>2, <1>3, <1>7, <1>8 DEF r, n, m

\* Of either kind.
LEMMA ReplySent ==
  ASSUME NEW r \in Requests, ~HasZero(r)
  PROVE  /\ Plain(r) => /\ Reply(r) # <<>> /\ AnswerTo(r) \in Replies
                        /\ RepliesTo(r, Reply(r)[1])
         /\ ~Plain(r) /\ Reply(r) # <<>> =>
              /\ r.type = Add /\ Sum(r) = 0
              /\ Len(CString(Serialize(Reply(r)[1])))
                   # Len(Serialize(Reply(r)[1]))
<1>1. CASE r \in {TextSaid(Echo, t) : t \in Texts}
  <2>1. PICK t \in Texts : r = TextSaid(Echo, t)
    BY <1>1
  <2> DEFINE m == TextMsg(C_Echo, Prefix \o t)
  <2>2. /\ Plain(r) /\ AnswerTo(r) \in Replies
        /\ Reply(r) = <<m>> /\ RepliesTo(r, m)
    BY <2>1, EchoSent
  <2> HIDE DEF m
  <2>3. <<m>> # <<>> /\ <<m>>[1] = m
    OBVIOUS
  <2> QED BY <2>2, <2>3
<1>2. CASE r \in {PairSaid(a, b) : a, b \in Numbers}
  <2>1. PICK a \in Numbers, b \in Numbers : r = PairSaid(a, b)
    BY <1>2
  <2> DEFINE m == SumMsg(Sum(r))
  <2>2. /\ Plain(r) <=> Sum(r) \in Int32 \ {0}
        /\ Reply(r) = IF Sum(r) \in Int32 THEN <<m>> ELSE <<>>
        /\ Plain(r) => AnswerTo(r) \in Replies /\ RepliesTo(r, m)
        /\ Sum(r) = 0 => Len(CString(Serialize(m))) # Len(Serialize(m))
    BY <2>1, SumSent
  <2>3. r.type = Add
    BY <2>1, SaidForms
  <2> HIDE DEF m
  <2>4. <<m>> # <<>> /\ <<m>>[1] = m
    OBVIOUS
  <2>5. CASE Plain(r)
    BY <2>2, <2>4, <2>5
  <2>6. CASE ~Plain(r) /\ Reply(r) # <<>>
    <3>1. Reply(r) = <<m>> /\ Sum(r) = 0
      BY <2>2, <2>6
    <3> QED BY <2>2, <2>3, <2>4, <2>6, <3>1
  <2> QED BY <2>5, <2>6
<1> QED BY <1>1, <1>2 DEF Requests

\* What one end serializes the other parses, and it says the same: every text
\* that protobuf writes, and every pair and sum of int32s, at every width.
THEOREM RoundTrip ==
  /\ \A T \in {Echo, C_Echo} : \A t \in ShortText :
       LET m    == TextMsg(T, t)
           read == Parse(T, Serialize(m))
       IN read.ok = TRUE /\ Said(read.message) = Said(m)
  /\ \A a, b \in Int32 :
       LET m    == PairMsg(a, b)
           read == Parse(Add, Serialize(m))
       IN read.ok = TRUE /\ Said(read.message) = Said(m)
  /\ \A n \in Int32 :
       LET m    == SumMsg(n)
           read == Parse(AddRet, Serialize(m))
       IN read.ok = TRUE /\ Said(read.message) = Said(m)
<1>1. ASSUME NEW T \in {Echo, C_Echo}, NEW t \in ShortText
      PROVE  LET m    == TextMsg(T, t)
                 read == Parse(T, Serialize(m))
             IN read.ok = TRUE /\ Said(read.message) = Said(m)
  <2> DEFINE v == TextBytes(t)
  <2>1. Serialize(TextMsg(T, t)) = v /\ Said(TextMsg(T, t)) = TextSaid(T, t)
    BY TextWritten, TextMsgFields
  <2>2. Initial(v, TextBytes(t)) /\ Len(v) = Len(TextBytes(t))
    BY DataForms, WholeInitial
  <2> HIDE DEF v
  <2>3. /\ Parse(T, v).ok = TRUE
        /\ Said(Parse(T, v).message) = TextSaid(T, t)
    BY <2>2, TextReads
  <2> QED BY <2>1, <2>3
<1>2. ASSUME NEW a \in Int32, NEW b \in Int32
      PROVE  LET m    == PairMsg(a, b)
                 read == Parse(Add, Serialize(m))
             IN read.ok = TRUE /\ Said(read.message) = Said(m)
  <2> DEFINE v == PairBytes(a, b)
  <2>1. Serialize(PairMsg(a, b)) = v /\ Said(PairMsg(a, b)) = PairSaid(a, b)
    BY PairWritten, PairMsgFields
  <2>2. Initial(v, PairBytes(a, b)) /\ Len(v) = Len(PairBytes(a, b))
    BY DataForms, WholeInitial
  <2> HIDE DEF v
  <2>3. /\ Parse(Add, v).ok = TRUE
        /\ Said(Parse(Add, v).message) = PairSaid(a, b)
    BY <2>2, PairReads
  <2> QED BY <2>1, <2>3
<1>3. ASSUME NEW n \in Int32
      PROVE  LET m    == SumMsg(n)
                 read == Parse(AddRet, Serialize(m))
             IN read.ok = TRUE /\ Said(read.message) = Said(m)
  <2>1. /\ Serialize(SumMsg(n)) = NumberBytes(3, n)
        /\ Said(SumMsg(n)) = SumSaid(n)
    BY SumWritten, SumMsgFields
  <2> QED BY <2>1, SumReads
<1> QED BY <1>1, <1>2, <1>3

-----------------------------------------------------------------------------
(* Which answers are due, and what is on its way *)

DueTo(s) ==
  LET due[k \in 0 .. Len(s)] ==
        IF k = 0 THEN <<>>
        ELSE IF Plain(s[k]) THEN Append(due[k - 1], AnswerTo(s[k]))
        ELSE due[k - 1]
  IN due

LEMMA PlainAnswer ==
  ASSUME NEW r \in Requests, Plain(r)
  PROVE  AnswerTo(r) \in Replies
BY ReplySent DEF Plain

LEMMA DueDef ==
  ASSUME NEW s \in Seq(Requests)
  PROVE  /\ Answers(s) = DueTo(s)[Len(s)]
         /\ DueTo(s)[0] = <<>>
         /\ \A k \in 1 .. Len(s) :
              DueTo(s)[k] = IF Plain(s[k])
                            THEN Append(DueTo(s)[k - 1], AnswerTo(s[k]))
                            ELSE DueTo(s)[k - 1]
<1> DEFINE X == 0 .. Len(s)
           S == Seq(Replies)
           h == [k \in X |-> IF k = 0 THEN k ELSE k - 1]
           Step(k, u) == IF k = 0 THEN <<>>
                         ELSE IF Plain(s[k]) THEN Append(u, AnswerTo(s[k]))
                         ELSE u
           G == [y \in X \X S |-> Step(y[1], y[2])]
           rank == [k \in X |-> k]
           Value(f) == [k \in X |-> IF k = 0 THEN <<>>
                                    ELSE IF Plain(s[k])
                                    THEN Append(f[k - 1], AnswerTo(s[k]))
                                    ELSE f[k - 1]]
           v == CHOOSE f : f = Value(f)
<1>1. Len(s) \in Nat /\ \A k \in 1 .. Len(s) : s[k] \in Requests
  BY LenProperties, ElementOfSeq
<1>2. ASSUME NEW k \in X, NEW u \in S PROVE Step(k, u) \in S
  <2>1. CASE k = 0
    <3>1. <<>> \in S
      BY EmptySeq
    <3> HIDE DEF S
    <3> QED BY <2>1, <3>1
  <2>2. CASE k # 0 /\ Plain(s[k])
    <3>1. s[k] \in Requests
      BY <1>1, <2>2
    <3>2. AnswerTo(s[k]) \in Replies
      BY <2>2, <3>1, PlainAnswer
    <3>3. Append(u, AnswerTo(s[k])) \in S
      BY <3>2, AppendProperties
    <3> HIDE DEF S
    <3> QED BY <2>2, <3>3
  <2>3. CASE k # 0 /\ ~Plain(s[k])
    <3> HIDE DEF S
    <3> QED BY <2>3
  <2> QED BY <2>1, <2>2, <2>3
<1>3. WellFounded(X, S, rank, h, G)
  <2>1. rank \in [X -> Nat] /\ h \in [X -> X]
    BY <1>1
  <2>2. G \in [X \X S -> S]
    <3> HIDE DEF X, S, Step
    <3> QED BY <1>2
  <2>3. S # {}
    BY EmptySeq
  <2>4. ASSUME NEW k \in X
        PROVE  \/ rank[h[k]] < rank[k]
               \/ \A u, w \in S : G[<<k, u>>] = G[<<k, w>>]
    <3>1. CASE k = 0
      <4>1. \A u \in S : G[<<k, u>>] = <<>>
        <5> HIDE DEF S
        <5> QED BY <3>1
      <4> HIDE DEF G, S
      <4> QED BY <4>1
    <3>2. CASE k # 0
      <4>1. h[k] = k - 1 /\ k - 1 \in X
        BY <1>1, <3>2
      <4>2. rank[k - 1] < rank[k]
        BY <4>1
      <4> HIDE DEF h, rank
      <4> QED BY <4>1, <4>2
    <3> QED BY <3>1, <3>2
  <2> HIDE DEF X, S, h, G, rank
  <2> QED BY <2>1, <2>2, <2>3, <2>4 DEF WellFounded
<1>4. \E f \in [X -> S] : \A x \in X : f[x] = G[<<x, f[h[x]]>>]
  <2> HIDE DEF X, S, h, G, rank
  <2> QED BY <1>3, Recursion
<1>5. PICK f \in [X -> S] : \A x \in X : f[x] = G[<<x, f[h[x]]>>]
  BY <1>4
<1>6. f = Value(f)
  <2>1. ASSUME NEW k \in X
        PROVE  f[k] = IF k = 0 THEN <<>>
                      ELSE IF Plain(s[k]) THEN Append(f[k - 1], AnswerTo(s[k]))
                      ELSE f[k - 1]
    <3>1. h[k] \in X /\ (k # 0 => h[k] = k - 1)
      BY <1>1
    <3>2. f[k] = G[<<k, f[h[k]]>>] /\ f[h[k]] \in S
      <4> HIDE DEF X, S, h, G
      <4> QED BY <1>5, <3>1
    <3>3. G[<<k, f[h[k]]>>] = Step(k, f[h[k]])
      <4> HIDE DEF X, S, h, Step
      <4> QED BY <3>2
    <3> HIDE DEF G, h
    <3> QED BY <3>1, <3>2, <3>3
  <2> HIDE DEF X
  <2> QED BY <1>5, <2>1
<1>7. v = Value(v)
  BY <1>6
<1>8. DueTo(s) = v
  BY DEF DueTo
<1>9. Answers(s) = DueTo(s)[Len(s)]
  BY DEF Answers, DueTo
<1> HIDE DEF v
<1>10. /\ v[0] = <<>>
       /\ \A k \in 1 .. Len(s) :
            v[k] = IF Plain(s[k]) THEN Append(v[k - 1], AnswerTo(s[k]))
                   ELSE v[k - 1]
  <2>1. 0 \in X /\ \A k \in 1 .. Len(s) : k \in X /\ k # 0
    BY <1>1
  <2> HIDE DEF X
  <2> QED BY <1>7, <2>1
<1> QED BY <1>8, <1>9, <1>10

LEMMA AnswersNone == Answers(<<>>) = <<>>
<1>1. <<>> \in Seq(Requests) /\ Len(<<>>) = 0
  BY EmptySeq
<1> QED BY <1>1, DueDef

LEMMA AnswersMore ==
  ASSUME NEW s \in Seq(Requests), NEW r \in Requests
  PROVE  Answers(Append(s, r)) = IF Plain(r)
                                 THEN Append(Answers(s), AnswerTo(r))
                                 ELSE Answers(s)
<1> DEFINE n == Len(s)
           t == Append(s, r)
           d == DueTo(s)
           e == DueTo(t)
           A == {k \in Nat : k <= n => e[k] = d[k]}
<1>1. /\ t \in Seq(Requests) /\ Len(t) = n + 1 /\ n \in Nat /\ t[n + 1] = r
      /\ \A k \in 1 .. n : t[k] = s[k]
  BY AppendProperties, LenProperties
<1> HIDE DEF t
<1>2. /\ Answers(s) = d[n] /\ d[0] = <<>>
      /\ \A k \in 1 .. n : d[k] = IF Plain(s[k])
                                  THEN Append(d[k - 1], AnswerTo(s[k]))
                                  ELSE d[k - 1]
  BY DueDef
<1>3. /\ Answers(t) = e[n + 1] /\ e[0] = <<>>
      /\ \A k \in 1 .. n + 1 : e[k] = IF Plain(t[k])
                                      THEN Append(e[k - 1], AnswerTo(t[k]))
                                      ELSE e[k - 1]
  BY <1>1, DueDef
<1> HIDE DEF d, e, n
<1>4. 0 \in A
  BY <1>2, <1>3
<1>5. ASSUME NEW k \in A PROVE k + 1 \in A
  <2>1. SUFFICES ASSUME k + 1 <= n PROVE e[k + 1] = d[k + 1]
    OBVIOUS
  <2>2. /\ k \in Nat /\ k + 1 \in 1 .. n /\ k + 1 \in 1 .. n + 1
        /\ (k + 1) - 1 = k /\ e[k] = d[k]
    BY <1>1, <2>1
  <2>3. t[k + 1] = s[k + 1]
    BY <1>1, <2>2
  <2> HIDE DEF A
  <2> QED BY <1>2, <1>3, <2>2, <2>3
<1>6. A = Nat
  <2>1. A \in SUBSET Nat
    OBVIOUS
  <2> HIDE DEF A
  <2> QED BY <1>4, <1>5, <2>1, NatInd
<1>7. e[n] = d[n]
  <2>1. n \in A
    BY <1>1, <1>6
  <2> QED BY <1>1, <2>1
<1>8. n + 1 \in 1 .. n + 1 /\ (n + 1) - 1 = n
  BY <1>1
<1> QED BY <1>1, <1>2, <1>3, <1>7, <1>8 DEF t

LEMMA AnswersType ==
  ASSUME NEW s \in Seq(Requests)
  PROVE  Answers(s) \in Seq(Replies)
<1> DEFINE A == {k \in Nat : k <= Len(s) => DueTo(s)[k] \in Seq(Replies)}
<1>1. Len(s) \in Nat /\ \A k \in 1 .. Len(s) : s[k] \in Requests
  BY LenProperties, ElementOfSeq
<1>2. 0 \in A
  BY DueDef, EmptySeq
<1>3. ASSUME NEW k \in A PROVE k + 1 \in A
  <2>1. SUFFICES ASSUME k + 1 <= Len(s) PROVE DueTo(s)[k + 1] \in Seq(Replies)
    OBVIOUS
  <2>2. k + 1 \in 1 .. Len(s) /\ (k + 1) - 1 = k
    BY <1>1, <2>1
  <2>3. DueTo(s)[k] \in Seq(Replies)
    BY <1>1, <2>1
  <2>4. DueTo(s)[k + 1] = IF Plain(s[k + 1])
                          THEN Append(DueTo(s)[k], AnswerTo(s[k + 1]))
                          ELSE DueTo(s)[k]
    BY <2>2, DueDef
  <2>5. CASE Plain(s[k + 1])
    <3>1. AnswerTo(s[k + 1]) \in Replies
      BY <1>1, <2>2, <2>5, PlainAnswer
    <3>2. Append(DueTo(s)[k], AnswerTo(s[k + 1])) \in Seq(Replies)
      BY <2>3, <3>1, AppendProperties
    <3> QED BY <2>4, <2>5, <3>2
  <2>6. CASE ~Plain(s[k + 1])
    BY <2>3, <2>4, <2>6
  <2> QED BY <2>5, <2>6
<1>4. A = Nat
  <2>1. A \in SUBSET Nat
    OBVIOUS
  <2> HIDE DEF A
  <2> QED BY <1>2, <1>3, <2>1, NatInd
<1>5. DueTo(s)[Len(s)] \in Seq(Replies)
  <2>1. Len(s) \in A
    BY <1>1, <1>4
  <2> QED BY <1>1, <2>1
<1> QED BY <1>5, DueDef

LEMMA JoinedThree ==
  ASSUME NEW a \in Seq(Nat), NEW b \in Seq(Nat), NEW c \in Seq(Nat)
  PROVE  (a \o b) \o c = a \o (b \o c)
BY ConcatAssociative, SMTT(30)

Messages == Requests \cup Replies

\* The frames of q from the k-th on, one after the other.
Stream(q, k) ==
  LET stream[i \in 1 .. Len(q) + 1] ==
        IF i = Len(q) + 1 THEN <<>> ELSE Frame(q[i]) \o stream[i + 1]
  IN stream[k]

LEMMA FrameType ==
  ASSUME NEW r \in Messages
  PROVE  Frame(r) \in Seq(Nat)
<1>1. IsData(Encoded(r)) /\ r.type.command_id \in Nat
  BY FramesForms DEF Messages
<1>2. Encoded(r) \in Seq(Nat)
  BY <1>1 DEF IsData
<1>3. IsFrame(Frame(r), r.type.command_id, Encoded(r))
  BY <1>1, <1>2, RawForm DEF Frame
<1> QED BY <1>3 DEF IsFrame

LEMMA StreamDef ==
  ASSUME NEW q \in Seq(Messages)
  PROVE  /\ Stream(q, Len(q) + 1) = <<>>
         /\ \A k \in 1 .. Len(q) :
              Stream(q, k) = Frame(q[k]) \o Stream(q, k + 1)
         /\ \A k \in 1 .. Len(q) + 1 : Stream(q, k) \in Seq(Nat)
<1> DEFINE e == Len(q)
           X == 1 .. e + 1
           S == Seq(Nat)
           h == [i \in X |-> IF i = e + 1 THEN i ELSE i + 1]
           Step(i, u) == IF i = e + 1 THEN <<>> ELSE Frame(q[i]) \o u
           G == [y \in X \X S |-> Step(y[1], y[2])]
           rank == [i \in X |-> (e + 1) - i]
           Value(f) == [i \in X |-> IF i = e + 1 THEN <<>>
                                    ELSE Frame(q[i]) \o f[i + 1]]
           v == CHOOSE f : f = Value(f)
<1>1. e \in Nat /\ \A i \in 1 .. e : q[i] \in Messages
  BY LenProperties, ElementOfSeq
<1>2. v = CHOOSE f : f = [i \in 1 .. Len(q) + 1 |->
                            IF i = Len(q) + 1 THEN <<>>
                            ELSE Frame(q[i]) \o f[i + 1]]
  OBVIOUS
<1>3. \A k : Stream(q, k) = v[k]
  BY DEF Stream
<1> HIDE DEF e
<1>4. ASSUME NEW i \in X, NEW u \in S PROVE Step(i, u) \in S
  <2>1. CASE i = e + 1
    <3>1. <<>> \in S
      BY EmptySeq
    <3> HIDE DEF S
    <3> QED BY <2>1, <3>1
  <2>2. CASE i # e + 1
    <3>1. q[i] \in Messages
      BY <1>1, <2>2
    <3>2. Frame(q[i]) \in Seq(Nat)
      BY <3>1, FrameType
    <3>3. IsJoin(Frame(q[i]) \o u, Frame(q[i]), u)
      BY <3>2, Joined
    <3> QED BY <2>2, <3>3 DEF IsJoin
  <2> QED BY <2>1, <2>2
<1>5. WellFounded(X, S, rank, h, G)
  <2>1. rank \in [X -> Nat] /\ h \in [X -> X]
    BY <1>1
  <2>2. G \in [X \X S -> S]
    <3> HIDE DEF X, S, Step
    <3> QED BY <1>4
  <2>3. S # {}
    BY EmptySeq
  <2>4. ASSUME NEW i \in X
        PROVE  \/ rank[h[i]] < rank[i]
               \/ \A u, w \in S : G[<<i, u>>] = G[<<i, w>>]
    <3>1. CASE i = e + 1
      <4>1. \A u \in S : G[<<i, u>>] = <<>>
        <5> HIDE DEF S
        <5> QED BY <3>1
      <4> HIDE DEF G, S
      <4> QED BY <4>1
    <3>2. CASE i # e + 1
      <4>1. h[i] = i + 1 /\ i + 1 \in X
        BY <1>1, <3>2
      <4>2. rank[i + 1] < rank[i]
        BY <1>1, <4>1
      <4> HIDE DEF h, rank
      <4> QED BY <4>1, <4>2
    <3> QED BY <3>1, <3>2
  <2> HIDE DEF X, S, h, G, rank
  <2> QED BY <2>1, <2>2, <2>3, <2>4 DEF WellFounded
<1>6. \E f \in [X -> S] : \A x \in X : f[x] = G[<<x, f[h[x]]>>]
  <2> HIDE DEF X, S, h, G, rank
  <2> QED BY <1>5, Recursion
<1>7. PICK f \in [X -> S] : \A x \in X : f[x] = G[<<x, f[h[x]]>>]
  BY <1>6
<1>8. f = Value(f)
  <2>1. ASSUME NEW i \in X
        PROVE  f[i] = IF i = e + 1 THEN <<>> ELSE Frame(q[i]) \o f[i + 1]
    <3>1. h[i] \in X /\ (i # e + 1 => h[i] = i + 1)
      BY <1>1
    <3>2. f[i] = G[<<i, f[h[i]]>>] /\ f[h[i]] \in S
      <4> HIDE DEF X, S, h, G
      <4> QED BY <1>7, <3>1
    <3>3. G[<<i, f[h[i]]>>] = Step(i, f[h[i]])
      <4> HIDE DEF X, S, h, Step
      <4> QED BY <3>2
    <3> HIDE DEF G, h
    <3> QED BY <3>1, <3>2, <3>3
  <2> HIDE DEF X
  <2> QED BY <1>7, <2>1
<1>9. v = Value(v)
  BY <1>8
<1> HIDE DEF v
<1>10. /\ v[e + 1] = <<>>
       /\ \A k \in 1 .. e : v[k] = Frame(q[k]) \o v[k + 1]
  <2>1. e + 1 \in X /\ \A k \in 1 .. e : k \in X /\ k # e + 1
    BY <1>1
  <2> HIDE DEF X
  <2> QED BY <1>9, <2>1
<1>11. \A k \in X : v[k] \in Seq(Nat)
  <2> DEFINE A == {n \in Nat : \A k \in X : (e + 1) - k = n => v[k] \in S}
  <2>1. 0 \in A
    <3> SUFFICES ASSUME NEW k \in X, (e + 1) - k = 0 PROVE v[k] \in S
      OBVIOUS
    <3>1. k = e + 1
      BY <1>1
    <3>2. <<>> \in S
      BY EmptySeq
    <3> HIDE DEF S
    <3> QED BY <1>10, <3>1, <3>2
  <2>2. ASSUME NEW n \in A PROVE n + 1 \in A
    <3> SUFFICES ASSUME NEW k \in X, (e + 1) - k = n + 1 PROVE v[k] \in S
      OBVIOUS
    <3>1. k \in 1 .. e /\ k + 1 \in X /\ (e + 1) - (k + 1) = n
      BY <1>1
    <3>2. v[k + 1] \in S
      <4> HIDE DEF S, X
      <4> QED BY <3>1
    <3>3. Step(k, v[k + 1]) \in S
      <4>1. k \in X
        OBVIOUS
      <4> HIDE DEF S, X, Step
      <4> QED BY <1>4, <3>2, <4>1
    <3>4. k # e + 1
      BY <1>1, <3>1
    <3> HIDE DEF S, X
    <3> QED BY <1>10, <3>1, <3>3, <3>4
  <2>3. A = Nat
    <3>1. A \in SUBSET Nat
      OBVIOUS
    <3> HIDE DEF A
    <3> QED BY <2>1, <2>2, <3>1, NatInd
  <2>4. ASSUME NEW k \in X PROVE v[k] \in S
    <3>1. (e + 1) - k \in Nat
      BY <1>1
    <3>2. (e + 1) - k \in A
      <4> HIDE DEF A
      <4> QED BY <2>3, <3>1
    <3> HIDE DEF S, X
    <3> QED BY <3>2
  <2> QED BY <2>4
<1> QED BY <1>3, <1>10, <1>11 DEF e

\* What is taken from a stream is its first message.
Takes(stream, r, rest) ==
  TakesData(stream, r.type.command_id, Encoded(r), rest)

LEMMA StreamFirst ==
  ASSUME NEW q \in Seq(Messages), NEW k \in 1 .. Len(q)
  PROVE  Takes(Stream(q, k), q[k], Stream(q, k + 1))
<1>1. k + 1 \in 1 .. Len(q) + 1 /\ q[k] \in Messages
  BY LenProperties, ElementOfSeq
<1> DEFINE c == q[k].type.command_id
           data == Encoded(q[k])
           rest == Stream(q, k + 1)
<1>2. IsData(data) /\ c \in Nat
  BY <1>1, FramesForms DEF Messages
<1>3. rest \in Seq(Nat) /\ Stream(q, k) = get_raw(1000, c, data) \o rest
  BY <1>1, StreamDef DEF Frame
<1>4. data \in Seq(Nat) /\ 1 <= Len(data)
  BY <1>2 DEF IsData
<1> HIDE DEF c, data, rest
<1>5. TakesData(get_raw(1000, c, data) \o rest, c, data, rest)
  BY <1>2, <1>3, <1>4, Framing
<1> QED BY <1>3, <1>5 DEF Takes, c, data, rest

\* A stream is empty when it has no frame.
LEMMA StreamEmpty ==
  ASSUME NEW q \in Seq(Messages), NEW k \in 1 .. Len(q) + 1
  PROVE  Stream(q, k) = <<>> <=> k = Len(q) + 1
<1>1. ASSUME k # Len(q) + 1 PROVE Stream(q, k) # <<>>
  <2>1. k \in 1 .. Len(q)
    BY <1>1, LenProperties
  <2> QED BY <2>1, StreamFirst DEF Takes, TakesData
<1> QED BY <1>1, StreamDef

\* What is put into a stream is at its end.
LEMMA StreamMore ==
  ASSUME NEW q \in Seq(Messages), NEW r \in Messages, NEW k \in 1 .. Len(q) + 1
  PROVE  Stream(Append(q, r), k) = Stream(q, k) \o Frame(r)
<1> DEFINE e == Len(q)
           p == Append(q, r)
           A == {n \in Nat : \A i \in 1 .. e + 1 :
                   (e + 1) - i = n => Stream(p, i) = Stream(q, i) \o Frame(r)}
<1>1. /\ p \in Seq(Messages) /\ Len(p) = e + 1 /\ e \in Nat /\ p[e + 1] = r
      /\ \A i \in 1 .. e : p[i] = q[i]
  BY AppendProperties, LenProperties
<1> HIDE DEF p
<1>2. /\ Stream(q, e + 1) = <<>>
      /\ \A i \in 1 .. e : Stream(q, i) = Frame(q[i]) \o Stream(q, i + 1)
      /\ \A i \in 1 .. e + 1 : Stream(q, i) \in Seq(Nat)
  BY StreamDef
<1>3. /\ Stream(p, (e + 1) + 1) = <<>>
      /\ \A i \in 1 .. e + 1 : Stream(p, i) = Frame(p[i]) \o Stream(p, i + 1)
  BY <1>1, StreamDef
<1>4. Frame(r) \in Seq(Nat) /\ \A i \in 1 .. e : Frame(q[i]) \in Seq(Nat)
  BY FrameType, ElementOfSeq
<1> HIDE DEF e
<1>5. 0 \in A
  <2> SUFFICES ASSUME NEW i \in 1 .. e + 1, (e + 1) - i = 0
               PROVE  Stream(p, i) = Stream(q, i) \o Frame(r)
    OBVIOUS
  <2>1. i = e + 1
    BY <1>1
  <2>2. Stream(p, e + 1) = Frame(r) \o <<>>
    BY <1>1, <1>3, <2>1
  <2>3. Frame(r) \o <<>> = Frame(r) /\ <<>> \o Frame(r) = Frame(r)
    BY <1>4, ConcatEmptySeq
  <2> QED BY <1>2, <2>1, <2>2, <2>3
<1>6. ASSUME NEW n \in A PROVE n + 1 \in A
  <2> SUFFICES ASSUME NEW i \in 1 .. e + 1, (e + 1) - i = n + 1
               PROVE  Stream(p, i) = Stream(q, i) \o Frame(r)
    OBVIOUS
  <2>1. i \in 1 .. e /\ i + 1 \in 1 .. e + 1 /\ (e + 1) - (i + 1) = n
    BY <1>1
  <2>2. Stream(p, i + 1) = Stream(q, i + 1) \o Frame(r)
    BY <2>1
  <2>3. /\ Stream(p, i) = Frame(q[i]) \o (Stream(q, i + 1) \o Frame(r))
        /\ Stream(q, i) = Frame(q[i]) \o Stream(q, i + 1)
    BY <1>1, <1>2, <1>3, <2>1, <2>2
  <2>4. /\ Frame(q[i]) \in Seq(Nat) /\ Stream(q, i + 1) \in Seq(Nat)
    BY <1>2, <1>4, <2>1
  <2>5. Frame(q[i]) \o (Stream(q, i + 1) \o Frame(r))
          = (Frame(q[i]) \o Stream(q, i + 1)) \o Frame(r)
    <3> DEFINE a == Frame(q[i])
               b == Stream(q, i + 1)
               c == Frame(r)
    <3>1. a \in Seq(Nat) /\ b \in Seq(Nat) /\ c \in Seq(Nat)
      BY <1>4, <2>4
    <3> HIDE DEF a, b, c
    <3>2. (a \o b) \o c = a \o (b \o c)
      BY <3>1, JoinedThree
    <3> QED BY <3>2 DEF a, b, c
  <2> QED BY <2>3, <2>5
<1>7. A = Nat
  <2>1. A \in SUBSET Nat
    OBVIOUS
  <2> HIDE DEF A
  <2> QED BY <1>5, <1>6, <2>1, NatInd
<1>8. (e + 1) - k \in Nat /\ k \in 1 .. e + 1
  BY <1>1 DEF e
<1>9. (e + 1) - k \in A
  <2> HIDE DEF A
  <2> QED BY <1>7, <1>8
<1> QED BY <1>8, <1>9 DEF p


LEMMA Prefixes1 ==
  ASSUME NEW s \in Seq(Requests), NEW k \in 0 .. Len(s)
  PROVE  /\ SubSeq(s, 1, k) \in Seq(Requests) /\ Len(SubSeq(s, 1, k)) = k
         /\ \A i \in 1 .. k : SubSeq(s, 1, k)[i] = s[i]
<1>1. \A i \in 1 .. k : s[i] \in Requests
  BY LenProperties, ElementOfSeq
<1>2. k \in Nat /\ k - 1 + 1 = k /\ \A i \in 1 .. k : (1 + i) - 1 = i
  BY LenProperties
<1> DEFINE p == SubSeq(s, 1, k)
<1>3. /\ p \in Seq(Requests)
      /\ Len(p) = IF 1 <= k THEN k - 1 + 1 ELSE 0
      /\ \A i \in 1 .. k - 1 + 1 : p[i] = s[(1 + i) - 1]
  BY <1>1, <1>2, SubSeqProperties
<1> HIDE DEF p
<1>4. p \in Seq(Requests) /\ Len(p) = k /\ \A i \in 1 .. k : p[i] = s[i]
  BY <1>2, <1>3
<1> QED BY <1>4 DEF p

\* The answers due for one more request.
LEMMA DueMore ==
  ASSUME NEW s \in Seq(Requests), NEW k \in 1 .. Len(s)
  PROVE  Answers(SubSeq(s, 1, k))
           = IF Plain(s[k])
             THEN Append(Answers(SubSeq(s, 1, k - 1)), AnswerTo(s[k]))
             ELSE Answers(SubSeq(s, 1, k - 1))
<1> DEFINE p == SubSeq(s, 1, k - 1)
           q == SubSeq(s, 1, k)
           t == Append(p, s[k])
<1>1. Len(s) \in Nat /\ k \in 0 .. Len(s) /\ k - 1 \in 0 .. Len(s)
      /\ s[k] \in Requests
  BY LenProperties, ElementOfSeq
<1>2. /\ p \in Seq(Requests) /\ Len(p) = k - 1
      /\ \A i \in 1 .. k - 1 : p[i] = s[i]
  BY <1>1, Prefixes1
<1>3. q \in Seq(Requests) /\ Len(q) = k /\ \A i \in 1 .. k : q[i] = s[i]
  BY <1>1, Prefixes1
<1> HIDE DEF p, q
<1>4. /\ t \in Seq(Requests) /\ Len(t) = Len(p) + 1 /\ t[Len(p) + 1] = s[k]
      /\ \A i \in 1 .. Len(p) : t[i] = p[i]
  BY <1>1, <1>2, AppendProperties
<1> HIDE DEF t
<1>5. ASSUME NEW i \in 1 .. k PROVE q[i] = t[i]
  <2>1. CASE i = k
    BY <1>2, <1>3, <1>4, <2>1
  <2>2. CASE i # k
    <3>1. i \in 1 .. k - 1
      BY <2>2
    <3> QED BY <1>2, <1>3, <1>4, <3>1
  <2> QED BY <2>1, <2>2
<1>6. q = t
  <2>1. Len(q) = Len(t)
    BY <1>2, <1>3, <1>4
  <2> QED BY <1>3, <1>4, <1>5, <2>1, SeqEqual
<1>7. Answers(Append(p, s[k])) = IF Plain(s[k])
                                 THEN Append(Answers(p), AnswerTo(s[k]))
                                 ELSE Answers(p)
  BY <1>1, <1>2, AnswersMore
<1> QED BY <1>6, <1>7 DEF p, q, t

-----------------------------------------------------------------------------
(* The invariant *)

\* What the server has been given, and what the client has been told, is a
\* first part of what was asked and of what is due.
Histories ==
  /\ asked \in Seq(Requests)
  /\ handled \in Seq(Requests \cup {Nothing}) /\ Len(handled) <= Len(asked)
  /\ \A i \in 1 .. Len(handled) :
       handled[i] = IF HasZero(asked[i]) THEN Nothing ELSE asked[i]
  /\ told \in Seq(Replies) /\ Len(told) <= Len(Due)
  /\ \A i \in 1 .. Len(told) : told[i] = Due[i]

\* What is on its way are the frames of the other part.
InTransit ==
  /\ up = Stream(asked, Len(handled) + 1)
  /\ down = Stream(Due, Len(told) + 1)

Stops ==
  /\ overwritten \subseteq Programs
  /\ fault \in [Programs -> {"none", "heap", "strlen"}]
  /\ fault["client"] # "strlen"
  /\ fault["server"] = "strlen" =>
       /\ Len(handled) >= 1
       /\ LET last == asked[Len(handled)]
          IN last.type = Add /\ ~HasZero(last) /\ Sum(last) = 0

Inv == Histories /\ InTransit /\ Stops

LEMMA DueType ==
  ASSUME Inv
  PROVE  /\ asked \in Seq(Messages) /\ Due \in Seq(Messages)
         /\ Due \in Seq(Replies)
         /\ Len(asked) \in Nat /\ Len(handled) \in Nat /\ Len(told) \in Nat
         /\ Len(Due) \in Nat
         /\ Len(handled) + 1 \in 1 .. Len(asked) + 1
         /\ Len(told) + 1 \in 1 .. Len(Due) + 1
<1>1. /\ Len(asked) \in Nat /\ Len(handled) \in Nat /\ Len(told) \in Nat
      /\ Len(handled) <= Len(asked) /\ Len(told) <= Len(Due)
      /\ asked \in Seq(Requests)
  BY LenProperties DEF Inv, Histories
<1>2. Len(handled) \in 0 .. Len(asked)
  BY <1>1
<1>3. SubSeq(asked, 1, Len(handled)) \in Seq(Requests)
  BY <1>1, <1>2, Prefixes1
<1>4. Due \in Seq(Replies)
  BY <1>3, AnswersType DEF Due
<1>5. Len(Due) \in Nat
  BY <1>4, LenProperties
<1>6. Requests \subseteq Messages /\ Replies \subseteq Messages
  BY DEF Messages
<1>7. asked \in Seq(Messages) /\ Due \in Seq(Messages)
  BY <1>1, <1>4, <1>6, SeqMonotonic
<1> QED BY <1>1, <1>4, <1>5, <1>7

LEMMA InvInit ==
  ASSUME Init
  PROVE  Inv
<1>1. Len(<<>>) = 0 /\ <<>> \in Seq(Requests) /\ <<>> \in Seq(Replies)
      /\ <<>> \in Seq(Requests \cup {Nothing}) /\ <<>> \in Seq(Messages)
  BY EmptySeq
<1>2. /\ asked = <<>> /\ up = <<>> /\ handled = <<>> /\ down = <<>>
      /\ told = <<>>
  BY DEF Init
<1>3. Due = <<>>
  <2>1. SubSeq(<<>>, 1, 0) = <<>>
    BY SubSeqEmpty
  <2> QED BY <1>1, <1>2, <2>1, AnswersNone DEF Due
<1>4. Stream(<<>>, 0 + 1) = <<>>
  BY <1>1, StreamDef
<1>5. Histories
  BY <1>1, <1>2, <1>3 DEF Histories
<1>6. InTransit
  BY <1>1, <1>2, <1>3, <1>4 DEF InTransit
<1>7. Stops
  BY DEF Init, Stops, Programs
<1> QED BY <1>5, <1>6, <1>7 DEF Inv

\* The client asks.
LEMMA InvAsk ==
  ASSUME Inv, NEW m, SendsFrame(m), Said(m) \in Requests, Ask(m)
  PROVE  Inv'
<1> DEFINE r == Said(m)
           n == Len(handled)
<1>1. /\ asked' = Append(asked, r) /\ up' = up \o Frame(r)
      /\ UNCHANGED <<handled, down, told, overwritten, fault>>
  BY DEF Ask, SendsFrame
<1>2. /\ asked \in Seq(Messages) /\ asked \in Seq(Requests)
      /\ r \in Requests /\ r \in Messages
      /\ Len(asked) \in Nat /\ n \in Nat /\ n <= Len(asked)
  BY DueType DEF Inv, Histories, Messages
<1> HIDE DEF r
<1>3. /\ asked' \in Seq(Requests) /\ Len(asked') = Len(asked) + 1
      /\ \A i \in 1 .. Len(asked) : asked'[i] = asked[i]
  BY <1>1, <1>2, AppendProperties
<1>4. \A i \in 1 .. n : i \in 1 .. Len(asked)
  BY <1>2
<1>5. SubSeq(asked', 1, n) = SubSeq(asked, 1, n)
  <2> DEFINE p == SubSeq(asked', 1, n)
             q == SubSeq(asked, 1, n)
  <2>1. n \in 0 .. Len(asked) /\ n \in 0 .. Len(asked')
    BY <1>2, <1>3
  <2>2. /\ p \in Seq(Requests) /\ Len(p) = n
        /\ \A i \in 1 .. n : p[i] = asked'[i]
    BY <1>3, <2>1, Prefixes1
  <2>3. /\ q \in Seq(Requests) /\ Len(q) = n
        /\ \A i \in 1 .. n : q[i] = asked[i]
    BY <1>2, <2>1, Prefixes1
  <2> HIDE DEF p, q
  <2>4. \A i \in 1 .. n : p[i] = q[i]
    BY <1>3, <1>4, <2>2, <2>3
  <2>5. p = q
    BY <2>2, <2>3, <2>4, SeqEqual
  <2> QED BY <2>5 DEF p, q
<1>6. Due' = Due
  BY <1>1, <1>5 DEF Due
<1>7. Histories'
  <2>1. \A i \in 1 .. n :
          handled[i] = IF HasZero(asked'[i]) THEN Nothing ELSE asked'[i]
    BY <1>3, <1>4 DEF Inv, Histories
  <2>2. n <= Len(asked')
    BY <1>2, <1>3
  <2> QED BY <1>1, <1>3, <1>6, <2>1, <2>2 DEF Inv, Histories
<1>8. InTransit'
  <2>1. n + 1 \in 1 .. Len(asked) + 1
    BY <1>2
  <2>2. Stream(Append(asked, r), n + 1) = Stream(asked, n + 1) \o Frame(r)
    BY <1>2, <2>1, StreamMore
  <2>3. up = Stream(asked, n + 1) /\ down = Stream(Due, Len(told) + 1)
    BY DEF Inv, InTransit
  <2> QED BY <1>1, <1>6, <2>2, <2>3 DEF InTransit
<1>9. Stops'
  <2>1. n >= 1 => asked'[n] = asked[n]
    BY <1>2, <1>3
  <2> QED BY <1>1, <2>1 DEF Inv, Stops
<1> QED BY <1>7, <1>8, <1>9 DEF Inv

\* The client is told the next answer.
LEMMA InvClientReads ==
  ASSUME Inv, ClientReads
  PROVE  Inv'
<1> DEFINE k == Len(told) + 1
           msg == FirstMsg(down)
<1>1. /\ Due \in Seq(Messages) /\ Due \in Seq(Replies) /\ k \in 1 .. Len(Due) + 1
      /\ Len(told) \in Nat /\ Len(Due) \in Nat
      /\ down = Stream(Due, k) /\ down # <<>>
  BY DueType DEF Inv, InTransit, ClientReads
<1>2. k \in 1 .. Len(Due)
  <2>1. k # Len(Due) + 1
    <3> HIDE DEF k
    <3> QED BY <1>1, StreamEmpty
  <2> HIDE DEF k
  <2> QED BY <1>1, <2>1
<1>3. Due[k] \in Replies
  BY <1>1, <1>2, ElementOfSeq
<1>4. Takes(down, Due[k], Stream(Due, k + 1))
  <2> HIDE DEF k
  <2> QED BY <1>1, <1>2, StreamFirst
<1>5. /\ ~(Len(msg) <= 2 * SizeofInt)
      /\ Key(msg) = <<1000, Due[k].type.command_id>>
      /\ Payload(msg) = Encoded(Due[k])
      /\ AfterFirst(down) = Stream(Due, k + 1)
  BY <1>4 DEF Takes, TakesData
<1> HIDE DEF msg, k
<1>6. /\ Key(msg) \in DOMAIN ClientProtos
      /\ Given(ClientProtos[Key(msg)], Payload(msg)) = Due[k]
  BY <1>3, <1>5, ReplyTold
<1>7. /\ told' = Append(told, Due[k]) /\ down' = Stream(Due, k + 1)
      /\ overwritten' = overwritten \cup {"client"}
      /\ UNCHANGED <<fault, asked, up, handled>>
  BY <1>5, <1>6 DEF ClientReads, msg
<1>8. Due' = Due
  BY <1>7 DEF Due
<1>9. /\ told' \in Seq(Replies) /\ Len(told') = k /\ told'[k] = Due[k]
      /\ \A i \in 1 .. Len(told) : told'[i] = told[i]
  <2>1. told \in Seq(Replies)
    BY DEF Inv, Histories
  <2> QED BY <1>3, <1>7, <2>1, AppendProperties DEF k
<1>10. Histories'
  <2>1. ASSUME NEW i \in 1 .. k PROVE told'[i] = Due[i]
    <3>1. CASE i = k
      BY <1>9, <3>1
    <3>2. CASE i # k
      <4>1. i \in 1 .. Len(told)
        BY <1>1, <3>2 DEF k
      <4> QED BY <1>9, <4>1 DEF Inv, Histories
    <3> QED BY <3>1, <3>2
  <2>2. k <= Len(Due)
    BY <1>2
  <2> QED BY <1>7, <1>8, <1>9, <2>1, <2>2 DEF Inv, Histories
<1>11. InTransit'
  BY <1>7, <1>8, <1>9 DEF Inv, InTransit
<1>12. Stops'
  BY <1>7 DEF Inv, Stops, Programs
<1> QED BY <1>10, <1>11, <1>12 DEF Inv

\* What the server does with the next request.
LEMMA ServerEffect ==
  ASSUME Inv, ServerReads
  PROVE  LET k == Len(handled) + 1
             r == asked[k]
         IN /\ k \in 1 .. Len(asked) /\ r \in Requests
            /\ handled' = Append(handled, IF HasZero(r) THEN Nothing ELSE r)
            /\ up' = Stream(asked, k + 1)
            /\ overwritten' = overwritten \cup {"server"}
            /\ UNCHANGED <<asked, told>>
            /\ \/ /\ Plain(r) /\ AnswerTo(r) \in Replies
                  /\ down' = down \o Frame(AnswerTo(r)) /\ UNCHANGED fault
               \/ ~Plain(r) /\ UNCHANGED <<down, fault>>
               \/ /\ ~Plain(r) /\ UNCHANGED down
                  /\ r.type = Add /\ ~HasZero(r) /\ Sum(r) = 0
                  /\ fault' = [fault EXCEPT !["server"] = "strlen"]
<1> DEFINE k == Len(handled) + 1
           r == asked[k]
           msg == FirstMsg(up)
<1>1. /\ asked \in Seq(Messages) /\ asked \in Seq(Requests)
      /\ k \in 1 .. Len(asked) + 1 /\ Len(asked) \in Nat
      /\ up = Stream(asked, k) /\ up # <<>>
  BY DueType DEF Inv, InTransit, Histories, ServerReads
<1>2. k \in 1 .. Len(asked)
  <2>1. k # Len(asked) + 1
    <3> HIDE DEF k
    <3> QED BY <1>1, StreamEmpty
  <2> HIDE DEF k
  <2> QED BY <1>1, <2>1
<1>3. r \in Requests
  BY <1>1, <1>2, ElementOfSeq
<1>4. Takes(up, r, Stream(asked, k + 1))
  <2> HIDE DEF k
  <2> QED BY <1>1, <1>2, StreamFirst
<1>5. /\ ~(Len(msg) <= 2 * SizeofInt)
      /\ Key(msg) = <<1000, r.type.command_id>> /\ Payload(msg) = Encoded(r)
      /\ AfterFirst(up) = Stream(asked, k + 1)
  BY <1>4 DEF Takes, TakesData
<1> HIDE DEF msg, r, k
<1>6. OnMsg(msg) = Outcome(r)
  BY <1>3, <1>5, RequestHandled
<1> DEFINE o == Outcome(r)
<1>7. /\ up' = Stream(asked, k + 1)
      /\ overwritten' = overwritten \cup {"server"}
      /\ handled' = Append(handled, o.given)
      /\ IF o.answer = <<>> THEN UNCHANGED <<down, fault>> ELSE send(o.answer[1])
      /\ UNCHANGED <<asked, told>>
  BY <1>5, <1>6 DEF ServerReads, msg
<1>8. o.given = (IF HasZero(r) THEN Nothing ELSE r)
      /\ o.answer = (IF HasZero(r) THEN <<>> ELSE Reply(r))
  BY DEF Outcome
<1> HIDE DEF o
<1>9. CASE HasZero(r)
  <2>1. ~Plain(r) /\ UNCHANGED <<down, fault>>
    BY <1>7, <1>8, <1>9 DEF Plain
  <2> QED BY <1>2, <1>3, <1>7, <1>8, <2>1 DEF r, k
<1>10. CASE ~HasZero(r) /\ Reply(r) = <<>>
  <2>1. ~Plain(r)
    BY <1>3, <1>10, ReplySent
  <2>2. UNCHANGED <<down, fault>>
    BY <1>7, <1>8, <1>10
  <2> QED BY <1>2, <1>3, <1>7, <1>8, <2>1, <2>2 DEF r, k
<1>11. CASE ~HasZero(r) /\ Reply(r) # <<>>
  <2> DEFINE m == Reply(r)[1]
             s == Serialize(m)
  <2>1. send(m)
    BY <1>7, <1>8, <1>11
  <2> HIDE DEF m
  <2>2. IF Len(CString(s)) # Len(s)
        THEN /\ fault' = [fault EXCEPT !["server"] = "strlen"]
             /\ UNCHANGED down
        ELSE /\ down' = down \o get_raw(service_id(m), command_id(m), s)
             /\ UNCHANGED fault
    BY <2>1 DEF send
  <2>3. CASE Plain(r)
    <3>1. AnswerTo(r) \in Replies /\ RepliesTo(r, m)
      BY <1>3, <1>11, <2>3, ReplySent DEF m
    <3>2. down' = down \o Frame(AnswerTo(r)) /\ UNCHANGED fault
      BY <2>2, <3>1 DEF RepliesTo
    <3> QED BY <1>2, <1>3, <1>7, <1>8, <2>3, <3>1, <3>2 DEF r, k
  <2>4. CASE ~Plain(r)
    <3>1. r.type = Add /\ Sum(r) = 0 /\ Len(CString(s)) # Len(s)
      BY <1>3, <1>11, <2>4, ReplySent DEF m
    <3>2. /\ fault' = [fault EXCEPT !["server"] = "strlen"]
          /\ UNCHANGED down
      BY <2>2, <3>1
    <3> QED BY <1>2, <1>3, <1>7, <1>8, <1>11, <2>4, <3>1, <3>2 DEF r, k
  <2> QED BY <2>3, <2>4
<1> QED BY <1>9, <1>10, <1>11

LEMMA InvServerReads ==
  ASSUME Inv, ServerReads
  PROVE  Inv'
<1> DEFINE n == Len(handled)
           k == n + 1
           r == asked[k]
           g == IF HasZero(r) THEN Nothing ELSE r
           a == AnswerTo(r)
<1>1. /\ k \in 1 .. Len(asked) /\ r \in Requests
      /\ handled' = Append(handled, g) /\ up' = Stream(asked, k + 1)
      /\ overwritten' = overwritten \cup {"server"}
      /\ UNCHANGED <<asked, told>>
      /\ \/ /\ Plain(r) /\ a \in Replies
            /\ down' = down \o Frame(a) /\ UNCHANGED fault
         \/ ~Plain(r) /\ UNCHANGED <<down, fault>>
         \/ /\ ~Plain(r) /\ UNCHANGED down
            /\ r.type = Add /\ ~HasZero(r) /\ Sum(r) = 0
            /\ fault' = [fault EXCEPT !["server"] = "strlen"]
  BY ServerEffect
<1>2. /\ asked \in Seq(Requests) /\ n \in Nat /\ Len(asked) \in Nat
      /\ Due \in Seq(Messages) /\ Due \in Seq(Replies)
      /\ Len(told) \in Nat /\ Len(Due) \in Nat
      /\ Len(told) + 1 \in 1 .. Len(Due) + 1
      /\ Len(told) <= Len(Due)
  BY DueType DEF Inv, Histories
<1>3. Answers(SubSeq(asked, 1, k)) = IF Plain(r) THEN Append(Due, a) ELSE Due
  <2>1. k - 1 = n
    BY <1>2
  <2> HIDE DEF k
  <2> QED BY <1>1, <1>2, <2>1, DueMore DEF Due
<1> HIDE DEF k, r, g, a
<1>4. /\ handled' \in Seq(Requests \cup {Nothing}) /\ Len(handled') = k
      /\ handled'[k] = g /\ \A i \in 1 .. n : handled'[i] = handled[i]
  <2>1. handled \in Seq(Requests \cup {Nothing}) /\ g \in Requests \cup {Nothing}
    BY <1>1 DEF Inv, Histories, g
  <2> HIDE DEF g
  <2> QED BY <1>1, <2>1, AppendProperties DEF k
<1>5. Due' = IF Plain(r) THEN Append(Due, a) ELSE Due
  BY <1>1, <1>3, <1>4 DEF Due
<1>6. ASSUME Plain(r)
      PROVE  /\ Len(Due') = Len(Due) + 1
             /\ \A i \in 1 .. Len(Due) : Due'[i] = Due[i]
             /\ Stream(Due', Len(told) + 1) = Stream(Due, Len(told) + 1) \o Frame(a)
  <2>1. a \in Replies /\ a \in Messages /\ Due' = Append(Due, a)
    BY <1>1, <1>5, <1>6 DEF Messages
  <2> DEFINE d == Due'
  <2>2. d = Append(Due, a)
    BY <2>1
  <2> HIDE DEF d
  <2>3. Len(d) = Len(Due) + 1 /\ \A i \in 1 .. Len(Due) : d[i] = Due[i]
    BY <1>2, <2>1, <2>2, AppendProperties
  <2>4. Stream(d, Len(told) + 1) = Stream(Due, Len(told) + 1) \o Frame(a)
    BY <1>2, <2>1, <2>2, StreamMore
  <2> QED BY <2>3, <2>4 DEF d
<1>7. Histories'
  <2>1. ASSUME NEW i \in 1 .. k
        PROVE  handled'[i] = IF HasZero(asked[i]) THEN Nothing ELSE asked[i]
    <3>1. CASE i = k
      BY <1>4, <3>1 DEF g, r
    <3>2. CASE i # k
      <4>1. i \in 1 .. n
        BY <1>2, <3>2 DEF k
      <4> QED BY <1>4, <4>1 DEF Inv, Histories
    <3> QED BY <3>1, <3>2
  <2>2. Len(told) <= Len(Due') /\ \A i \in 1 .. Len(told) : told[i] = Due'[i]
    <3>1. /\ \A i \in 1 .. Len(told) : told[i] = Due[i]
          /\ \A i \in 1 .. Len(told) : i \in 1 .. Len(Due)
      BY <1>2 DEF Inv, Histories
    <3>2. CASE Plain(r)
      BY <1>2, <1>6, <3>1, <3>2
    <3>3. CASE ~Plain(r)
      BY <1>2, <1>5, <3>1, <3>3
    <3> QED BY <3>2, <3>3
  <2>3. k <= Len(asked) /\ told \in Seq(Replies)
    BY <1>1 DEF Inv, Histories
  <2> QED BY <1>1, <1>2, <1>4, <2>1, <2>2, <2>3 DEF Histories
<1>8. InTransit'
  <2>1. down = Stream(Due, Len(told) + 1)
    BY DEF Inv, InTransit
  <2>2. CASE Plain(r)
    BY <1>1, <1>4, <1>6, <2>1, <2>2 DEF InTransit
  <2>3. CASE ~Plain(r)
    BY <1>1, <1>4, <1>5, <2>1, <2>3 DEF InTransit
  <2> QED BY <2>2, <2>3
<1>9. Stops'
  <2>1. /\ overwritten \subseteq Programs /\ fault["client"] # "strlen"
        /\ fault \in [Programs -> {"none", "heap", "strlen"}]
        /\ fault["server"] = "none"
    BY DEF Inv, Stops, ServerReads, Runs
  <2>2. overwritten' \subseteq Programs
    BY <1>1, <2>1 DEF Programs
  <2>3. CASE UNCHANGED fault
    BY <2>1, <2>2, <2>3 DEF Stops
  <2>4. CASE /\ r.type = Add /\ ~HasZero(r) /\ Sum(r) = 0
             /\ fault' = [fault EXCEPT !["server"] = "strlen"]
    <3>1. /\ fault' \in [Programs -> {"none", "heap", "strlen"}]
          /\ fault'["client"] # "strlen"
      BY <2>1, <2>4 DEF Programs
    <3>2. Len(handled') >= 1 /\ asked'[Len(handled')] = r
      BY <1>1, <1>2, <1>4 DEF r, k
    <3> QED BY <2>2, <2>4, <3>1, <3>2 DEF Stops
  <2> QED BY <1>1, <2>3, <2>4
<1> QED BY <1>7, <1>8, <1>9 DEF Inv

LEMMA InvHeapFails ==
  ASSUME Inv, NEW p \in Programs, HeapFails(p)
  PROVE  Inv'
<1>1. /\ fault' = [fault EXCEPT ![p] = "heap"]
      /\ UNCHANGED <<asked, up, handled, down, told, overwritten>>
  BY DEF HeapFails
<1>2. Due' = Due
  BY <1>1 DEF Due
<1>3. Histories' /\ InTransit'
  BY <1>1, <1>2 DEF Inv, Histories, InTransit
<1>4. Stops'
  BY <1>1 DEF Inv, Stops, Programs
<1> QED BY <1>3, <1>4 DEF Inv

LEMMA InvNext ==
  ASSUME Inv, [Next]_vars
  PROVE  Inv'
<1>1. CASE send_echo
  <2>1. PICK t \in Texts : Ask(TextMsg(Echo, t))
    BY <1>1 DEF send_echo, TextMsg
  <2> QED BY <2>1, RequestSent, InvAsk
<1>2. CASE send_add
  <2>1. PICK a \in Numbers, b \in Numbers : Ask(PairMsg(a, b))
    BY <1>2 DEF send_add, PairMsg
  <2> QED BY <2>1, RequestSent, InvAsk
<1>3. CASE ClientReads
  BY <1>3, InvClientReads
<1>4. CASE ServerReads
  BY <1>4, InvServerReads
<1>5. CASE \E p \in Programs : HeapFails(p)
  BY <1>5, InvHeapFails
<1>6. CASE UNCHANGED vars
  <2>1. UNCHANGED <<asked, up, handled, down, told, overwritten, fault>>
    BY <1>6 DEF vars
  <2>2. Due' = Due
    BY <2>1 DEF Due
  <2> QED BY <2>1, <2>2 DEF Inv, Histories, InTransit, Stops
<1> QED BY <1>1, <1>2, <1>3, <1>4, <1>5, <1>6 DEF Next

\* The histories, what is on its way and how the programs stop, in every state.
THEOREM Invariance == Spec => []Inv
<1>1. Init => Inv
  BY InvInit
<1>2. Inv /\ [Next]_vars => Inv'
  BY InvNext
<1> QED BY <1>1, <1>2, PTL DEF Spec

\* For every text and number, every width and every order of the steps: each
\* service is given what was asked or nothing, and the client is told the
\* answers to what it asked, in that order, with none changed, left out or
\* invented.
THEOREM AnswersAlwaysMatch == Spec => []AnswersMatch
<1>1. ASSUME Inv PROVE AnswersMatch
  <2>1. /\ Len(handled) <= Len(asked) /\ Len(told) <= Len(Due)
        /\ DOMAIN handled = 1 .. Len(handled)
        /\ told \in Seq(Replies) /\ Due \in Seq(Replies)
        /\ Len(told) \in Nat /\ Len(Due) \in Nat
        /\ \A i \in 1 .. Len(told) : told[i] = Due[i]
    BY <1>1, DueType, LenProperties DEF Inv, Histories
  <2>2. \A i \in DOMAIN handled : handled[i] \in {asked[i], Nothing}
    BY <1>1, <2>1 DEF Inv, Histories
  <2>3. SubSeq(told, 1, Len(told)) = SubSeq(Due, 1, Len(told))
    <3> DEFINE n == Len(told)
               p == SubSeq(told, 1, n)
               q == SubSeq(Due, 1, n)
    <3>1. /\ \A i \in 1 .. n : told[i] \in Replies
          /\ \A i \in 1 .. n : Due[i] \in Replies
          /\ n - 1 + 1 = n /\ \A i \in 1 .. n : (1 + i) - 1 = i
      BY <2>1, ElementOfSeq
    <3>2. /\ p \in Seq(Replies) /\ Len(p) = IF 1 <= n THEN n - 1 + 1 ELSE 0
          /\ \A i \in 1 .. n - 1 + 1 : p[i] = told[(1 + i) - 1]
      BY <2>1, <3>1, SubSeqProperties
    <3>3. /\ q \in Seq(Replies) /\ Len(q) = IF 1 <= n THEN n - 1 + 1 ELSE 0
          /\ \A i \in 1 .. n - 1 + 1 : q[i] = Due[(1 + i) - 1]
      BY <2>1, <3>1, SubSeqProperties
    <3> HIDE DEF p, q
    <3>4. Len(p) = n /\ Len(q) = n /\ \A i \in 1 .. n : p[i] = q[i]
      BY <2>1, <3>1, <3>2, <3>3
    <3>5. p = q
      BY <3>2, <3>3, <3>4, SeqEqual
    <3> QED BY <3>5 DEF p, q
  <2>4. IsPrefix(told, Due)
    BY <2>1, <2>3 DEF IsPrefix
  <2>5. ASSUME down = <<>> PROVE told = Due
    <3>1. /\ Due \in Seq(Messages) /\ Len(told) + 1 \in 1 .. Len(Due) + 1
          /\ Stream(Due, Len(told) + 1) = <<>>
      BY <1>1, <2>5, DueType DEF Inv, InTransit
    <3>2. Len(told) + 1 = Len(Due) + 1
      BY <3>1, StreamEmpty
    <3>3. Len(told) = Len(Due)
      BY <2>1, <3>2
    <3> QED BY <2>1, <3>3, SeqEqual
  <2> QED BY <2>1, <2>2, <2>4, <2>5 DEF AnswersMatch
<1> QED BY <1>1, Invariance, PTL

\* A request reaches its service exactly if its encoding has no zero byte, and
\* the server aborts for nothing else than an answer of zero.
THEOREM ZerosAloneAreRefused == Spec => []OnlyZerosAreRefused
<1>1. ASSUME Inv PROVE OnlyZerosAreRefused
  <2>1. /\ handled \in Seq(Requests \cup {Nothing}) /\ asked \in Seq(Requests)
        /\ Len(handled) <= Len(asked) /\ Len(handled) \in Nat
        /\ Len(asked) \in Nat /\ DOMAIN handled = 1 .. Len(handled)
        /\ \A i \in 1 .. Len(handled) :
             handled[i] = IF HasZero(asked[i]) THEN Nothing ELSE asked[i]
    BY <1>1, LenProperties DEF Inv, Histories
  <2>2. ASSUME NEW r \in Requests PROVE r # Nothing
    <3>1. r.type = Echo \/ r.type = Add
      BY <2>2, SaidForms DEF Requests
    <3>2. Nothing.type.command_id = 0
      BY DEF Nothing, Class
    <3> QED BY <3>1, <3>2, Classes
  <2>3. ASSUME NEW i \in DOMAIN handled
        PROVE  handled[i] = Nothing <=> HasZero(asked[i])
    <3>1. asked[i] \in Requests
      BY <2>1, ElementOfSeq
    <3> QED BY <2>1, <2>2, <3>1
  <2>4. /\ fault["client"] \in {"none", "heap"}
        /\ fault["server"] \in {"none", "heap", "strlen"}
    BY <1>1 DEF Inv, Stops, Programs
  <2>5. fault["server"] = "strlen" =>
          LET last == asked[Len(handled)]
          IN last.type = Add /\ ~HasZero(last) /\ Sum(last) = 0
    BY <1>1 DEF Inv, Stops
  <2> QED BY <2>3, <2>4, <2>5 DEF OnlyZerosAreRefused
<1> QED BY <1>1, Invariance, PTL
=============================================================================
