--------------------------- MODULE WSFrameProofs ---------------------------
(***************************************************************************)
(* Proofs about WSFrame: on_read makes of the bytes of a frame, however    *)
(* they are cut, the frame that was sent, and so every frame is answered   *)
(* by the read that completes it.  Induction and recursion are those of    *)
(* RpcProofs.                                                              *)
(***************************************************************************)
EXTENDS Protocols, RpcProofs

-----------------------------------------------------------------------------
(* Numbers in bytes *)

\* The first value is a, and each of n more is given by the one before it.
Iteration(n, S, a, G) == n \in Nat /\ a \in S /\ G \in [(1 .. n) \X S -> S]

LEMMA Iterates ==
  ASSUME NEW n, NEW S, NEW a, NEW G, Iteration(n, S, a, G)
  PROVE  \E f \in [0 .. n -> S] :
           f[0] = a /\ \A i \in 1 .. n : f[i] = G[<<i, f[i - 1]>>]
<1> DEFINE X == 0 .. n
           h == [i \in X |-> IF i = 0 THEN 0 ELSE i - 1]
           H == [y \in X \X S |-> IF y[1] = 0 THEN a ELSE G[y]]
           rank == [i \in X |-> i]
<1>0. n \in Nat /\ a \in S /\ G \in [(1 .. n) \X S -> S]
  BY DEF Iteration
<1>1. WellFounded(X, S, rank, h, H)
  <2>1. rank \in [X -> Nat] /\ h \in [X -> X] /\ S # {}
    BY <1>0
  <2>2. H \in [X \X S -> S]
    <3>1. ASSUME NEW y \in X \X S, y[1] # 0 PROVE G[y] \in S
      <4>1. y \in (1 .. n) \X S
        BY <3>1
      <4> QED BY <1>0, <4>1
    <3> HIDE DEF X
    <3> QED BY <1>0, <3>1
  <2>3. ASSUME NEW i \in X
        PROVE  \/ rank[h[i]] < rank[i]
               \/ \A u, w \in S : H[<<i, u>>] = H[<<i, w>>]
    <3>1. CASE i = 0
      <4>1. \A u \in S : H[<<i, u>>] = a
        BY <3>1
      <4> HIDE DEF H
      <4> QED BY <4>1
    <3>2. CASE i # 0
      <4>1. i \in Nat /\ h[i] = i - 1 /\ h[i] \in X
        BY <1>0, <3>2
      <4> QED BY <4>1
    <3> QED BY <3>1, <3>2
  <2> HIDE DEF X, h, H, rank
  <2> QED BY <2>1, <2>2, <2>3 DEF WellFounded
<1>2. PICK f \in [X -> S] : \A i \in X : f[i] = H[<<i, f[h[i]]>>]
  <2> HIDE DEF X, h, H, rank
  <2> QED BY <1>1, Recursion
<1>3. f[0] = a
  <2>1. 0 \in X /\ h[0] = 0
    BY <1>0
  <2>2. f[0] = H[<<0, f[0]>>] /\ f[0] \in S
    <3> HIDE DEF X, h, H
    <3> QED BY <1>2, <2>1
  <2> QED BY <2>1, <2>2
<1>4. ASSUME NEW i \in 1 .. n PROVE f[i] = G[<<i, f[i - 1]>>]
  <2>1. i \in X /\ i - 1 \in X /\ h[i] = i - 1 /\ i # 0
    BY <1>0
  <2>2. f[i] = H[<<i, f[i - 1]>>] /\ f[i - 1] \in S
    <3> HIDE DEF X, h, H
    <3> QED BY <1>2, <2>1
  <2> HIDE DEF X, h
  <2> QED BY <2>1, <2>2
<1> QED BY <1>3, <1>4

LEMMA Sizes ==
  ASSUME W!WSFrameAssumption
  PROVE  /\ Half \in {8, 16, 32, 64, 128} /\ Half \in Nat
         /\ W!Byte \in {16, 32, 64, 128, 256} /\ W!Byte = 2 * Half
         /\ W!Bytes = 0 .. W!Byte - 1 /\ W!Bytes \subseteq Nat
         /\ Width2 \in Nat \ {0} /\ Width8 \in Nat \ {0} /\ Width8 > Width2
         /\ Lead \in Seq(W!Bytes)
<1>1. /\ Half \in {8, 16, 32, 64, 128}
      /\ Width2 \in Nat \ {0} /\ Width8 \in Nat /\ Width8 > Width2
      /\ Lead \in Seq(W!Bytes)
  BY DEF W!WSFrameAssumption
<1>2. W!Byte = 2 * Half /\ W!Bytes = 0 .. W!Byte - 1
  BY DEF W!Byte, W!Bytes
<1> QED BY <1>1, <1>2

LEMMA BytePowDef ==
  ASSUME W!WSFrameAssumption
  PROVE  /\ W!BytePow \in [Nat -> Nat \ {0}]
         /\ W!BytePow[0] = 1
         /\ \A n \in Nat : W!BytePow[n + 1] = W!Byte * W!BytePow[n]
<1> DEFINE S == Nat \ {0}
           B == W!Byte
           h == [x \in Nat |-> IF x = 0 THEN 0 ELSE x - 1]
           G == [y \in Nat \X S |-> IF y[1] = 0 THEN 1 ELSE B * y[2]]
           rank == [x \in Nat |-> x]
<1>0. B \in {16, 32, 64, 128, 256}
  BY Sizes
<1> HIDE DEF B
<1>1. \E f \in [Nat -> S] : \A x \in Nat : f[x] = G[<<x, f[h[x]]>>]
  <2>1. WellFounded(Nat, S, rank, h, G)
    <3>1. \A u \in S : B * u \in S
      BY <1>0
    <3>2. G \in [Nat \X S -> S]
      BY <3>1
    <3>3. ASSUME NEW x \in Nat
          PROVE  \/ rank[h[x]] < rank[x]
                 \/ \A u, w \in S : G[<<x, u>>] = G[<<x, w>>]
      OBVIOUS
    <3>4. rank \in [Nat -> Nat] /\ h \in [Nat -> Nat] /\ S # {}
      OBVIOUS
    <3> HIDE DEF S, h, G, rank
    <3> QED BY <3>2, <3>3, <3>4 DEF WellFounded
  <2> HIDE DEF S, h, G, rank
  <2> QED BY <2>1, Recursion
<1>2. PICK f \in [Nat -> S] : \A x \in Nat : f[x] = G[<<x, f[h[x]]>>]
  BY <1>1
<1>3. f = [n \in Nat |-> IF n = 0 THEN 1 ELSE B * f[n - 1]]
  <2>1. ASSUME NEW n \in Nat
        PROVE  f[n] = IF n = 0 THEN 1 ELSE B * f[n - 1]
    <3>1. f[n] = G[<<n, f[h[n]]>>] /\ f[h[n]] \in S
      <4>1. h[n] \in Nat
        OBVIOUS
      <4> HIDE DEF S, h, G
      <4> QED BY <1>2, <4>1
    <3>2. G[<<n, f[h[n]]>>] = IF n = 0 THEN 1 ELSE B * f[h[n]]
      BY <3>1
    <3>3. n # 0 => h[n] = n - 1
      OBVIOUS
    <3> QED BY <3>1, <3>2, <3>3
  <2> QED BY <2>1
<1>4. W!BytePow = [n \in Nat |-> IF n = 0 THEN 1 ELSE B * W!BytePow[n - 1]]
  BY <1>3 DEF W!BytePow, B
<1>5. \A n \in Nat : W!BytePow[n] \in Nat \ {0}
  <2> DEFINE A == {n \in Nat : W!BytePow[n] \in Nat \ {0}}
  <2>1. 0 \in A /\ \A n \in A : n + 1 \in A
    BY <1>0, <1>4
  <2> HIDE DEF A
  <2>2. A \in SUBSET Nat
    BY DEF A
  <2>3. A = Nat
    BY <2>1, <2>2, NatInd
  <2> QED BY <2>3 DEF A
<1> QED BY <1>4, <1>5 DEF B

\* n, divided by Byte once more with every step.
Quotients(r, n, w) ==
  /\ r \in [0 .. w -> Nat] /\ r[0] = n
  /\ \A i \in 1 .. w : r[i] = r[i - 1] \div W!Byte

LEMMA Quotient ==
  ASSUME W!WSFrameAssumption, NEW n \in Nat
  PROVE  /\ n \div W!Byte \in Nat /\ n % W!Byte \in W!Bytes
         /\ n = W!Byte * (n \div W!Byte) + (n % W!Byte)
         /\ \A m \in Nat : n < W!Byte * m => n \div W!Byte < m
<1> DEFINE B == W!Byte
<1>1. B \in {16, 32, 64, 128, 256} /\ W!Bytes = 0 .. B - 1
  BY Sizes
<1> HIDE DEF B
<1>2. /\ n \div B \in Nat /\ n % B \in 0 .. B - 1
      /\ n = B * (n \div B) + (n % B)
  BY <1>1
<1>3. ASSUME NEW m \in Nat, n < B * m PROVE n \div B < m
  BY <1>1, <1>2, <1>3
<1> QED BY <1>1, <1>2, <1>3 DEF B

LEMMA PackDef ==
  ASSUME W!WSFrameAssumption, NEW n \in Nat, NEW w \in Nat
  PROVE  \E r : /\ Quotients(r, n, w)
                /\ W!Pack(n, w) = [i \in 1 .. w |-> r[w - i] % W!Byte]
<1> DEFINE B == W!Byte
           Value(f) == [i \in 0 .. w |-> IF i = 0 THEN n ELSE f[i - 1] \div B]
           v == CHOOSE f : f = Value(f)
           G == [y \in (1 .. w) \X Nat |-> y[2] \div B]
<1>1. \A m \in Nat : m \div B \in Nat
  BY Quotient
<1>2. W!Pack(n, w) = [i \in 1 .. w |-> v[w - i] % B]
  BY DEF W!Pack
<1> HIDE DEF B
<1>3. PICK f \in [0 .. w -> Nat] :
         f[0] = n /\ \A i \in 1 .. w : f[i] = G[<<i, f[i - 1]>>]
  <2>1. G \in [(1 .. w) \X Nat -> Nat]
    BY <1>1
  <2> HIDE DEF G
  <2> DEFINE a == n
             k == w
  <2>2. Iteration(k, Nat, a, G)
    BY <2>1 DEF Iteration
  <2> HIDE DEF a, k
  <2>3. \E f \in [0 .. k -> Nat] :
          f[0] = a /\ \A i \in 1 .. k : f[i] = G[<<i, f[i - 1]>>]
    BY <2>2, Iterates
  <2> QED BY <2>3 DEF a, k
<1>4. f = Value(f)
  <2>1. ASSUME NEW i \in 1 .. w PROVE f[i] = f[i - 1] \div B
    <3>1. i - 1 \in 0 .. w
      OBVIOUS
    <3>2. f[i] = G[<<i, f[i - 1]>>] /\ f[i - 1] \in Nat
      <4> HIDE DEF G
      <4> QED BY <1>3, <3>1
    <3> QED BY <3>2
  <2> HIDE DEF G
  <2> QED BY <1>3, <2>1
<1>5. v = Value(v)
  <2> HIDE DEF Value
  <2> QED BY <1>4
<1> HIDE DEF v, G
<1>6. /\ v = [i \in 0 .. w |-> v[i]] /\ v[0] = n
      /\ \A i \in 1 .. w : v[i] = v[i - 1] \div B
  <2>1. v = [i \in 0 .. w |-> v[i]]
    BY <1>5
  <2>2. \A i \in 0 .. w : v[i] = IF i = 0 THEN n ELSE v[i - 1] \div B
    BY <1>5
  <2> HIDE DEF Value
  <2>3. 0 \in 0 .. w /\ \A i \in 1 .. w : i \in 0 .. w /\ i # 0
    OBVIOUS
  <2> QED BY <2>1, <2>2, <2>3
<1>7. \A i \in 0 .. w : v[i] \in Nat
  <2> DEFINE A == {k \in Nat : k <= w => v[k] \in Nat}
  <2>1. 0 \in A
    BY <1>6
  <2>2. ASSUME NEW k \in A PROVE k + 1 \in A
    <3>1. SUFFICES ASSUME k + 1 <= w PROVE v[k + 1] \in Nat
      OBVIOUS
    <3>2. k + 1 \in 1 .. w /\ (k + 1) - 1 = k /\ v[k] \in Nat
      BY <3>1
    <3>3. v[k + 1] = v[k] \div B
      BY <1>6, <3>2
    <3> QED BY <1>1, <3>2, <3>3
  <2> HIDE DEF A
  <2>3. A \in SUBSET Nat
    BY DEF A
  <2>4. A = Nat
    BY <2>1, <2>2, <2>3, NatInd
  <2> QED BY <2>4 DEF A
<1>8. v \in [0 .. w -> Nat]
  BY <1>6, <1>7
<1>9. Quotients(v, n, w)
  BY <1>6, <1>8 DEF Quotients, B
<1> QED BY <1>2, <1>9 DEF B

\* What read holds of s: the numbers of its first bytes.
NumbersOf(v, s) ==
  /\ v \in [0 .. Len(s) -> Nat] /\ v[0] = 0
  /\ \A i \in 1 .. Len(s) : v[i] = W!Byte * v[i - 1] + s[i]

LEMMA UnpackDef ==
  ASSUME W!WSFrameAssumption, NEW s \in Seq(Nat)
  PROVE  \E v : NumbersOf(v, s) /\ W!Unpack(s) = v[Len(s)]
<1> DEFINE B == W!Byte
           w == Len(s)
           Value(f) == [i \in 0 .. w |-> IF i = 0 THEN 0 ELSE B * f[i - 1] + s[i]]
           v == CHOOSE f : f = Value(f)
           G == [y \in (1 .. w) \X Nat |-> B * y[2] + s[y[1]]]
<1>1. w \in Nat /\ \A i \in 1 .. w : s[i] \in Nat
  BY LenProperties, ElementOfSeq
<1>2. W!Unpack(s) = v[w]
  BY DEF W!Unpack
<1>3. B \in {16, 32, 64, 128, 256}
  BY Sizes
<1> HIDE DEF B, w
<1>4. \A i \in 1 .. w : \A m \in Nat : B * m + s[i] \in Nat
  BY <1>1, <1>3
<1>5. PICK f \in [0 .. w -> Nat] :
         f[0] = 0 /\ \A i \in 1 .. w : f[i] = G[<<i, f[i - 1]>>]
  <2>1. G \in [(1 .. w) \X Nat -> Nat]
    BY <1>4
  <2> HIDE DEF G
  <2>2. Iteration(w, Nat, 0, G)
    BY <1>1, <2>1 DEF Iteration
  <2> QED BY <2>2, Iterates
<1>6. f = Value(f)
  <2>1. ASSUME NEW i \in 1 .. w PROVE f[i] = B * f[i - 1] + s[i]
    <3>1. i - 1 \in 0 .. w
      BY <1>1
    <3>2. f[i] = G[<<i, f[i - 1]>>] /\ f[i - 1] \in Nat
      <4> HIDE DEF G
      <4> QED BY <1>5, <3>1
    <3>3. G[<<i, f[i - 1]>>] = B * f[i - 1] + s[i]
      BY <3>2
    <3> QED BY <3>2, <3>3
  <2> HIDE DEF G
  <2> QED BY <1>1, <1>5, <2>1
<1>7. v = Value(v)
  <2> HIDE DEF Value
  <2> QED BY <1>6
<1> HIDE DEF v, G
<1>8. /\ v = [i \in 0 .. w |-> v[i]] /\ v[0] = 0
      /\ \A i \in 1 .. w : v[i] = B * v[i - 1] + s[i]
  <2>1. v = [i \in 0 .. w |-> v[i]]
    BY <1>7
  <2>2. \A i \in 0 .. w : v[i] = IF i = 0 THEN 0 ELSE B * v[i - 1] + s[i]
    BY <1>7
  <2> HIDE DEF Value
  <2>3. 0 \in 0 .. w /\ \A i \in 1 .. w : i \in 0 .. w /\ i # 0
    BY <1>1
  <2> QED BY <2>1, <2>2, <2>3
<1>9. \A i \in 0 .. w : v[i] \in Nat
  <2> DEFINE A == {k \in Nat : k <= w => v[k] \in Nat}
  <2>1. 0 \in A
    BY <1>8
  <2>2. ASSUME NEW k \in A PROVE k + 1 \in A
    <3>1. SUFFICES ASSUME k + 1 <= w PROVE v[k + 1] \in Nat
      OBVIOUS
    <3>2. k + 1 \in 1 .. w /\ (k + 1) - 1 = k /\ v[k] \in Nat
      BY <1>1, <3>1
    <3>3. v[k + 1] = B * v[k] + s[k + 1]
      BY <1>8, <3>2
    <3> QED BY <1>4, <3>2, <3>3
  <2> HIDE DEF A
  <2>3. A \in SUBSET Nat
    BY DEF A
  <2>4. A = Nat
    BY <2>1, <2>2, <2>3, NatInd
  <2> QED BY <2>4 DEF A
<1>10. v \in [0 .. w -> Nat]
  BY <1>8, <1>9
<1>11. NumbersOf(v, s)
  BY <1>8, <1>10 DEF NumbersOf, B, w
<1> QED BY <1>2, <1>11 DEF w

\* struct.unpack gives back what struct.pack was given.
LEMMA PackReads ==
  ASSUME W!WSFrameAssumption, NEW n \in Nat, NEW w \in Nat
  PROVE  /\ W!Pack(n, w) \in Seq(W!Bytes) /\ Len(W!Pack(n, w)) = w
         /\ n < W!BytePow[w] => W!Unpack(W!Pack(n, w)) = n
<1> DEFINE s == W!Pack(n, w)
           B == W!Byte
           P == W!BytePow
<1>1. PICK r : /\ r \in [0 .. w -> Nat] /\ r[0] = n
               /\ \A i \in 1 .. w : r[i] = r[i - 1] \div B
               /\ s = [i \in 1 .. w |-> r[w - i] % B]
  <2>1. PICK v : /\ Quotients(v, n, w)
                 /\ W!Pack(n, w) = [i \in 1 .. w |-> v[w - i] % W!Byte]
    BY PackDef, Zenon
  <2> QED BY <2>1 DEF Quotients
<1>2. s \in Seq(W!Bytes) /\ Len(s) = w /\ s \in Seq(Nat)
  <2>1. ASSUME NEW i \in 1 .. w PROVE r[w - i] % B \in W!Bytes
    <3>1. r[w - i] \in Nat
      BY <1>1
    <3> QED BY <3>1, Quotient
  <2>2. s \in [1 .. w -> W!Bytes]
    BY <1>1, <2>1
  <2>3. s \in Seq(W!Bytes) /\ Len(s) = w
    BY <2>2
  <2> QED BY <2>3, Sizes, SeqMonotonic
<1>3. \A i \in 1 .. w : s[i] = r[w - i] % B
  BY <1>1
<1>4. PICK v : /\ v \in [0 .. w -> Nat] /\ v[0] = 0 /\ W!Unpack(s) = v[w]
               /\ \A i \in 1 .. w : v[i] = B * v[i - 1] + s[i]
  BY <1>2, UnpackDef DEF NumbersOf
<1> HIDE DEF s, P
<1>5. ASSUME n < P[w] PROVE W!Unpack(s) = n
  <2>1. r[w] = 0
    <3> DEFINE A == {i \in Nat : i <= w => r[i] < P[w - i]}
    <3>1. 0 \in A
      BY <1>1, <1>5
    <3>2. ASSUME NEW i \in A PROVE i + 1 \in A
      <4>1. SUFFICES ASSUME i + 1 <= w PROVE r[i + 1] < P[w - (i + 1)]
        OBVIOUS
      <4> DEFINE k == w - (i + 1)
      <4>2. /\ i \in 0 .. w /\ i + 1 \in 1 .. w /\ (i + 1) - 1 = i
            /\ k \in Nat /\ w - i = k + 1 /\ r[i] < P[w - i]
        BY <4>1
      <4>3. P[k + 1] = B * P[k] /\ P[k] \in Nat
        BY <4>2, BytePowDef DEF P
      <4>4. r[i + 1] = r[i] \div B /\ r[i] \in Nat
        BY <1>1, <4>2
      <4>5. r[i] < B * P[k]
        BY <4>2, <4>3
      <4> HIDE DEF k
      <4>6. r[i] \div B < P[k]
        BY <4>3, <4>4, <4>5, Quotient
      <4> QED BY <4>4, <4>6 DEF k
    <3> HIDE DEF A
    <3>3. A \in SUBSET Nat
      BY DEF A
    <3>4. A = Nat
      BY <3>1, <3>2, <3>3, NatInd
    <3>5. r[w] < P[w - w] /\ w - w = 0
      BY <3>4 DEF A
    <3>6. P[0] = 1
      BY BytePowDef DEF P
    <3> QED BY <1>1, <3>5, <3>6
  <2> DEFINE A == {i \in Nat : i <= w => v[i] = r[w - i]}
  <2>2. 0 \in A
    BY <1>4, <2>1
  <2>3. ASSUME NEW i \in A PROVE i + 1 \in A
    <3>1. SUFFICES ASSUME i + 1 <= w PROVE v[i + 1] = r[w - (i + 1)]
      OBVIOUS
    <3> DEFINE k == w - (i + 1)
    <3>2. /\ i + 1 \in 1 .. w /\ (i + 1) - 1 = i /\ k \in 0 .. w
          /\ k + 1 \in 1 .. w /\ (k + 1) - 1 = k /\ w - i = k + 1
          /\ v[i] = r[w - i]
      BY <3>1
    <3> HIDE DEF k
    <3>3. v[i + 1] = B * v[i] + s[i + 1] /\ s[i + 1] = r[k] % B
      BY <1>3, <1>4, <3>2 DEF k
    <3>4. v[i] = r[k] \div B /\ r[k] \in Nat
      BY <1>1, <3>2
    <3>5. r[k] = B * (r[k] \div B) + (r[k] % B)
      BY <3>4, Quotient
    <3> QED BY <3>3, <3>4, <3>5 DEF k
  <2> HIDE DEF A
  <2>4. A \in SUBSET Nat
    BY DEF A
  <2>5. A = Nat
    BY <2>2, <2>3, <2>4, NatInd
  <2>6. v[w] = r[w - w] /\ w - w = 0
    BY <2>5 DEF A
  <2> QED BY <1>1, <1>4, <2>6
<1> QED BY <1>2, <1>5 DEF s, P

-----------------------------------------------------------------------------
(* Exclusive or *)

LEMMA Halves ==
  ASSUME NEW a \in Nat
  PROVE  /\ a \div 2 \in Nat /\ a % 2 \in {0, 1} /\ a = 2 * (a \div 2) + (a % 2)
         /\ a \div 2 <= a /\ (a > 0 => a \div 2 < a)
OBVIOUS

LEMMA XorDef ==
  /\ W!Xor \in [Nat \X Nat -> Nat]
  /\ W!Xor[<<0, 0>>] = 0
  /\ \A a, b \in Nat :
       a + b > 0 =>
         W!Xor[<<a, b>>] = ((a + b) % 2) + 2 * W!Xor[<<a \div 2, b \div 2>>]
<1> DEFINE X == Nat \X Nat
           S == Nat
           h == [p \in X |-> <<p[1] \div 2, p[2] \div 2>>]
           rank == [p \in X |-> p[1] + p[2]]
           Step(p, u) == IF p = <<0, 0>> THEN 0 ELSE ((p[1] + p[2]) % 2) + 2 * u
           G == [y \in X \X S |-> Step(y[1], y[2])]
           Value(f) == [p \in X |-> IF p = <<0, 0>> THEN 0
                                    ELSE ((p[1] + p[2]) % 2)
                                         + 2 * f[<<p[1] \div 2, p[2] \div 2>>]]
           v == CHOOSE f : f = Value(f)
<1>1. \A p \in X : /\ p[1] \in Nat /\ p[2] \in Nat /\ p = <<p[1], p[2]>>
                   /\ h[p] = <<p[1] \div 2, p[2] \div 2>> /\ h[p] \in X
  <2>1. ASSUME NEW p \in X
        PROVE  /\ p[1] \in Nat /\ p[2] \in Nat /\ p = <<p[1], p[2]>>
               /\ <<p[1] \div 2, p[2] \div 2>> \in X
    <3>1. p[1] \in Nat /\ p[2] \in Nat /\ p = <<p[1], p[2]>>
      OBVIOUS
    <3> QED BY <3>1, Halves
  <2> QED BY <2>1
<1>2. W!Xor = v
  BY DEF W!Xor
<1>3. \A p \in X : \A u \in S : Step(p, u) \in S
  <2>1. ASSUME NEW p \in X, NEW u \in S PROVE Step(p, u) \in S
    <3>1. p[1] + p[2] \in Nat
      BY <1>1
    <3>2. (p[1] + p[2]) % 2 \in {0, 1}
      BY <3>1, Halves
    <3> QED BY <3>2
  <2> QED BY <2>1
<1>4. WellFounded(X, S, rank, h, G)
  <2>1. rank \in [X -> Nat] /\ S # {}
    <3>1. \A p \in X : p[1] + p[2] \in Nat
      BY <1>1
    <3> QED BY <3>1
  <2>2. h \in [X -> X]
    <3> HIDE DEF X
    <3> QED BY <1>1
  <2>3. G \in [X \X S -> S]
    <3> HIDE DEF X, Step, S
    <3> QED BY <1>3
  <2>4. ASSUME NEW p \in X
        PROVE  \/ rank[h[p]] < rank[p]
               \/ \A u, w \in S : G[<<p, u>>] = G[<<p, w>>]
    <3>1. CASE p = <<0, 0>>
      <4>1. \A u \in S : G[<<p, u>>] = 0
        BY <3>1
      <4> HIDE DEF G
      <4> QED BY <4>1
    <3>2. CASE p # <<0, 0>>
      <4>1. /\ rank[p] = p[1] + p[2]
            /\ rank[h[p]] = (p[1] \div 2) + (p[2] \div 2)
        <5> HIDE DEF h
        <5>1. h[p][1] = p[1] \div 2 /\ h[p][2] = p[2] \div 2 /\ h[p] \in X
          BY <1>1
        <5> HIDE DEF X
        <5> QED BY <5>1
      <4>2. p[1] \in Nat /\ p[2] \in Nat /\ (p[1] > 0 \/ p[2] > 0)
        BY <1>1, <3>2
      <4>3. (p[1] \div 2) + (p[2] \div 2) < p[1] + p[2]
        <5> DEFINE a == p[1]
                   b == p[2]
        <5>1. /\ a \in Nat /\ b \in Nat /\ (a > 0 \/ b > 0)
          BY <4>2
        <5> HIDE DEF a, b
        <5>2. (a \div 2) + (b \div 2) < a + b
          BY <5>1
        <5> QED BY <5>2 DEF a, b
      <4> HIDE DEF rank
      <4> QED BY <4>1, <4>3
    <3> QED BY <3>1, <3>2
  <2> HIDE DEF X, S, h, G, rank
  <2> QED BY <2>1, <2>2, <2>3, <2>4 DEF WellFounded
<1>5. \E f \in [X -> S] : \A p \in X : f[p] = G[<<p, f[h[p]]>>]
  <2> HIDE DEF X, S, h, G, rank
  <2> QED BY <1>4, Recursion
<1>6. PICK f \in [X -> S] : \A p \in X : f[p] = G[<<p, f[h[p]]>>]
  BY <1>5
<1>7. f = Value(f)
  <2>1. ASSUME NEW p \in X
        PROVE  f[p] = IF p = <<0, 0>> THEN 0
                      ELSE ((p[1] + p[2]) % 2)
                           + 2 * f[<<p[1] \div 2, p[2] \div 2>>]
    <3>1. f[p] = G[<<p, f[h[p]]>>] /\ f[h[p]] \in S
      <4> HIDE DEF X, S, h, G
      <4> QED BY <1>1, <1>6
    <3>2. G[<<p, f[h[p]]>>] = Step(p, f[h[p]])
      <4> HIDE DEF X, S, h, Step
      <4> QED BY <3>1
    <3>3. h[p] = <<p[1] \div 2, p[2] \div 2>>
      BY <1>1
    <3> HIDE DEF G, h
    <3> QED BY <3>1, <3>2, <3>3
  <2> HIDE DEF X
  <2> QED BY <1>6, <2>1
<1>8. v = Value(v)
  <2> HIDE DEF Value
  <2> QED BY <1>7
<1> HIDE DEF v, G, h, rank
<1>9. /\ v = [p \in X |-> v[p]]
      /\ \A p \in X : v[p] = IF p = <<0, 0>> THEN 0
                             ELSE ((p[1] + p[2]) % 2)
                                  + 2 * v[<<p[1] \div 2, p[2] \div 2>>]
  <2> HIDE DEF X
  <2> QED BY <1>8
<1> HIDE DEF Value
<1>10. v[<<0, 0>>] = 0
  <2>1. <<0, 0>> \in X
    OBVIOUS
  <2> HIDE DEF X
  <2> QED BY <1>9, <2>1
<1>11. ASSUME NEW a \in Nat, NEW b \in Nat, a + b > 0
       PROVE  v[<<a, b>>] = ((a + b) % 2) + 2 * v[<<a \div 2, b \div 2>>]
  <2>1. <<a, b>> \in X /\ <<a, b>> # <<0, 0>>
        /\ <<a, b>>[1] = a /\ <<a, b>>[2] = b
    BY <1>11
  <2> HIDE DEF X
  <2> QED BY <1>9, <2>1
<1>12. \A a, b \in Nat : v[<<a, b>>] \in Nat
  <2> DEFINE A == {n \in Nat : \A a, b \in Nat : a + b = n => v[<<a, b>>] \in Nat}
  <2>1. ASSUME NEW n \in Nat, \A m \in Nat : m < n => m \in A PROVE n \in A
    <3>1. SUFFICES ASSUME NEW a \in Nat, NEW b \in Nat, a + b = n
                   PROVE  v[<<a, b>>] \in Nat
      OBVIOUS
    <3>2. CASE n = 0
      <4>1. a = 0 /\ b = 0
        BY <3>1, <3>2
      <4> QED BY <1>10, <4>1
    <3>3. CASE n > 0
      <4> DEFINE c == a \div 2
                 d == b \div 2
      <4>1. c \in Nat /\ d \in Nat /\ c + d < n /\ c + d \in Nat /\ a + b > 0
        BY <3>1, <3>3
      <4>2. v[<<a, b>>] = ((a + b) % 2) + 2 * v[<<c, d>>]
        BY <1>11, <4>1
      <4> HIDE DEF c, d
      <4>3. v[<<c, d>>] \in Nat
        BY <2>1, <4>1
      <4>4. (a + b) % 2 \in {0, 1}
        BY Halves
      <4> QED BY <4>2, <4>3, <4>4
    <3> QED BY <3>2, <3>3
  <2> HIDE DEF A
  <2>2. A \in SUBSET Nat
    BY DEF A
  <2>3. A = Nat
    BY <2>1, <2>2, StrongInd
  <2>4. ASSUME NEW a \in Nat, NEW b \in Nat PROVE v[<<a, b>>] \in Nat
    <3>1. a + b \in A
      BY <2>3
    <3> QED BY <3>1 DEF A
  <2> QED BY <2>4
<1>13. v \in [X -> Nat]
  <2>1. \A p \in X : v[p] \in Nat
    BY <1>1, <1>12
  <2> HIDE DEF X
  <2> QED BY <1>9, <2>1
<1> QED BY <1>2, <1>10, <1>11, <1>13

\* ws_unmask undoes what masking did.
LEMMA XorTwice ==
  ASSUME NEW a \in Nat, NEW b \in Nat
  PROVE  W!Xor[<<a, b>>] \in Nat /\ W!Xor[<<W!Xor[<<a, b>>], b>>] = a
<1> DEFINE X(x, y) == W!Xor[<<x, y>>]
           A == {n \in Nat : \A x, y \in Nat : x + y = n => X(X(x, y), y) = x}
<1>1. /\ \A x, y \in Nat : X(x, y) \in Nat
      /\ X(0, 0) = 0
      /\ \A x, y \in Nat :
           x + y > 0 => X(x, y) = ((x + y) % 2) + 2 * X(x \div 2, y \div 2)
  BY XorDef
<1> HIDE DEF X
<1>2. ASSUME NEW n \in Nat, \A m \in Nat : m < n => m \in A PROVE n \in A
  <2>1. SUFFICES ASSUME NEW x \in Nat, NEW y \in Nat, x + y = n
                 PROVE  X(X(x, y), y) = x
    OBVIOUS
  <2>2. CASE n = 0
    <3>1. x = 0 /\ y = 0
      BY <2>1, <2>2
    <3> QED BY <1>1, <3>1
  <2>3. CASE n > 0
    <3> DEFINE c == x \div 2
               d == y \div 2
               u == X(c, d)
               z == X(x, y)
    <3>1. c \in Nat /\ d \in Nat /\ c + d < n /\ c + d \in Nat /\ x + y > 0
      BY <2>1, <2>3
    <3>2. z = ((x + y) % 2) + 2 * u
      BY <1>1, <3>1
    <3>3. X(u, d) = c
      <4>1. c + d \in A
        BY <1>2, <3>1
      <4> HIDE DEF c, d
      <4> QED BY <3>1, <4>1
    <3>4. u \in Nat /\ z \in Nat
      BY <1>1, <3>1
    <3> HIDE DEF u, z
    <3>5. z \div 2 = u /\ z % 2 = (x + y) % 2
      BY <3>2, <3>4
    <3>6. CASE z + y = 0
      <4>1. z = 0 /\ y = 0
        BY <3>4, <3>6
      <4>2. u = 0 /\ d = 0 /\ x % 2 = 0
        BY <3>5, <4>1
      <4>3. c = 0
        BY <1>1, <3>3, <4>2
      <4>4. x = 0
        BY <4>2, <4>3
      <4> QED BY <3>1, <4>1, <4>4
    <3>7. CASE z + y > 0
      <4>1. X(z, y) = ((z + y) % 2) + 2 * X(z \div 2, y \div 2)
        BY <1>1, <3>4, <3>7
      <4>2. X(z \div 2, y \div 2) = c
        BY <3>3, <3>5
      <4>3. (z + y) % 2 = x % 2
        BY <3>4, <3>5
      <4> HIDE DEF c
      <4>4. X(z, y) = (x % 2) + 2 * c
        BY <4>1, <4>2, <4>3
      <4> QED BY <4>4 DEF c, z
    <3>8. z + y = 0 \/ z + y > 0
      BY <3>4
    <3> QED BY <3>6, <3>7, <3>8 DEF z
  <2> QED BY <2>2, <2>3
<1> HIDE DEF A
<1>3. A \in SUBSET Nat
  BY DEF A
<1>4. A = Nat
  BY <1>2, <1>3, StrongInd
<1>5. a + b \in A
  BY <1>4
<1>6. X(X(a, b), b) = a
  BY <1>5 DEF A
<1> QED BY <1>1, <1>6 DEF X

-----------------------------------------------------------------------------
(* The bytes of a frame *)

\* The bytes of b behind the first i, up to the j-th.
Part(b, i, j) == SubSeq(b, i + 1, j)

Within(b, i, j) == b \in Seq(Nat) /\ i \in Nat /\ j \in Nat /\ i <= j /\ j <= Len(b)

LEMMA IsSeq ==
  ASSUME NEW S, NEW n \in Nat, NEW g \in [1 .. n -> S]
  PROVE  g \in Seq(S) /\ Len(g) = n
OBVIOUS

LEMMA PartForm ==
  ASSUME NEW b, NEW i, NEW j, Within(b, i, j)
  PROVE  /\ Part(b, i, j) \in Seq(Nat) /\ Len(Part(b, i, j)) = j - i
         /\ \A k \in 1 .. j - i : Part(b, i, j)[k] = b[i + k]
         /\ i = j => Part(b, i, j) = <<>>
<1>1. b \in Seq(Nat) /\ i \in Nat /\ j \in Nat /\ i <= j /\ j <= Len(b)
  BY DEF Within
<1>2. \A k \in i + 1 .. j : b[k] \in Nat
  BY <1>1, ElementOfSeq
<1> DEFINE m == i + 1
<1>3. /\ SubSeq(b, m, j) \in Seq(Nat)
      /\ Len(SubSeq(b, m, j)) = IF m <= j THEN (j - m) + 1 ELSE 0
      /\ \A k \in 1 .. (j - m) + 1 : SubSeq(b, m, j)[k] = b[(m + k) - 1]
  <2>1. m \in Int /\ j \in Int
    BY <1>1
  <2> HIDE DEF m
  <2> QED BY <1>2, <2>1, SubSeqProperties DEF m
<1>4. /\ (j - m) + 1 = j - i
      /\ \A k \in 1 .. j - i : (m + k) - 1 = i + k
      /\ ~(m <= j) => j - i = 0
  BY <1>1
<1>5. i = j => SubSeq(b, m, j) = <<>>
  BY <1>1, SubSeqEmpty
<1> HIDE DEF m
<1> QED BY <1>3, <1>4, <1>5 DEF Part, m

LEMMA FirstPart ==
  ASSUME NEW b, NEW q, Within(b, 0, q)
  PROVE  \A k \in 1 .. q : Part(b, 0, q)[k] = b[k]
<1> DEFINE i == 0
<1>1. Within(b, i, q)
  OBVIOUS
<1> HIDE DEF i
<1>2. \A k \in 1 .. q - i : Part(b, i, q)[k] = b[i + k]
  BY <1>1, PartForm
<1>3. q \in Nat
  BY DEF Within
<1> QED BY <1>2, <1>3 DEF i

LEMMA PartIs ==
  ASSUME NEW b, NEW i, NEW j, Within(b, i, j), NEW y \in Seq(Nat),
         Len(y) = j - i, \A k \in 1 .. j - i : y[k] = b[i + k]
  PROVE  Part(b, i, j) = y
<1>1. /\ Part(b, i, j) \in Seq(Nat) /\ Len(Part(b, i, j)) = Len(y)
      /\ \A k \in 1 .. Len(Part(b, i, j)) : Part(b, i, j)[k] = y[k]
  BY PartForm, SMTT(30)
<1> QED BY <1>1, SeqEqual

LEMMA PartJoin ==
  ASSUME NEW b, NEW i, NEW k, NEW j, Within(b, i, k), Within(b, k, j)
  PROVE  Part(b, i, k) \o Part(b, k, j) = Part(b, i, j)
<1> DEFINE x == Part(b, i, k)
           y == Part(b, k, j)
           z == x \o y
<1>1. /\ i \in Nat /\ j \in Nat /\ k \in Nat /\ i <= k /\ k <= j
      /\ Within(b, i, j)
  BY DEF Within
<1>2. /\ x \in Seq(Nat) /\ Len(x) = k - i /\ \A m \in 1 .. k - i : x[m] = b[i + m]
      /\ y \in Seq(Nat) /\ Len(y) = j - k /\ \A m \in 1 .. j - k : y[m] = b[k + m]
  BY PartForm
<1>3. IsJoin(z, x, y)
  BY <1>2, Joined
<1> HIDE DEF x, y, z
<1>4. z \in Seq(Nat) /\ Len(z) = j - i
  BY <1>1, <1>2, <1>3 DEF IsJoin
<1>5. ASSUME NEW m \in 1 .. j - i PROVE z[m] = b[i + m]
  <2>1. CASE m \in 1 .. k - i
    BY <1>2, <1>3, <2>1 DEF IsJoin
  <2>2. CASE m \notin 1 .. k - i
    <3> DEFINE d == m - (k - i)
    <3>1. d \in 1 .. j - k /\ (k - i) + d = m /\ k + d = i + m
      BY <1>1, <2>2
    <3> HIDE DEF d
    <3>2. z[(k - i) + d] = y[d] /\ y[d] = b[k + d]
      BY <1>2, <1>3, <3>1 DEF IsJoin
    <3> QED BY <3>1, <3>2
  <2> QED BY <2>1, <2>2
<1>6. Part(b, i, j) = z
  BY <1>1, <1>4, <1>5, PartIs
<1> QED BY <1>6 DEF x, y, z

LEMMA PartCut ==
  ASSUME NEW b, NEW i, NEW j, Within(b, i, j), NEW n \in Nat, n <= j - i
  PROVE  /\ W!Without(n, Part(b, i, j)) = Part(b, i + n, j)
         /\ W!First(n, Part(b, i, j)) = Part(b, i, i + n)
         /\ Within(b, i + n, j) /\ Within(b, i, i + n)
<1> DEFINE x == Part(b, i, j)
<1>1. /\ i \in Nat /\ j \in Nat /\ i <= j /\ j <= Len(b) /\ b \in Seq(Nat)
      /\ Len(b) \in Nat
  BY LenProperties DEF Within
<1>2. /\ x \in Seq(Nat) /\ Len(x) = j - i /\ \A k \in 1 .. j - i : x[k] = b[i + k]
  BY PartForm
<1>3. Within(b, i + n, j) /\ Within(b, i, i + n)
  BY <1>1 DEF Within
<1>4. Within(x, n, j - i) /\ Within(x, 0, n)
  BY <1>1, <1>2 DEF Within
<1> HIDE DEF x
<1>5. W!Without(n, x) = Part(x, n, j - i)
  BY <1>2 DEF W!Without, Part
<1>6. W!First(n, x) = Part(x, 0, n)
  <2>1. (IF n < Len(x) THEN n ELSE Len(x)) = n
    BY <1>1, <1>2
  <2> QED BY <2>1 DEF W!First, Part
<1>7. Part(x, n, j - i) = Part(b, i + n, j)
  <2> DEFINE y == Part(b, i + n, j)
  <2>1. /\ y \in Seq(Nat) /\ Len(y) = j - (i + n)
        /\ \A k \in 1 .. j - (i + n) : y[k] = b[(i + n) + k]
    BY <1>3, PartForm
  <2> HIDE DEF y
  <2>2. Len(y) = (j - i) - n
    BY <1>1, <2>1
  <2>3. ASSUME NEW k \in 1 .. (j - i) - n PROVE y[k] = x[n + k]
    <3>1. /\ k \in 1 .. j - (i + n) /\ n + k \in 1 .. j - i
          /\ (i + n) + k = i + (n + k)
      BY <1>1
    <3> QED BY <1>2, <2>1, <3>1
  <2>4. Part(x, n, j - i) = y
    BY <1>4, <2>1, <2>2, <2>3, PartIs
  <2> QED BY <2>4 DEF y
<1>8. Part(x, 0, n) = Part(b, i, i + n)
  <2> DEFINE y == Part(b, i, i + n)
  <2>1. /\ y \in Seq(Nat) /\ Len(y) = (i + n) - i
        /\ \A k \in 1 .. (i + n) - i : y[k] = b[i + k]
    BY <1>3, PartForm
  <2> HIDE DEF y
  <2>2. Len(y) = n - 0
    BY <1>1, <2>1
  <2>3. ASSUME NEW k \in 1 .. n - 0 PROVE y[k] = x[0 + k]
    <3>1. k \in 1 .. (i + n) - i /\ k \in 1 .. j - i /\ 0 + k = k
      BY <1>1
    <3> QED BY <1>2, <2>1, <3>1
  <2>4. Part(x, 0, n) = y
    BY <1>4, <2>1, <2>2, <2>3, PartIs
  <2> QED BY <2>4 DEF y
<1> QED BY <1>3, <1>5, <1>6, <1>7, <1>8 DEF x

LEMMA WholePart ==
  ASSUME NEW b \in Seq(Nat)
  PROVE  Part(b, 0, Len(b)) = b /\ Within(b, 0, Len(b))
<1>1. Len(b) \in Nat
  BY LenProperties
<1>2. Within(b, 0, Len(b))
  BY <1>1 DEF Within
<1>3. SubSeq(b, 1, Len(b)) = b
  BY SubSeqFull
<1> QED BY <1>2, <1>3 DEF Part

\* The frames that are read in order: those of text, and of closing.
Spoken == {f \in Frames : /\ f.opcode # W!CLOSE
                          /\ f.key # <<>> /\ f.key[1] # 0 /\ f.data # <<>>}

Size(f) == Len(f.data)

\* The width of a frame's extended length, and the low bits of its second byte.
Wide(f) == IF Size(f) < Half - 2 THEN 0
           ELSE IF Size(f) < W!BytePow[Width2] THEN Width2 ELSE Width8
Len1(f) == IF Size(f) < Half - 2 THEN Size(f)
           ELSE IF Size(f) < W!BytePow[Width2] THEN Half - 2 ELSE Half - 1

Mark(f) == IF f.key = <<>> THEN 0 ELSE Half

LengthForm(c, f) ==
  /\ c \in Seq(Nat) /\ Len(c) = 1 + Wide(f) /\ c[1] = Mark(f) + Len1(f)
  /\ \A i \in 1 .. Wide(f) : c[1 + i] = W!Pack(Size(f), Wide(f))[i]

LEMMA FrameParts ==
  ASSUME W!WSFrameAssumption, NEW f \in Frames
  PROVE  /\ f.opcode \in Nat /\ f.data \in Seq(Nat) /\ f.key \in Seq(Nat)
         /\ f.key # <<>> => Len(f.key) = 4
         /\ Size(f) \in Nat /\ Size(f) < W!BytePow[Width8]
<1>1. /\ f.opcode \in W!Bytes /\ f.data \in Seq(W!Bytes)
      /\ f.key \in {<<>>} \cup [1 .. 4 -> W!Bytes]
      /\ Len(f.data) < W!BytePow[Width8]
  BY DEF W!WSFrameAssumption
<1>2. W!Bytes \subseteq Nat
  BY Sizes
<1> HIDE DEF W!Bytes
<1>3. f.data \in Seq(Nat) /\ Len(f.data) \in Nat
  BY <1>1, <1>2, SeqMonotonic, LenProperties
<1>4. CASE f.key = <<>>
  BY <1>1, <1>2, <1>3, <1>4, EmptySeq DEF Size
<1>5. CASE f.key \in [1 .. 4 -> W!Bytes]
  <2>1. f.key \in [1 .. 4 -> Nat]
    BY <1>2, <1>5
  <2>2. f.key \in Seq(Nat) /\ Len(f.key) = 4
    <3> DEFINE n == 4
    <3>1. n \in Nat /\ f.key \in [1 .. n -> Nat]
      BY <2>1
    <3> HIDE DEF n
    <3>2. f.key \in Seq(Nat) /\ Len(f.key) = n
      BY <3>1, IsSeq
    <3> QED BY <3>2 DEF n
  <2> QED BY <1>1, <1>2, <1>3, <2>2 DEF Size
<1> QED BY <1>1, <1>4, <1>5

LEMMA LengthBytes ==
  ASSUME W!WSFrameAssumption, NEW f \in Frames
  PROVE  LET n    == Len(f.data)
             code == IF n < Half - 2 THEN <<Mark(f) + n>>
                     ELSE IF n < W!BytePow[Width2]
                     THEN <<Mark(f) + Half - 2>> \o W!Pack(n, Width2)
                     ELSE <<Mark(f) + Half - 1>> \o W!Pack(n, Width8)
         IN LengthForm(code, f)
<1> DEFINE n == Len(f.data)
           P == W!BytePow[Width2]
           code == IF n < Half - 2 THEN <<Mark(f) + n>>
                   ELSE IF n < P THEN <<Mark(f) + Half - 2>> \o W!Pack(n, Width2)
                   ELSE <<Mark(f) + Half - 1>> \o W!Pack(n, Width8)
<1>1. /\ n \in Nat /\ n = Size(f) /\ Half \in {8, 16, 32, 64, 128}
      /\ Width2 \in Nat /\ Width8 \in Nat /\ Mark(f) \in Nat
  BY Sizes, FrameParts DEF Size, Mark
<1>2. ASSUME NEW w \in {Width2, Width8}, NEW x \in Nat
      PROVE  LET c == <<x>> \o W!Pack(n, w)
             IN /\ c \in Seq(Nat) /\ Len(c) = 1 + w /\ c[1] = x
                /\ \A i \in 1 .. w : c[1 + i] = W!Pack(n, w)[i]
  <2> DEFINE p == W!Pack(n, w)
             c == <<x>> \o p
  <2>1. p \in Seq(W!Bytes) /\ Len(p) = w
    BY <1>1, PackReads
  <2>2. p \in Seq(Nat)
    BY <2>1, Sizes, SeqMonotonic
  <2>3. <<x>> \in Seq(Nat) /\ Len(<<x>>) = 1 /\ <<x>>[1] = x
    OBVIOUS
  <2> HIDE DEF p
  <2>4. IsJoin(c, <<x>>, p)
    BY <2>2, <2>3, Joined
  <2> HIDE DEF c
  <2>5. /\ c \in Seq(Nat) /\ Len(c) = 1 + w /\ c[1] = x
        /\ \A i \in 1 .. w : c[1 + i] = p[i]
    BY <2>1, <2>3, <2>4 DEF IsJoin
  <2> QED BY <2>5 DEF c, p
<1> HIDE DEF n, P
<1>3. CASE n < Half - 2
  <2>1. Wide(f) = 0 /\ Len1(f) = n
    BY <1>1, <1>3 DEF Wide, Len1
  <2> DEFINE x == Mark(f) + n
  <2>2. code = <<x>> /\ x \in Nat
    BY <1>1, <1>3
  <2> HIDE DEF x
  <2>3. code \in Seq(Nat) /\ Len(code) = 1 /\ code[1] = x
    <3> HIDE DEF code
    <3> QED BY <2>2
  <2>4. Mark(f) + Len1(f) = x /\ 1 .. Wide(f) = {} /\ 1 + Wide(f) = 1
    BY <2>1 DEF x
  <2> HIDE DEF code
  <2>5. LengthForm(code, f)
    BY <2>3, <2>4 DEF LengthForm
  <2> QED BY <2>5 DEF code, n, P
<1>4. CASE ~(n < Half - 2) /\ n < P
  <2>1. Wide(f) = Width2 /\ Len1(f) = Half - 2
    BY <1>1, <1>4 DEF Wide, Len1, P
  <2> DEFINE x == Mark(f) + Half - 2
  <2>2. code = <<x>> \o W!Pack(n, Width2) /\ x \in Nat /\ x = Mark(f) + Len1(f)
    BY <1>1, <1>4, <2>1
  <2> HIDE DEF code, x
  <2>3. /\ code \in Seq(Nat) /\ Len(code) = 1 + Width2 /\ code[1] = x
        /\ \A i \in 1 .. Width2 : code[1 + i] = W!Pack(n, Width2)[i]
    BY <1>2, <2>2
  <2>4. LengthForm(code, f)
    BY <1>1, <2>1, <2>2, <2>3 DEF LengthForm
  <2> QED BY <2>4 DEF code, n, P
<1>5. CASE ~(n < Half - 2) /\ ~(n < P)
  <2>1. Wide(f) = Width8 /\ Len1(f) = Half - 1
    BY <1>1, <1>5 DEF Wide, Len1, P
  <2> DEFINE x == Mark(f) + Half - 1
  <2>2. code = <<x>> \o W!Pack(n, Width8) /\ x \in Nat /\ x = Mark(f) + Len1(f)
    BY <1>1, <1>5, <2>1
  <2> HIDE DEF code, x
  <2>3. /\ code \in Seq(Nat) /\ Len(code) = 1 + Width8 /\ code[1] = x
        /\ \A i \in 1 .. Width8 : code[1 + i] = W!Pack(n, Width8)[i]
    BY <1>2, <2>2
  <2>4. LengthForm(code, f)
    BY <1>1, <2>1, <2>2, <2>3 DEF LengthForm
  <2> QED BY <2>4 DEF code, n, P
<1> QED BY <1>3, <1>4, <1>5

LEMMA MaskedType ==
  ASSUME NEW k \in Seq(Nat), k = <<>> \/ Len(k) = 4, NEW d \in Seq(Nat)
  PROVE  /\ W!Masked(k, d) \in Seq(Nat) /\ Len(W!Masked(k, d)) = Len(d)
         /\ k = <<>> => W!Masked(k, d) = d
         /\ k # <<>> => \A i \in 1 .. Len(d) :
              W!Masked(k, d)[i] = W!Xor[<<d[i], k[1 + ((i - 1) % 4)]>>]
<1> DEFINE X(i) == W!Xor[<<d[i], k[1 + ((i - 1) % 4)]>>]
           m == [i \in 1 .. Len(d) |-> IF k = <<>> THEN d[i] ELSE X(i)]
<1>1. /\ DOMAIN d = 1 .. Len(d) /\ Len(d) \in Nat
      /\ \A i \in 1 .. Len(d) : d[i] \in Nat
  BY LenProperties, ElementOfSeq
<1>2. W!Masked(k, d) = m
  BY <1>1 DEF W!Masked
<1>3. ASSUME k # <<>>, NEW i \in 1 .. Len(d) PROVE X(i) \in Nat
  <2>1. 1 + ((i - 1) % 4) \in 1 .. 4
    BY <1>1
  <2> DEFINE j == 1 + ((i - 1) % 4)
  <2> HIDE DEF j
  <2>2. k[j] \in Nat
    BY <1>3, <2>1, ElementOfSeq DEF j
  <2>3. d[i] \in Nat
    BY <1>1
  <2> QED BY <2>2, <2>3, XorTwice DEF j
<1> HIDE DEF X
<1>4. m \in [1 .. Len(d) -> Nat]
  BY <1>1, <1>3
<1>5. m \in Seq(Nat) /\ Len(m) = Len(d)
  <2> DEFINE n == Len(d)
  <2>1. n \in Nat /\ m \in [1 .. n -> Nat]
    BY <1>1, <1>4
  <2> HIDE DEF n, m
  <2>2. m \in Seq(Nat) /\ Len(m) = n
    BY <2>1, IsSeq
  <2> QED BY <2>2 DEF n
<1>6. ASSUME k = <<>> PROVE m = d
  <2>1. \A i \in 1 .. Len(m) : m[i] = d[i]
    BY <1>5, <1>6
  <2> HIDE DEF m
  <2> QED BY <1>5, <2>1, SeqEqual
<1>7. ASSUME k # <<>> PROVE \A i \in 1 .. Len(d) : m[i] = X(i)
  BY <1>7
<1> HIDE DEF m
<1> QED BY <1>2, <1>5, <1>6, <1>7 DEF X

FrameForm(b, f) ==
  LET w == Wide(f)
      h == 2 + w + Len(f.key)
  IN /\ b \in Seq(Nat) /\ Len(b) = h + Size(f)
     /\ b[1] = f.opcode /\ b[2] = Mark(f) + Len1(f)
     /\ Part(b, 2, 2 + w) = W!Pack(Size(f), w)
     /\ Part(b, 2 + w, h) = f.key
     /\ Part(b, h, Len(b)) = W!Masked(f.key, f.data)

LEMMA BytesForm ==
  ASSUME W!WSFrameAssumption, NEW f \in Frames
  PROVE  FrameForm(W!BytesOf(f), f) /\ Wide(f) \in Nat
<1> DEFINE n == Len(f.data)
           code == IF n < Half - 2 THEN <<Mark(f) + n>>
                   ELSE IF n < W!BytePow[Width2]
                   THEN <<Mark(f) + Half - 2>> \o W!Pack(n, Width2)
                   ELSE <<Mark(f) + Half - 1>> \o W!Pack(n, Width8)
           one == <<f.opcode>>
           x == one \o code
           y == x \o f.key
           m == W!Masked(f.key, f.data)
           b == y \o m
           w == Wide(f)
           k == Len(f.key)
<1>1. W!BytesOf(f) = b
  BY DEF W!BytesOf, W!FrameBytes, Mark
<1>2. LengthForm(code, f)
  BY LengthBytes
<1>3. /\ one \in Seq(Nat) /\ Len(one) = 1 /\ one[1] = f.opcode
  BY FrameParts
<1> HIDE DEF code, one
<1>4. /\ f.key \in Seq(Nat) /\ f.data \in Seq(Nat) /\ k \in Nat /\ Size(f) \in Nat
      /\ f.key = <<>> \/ Len(f.key) = 4
      /\ w \in Nat
  <2>1. w \in Nat
    BY Sizes DEF Wide
  <2> QED BY <2>1, FrameParts, LenProperties
<1>5. m \in Seq(Nat) /\ Len(m) = Size(f)
  BY <1>4, MaskedType DEF Size
<1> HIDE DEF m, w, k
<1>6. /\ code \in Seq(Nat) /\ Len(code) = 1 + w /\ code[1] = Mark(f) + Len1(f)
      /\ \A i \in 1 .. w : code[1 + i] = W!Pack(Size(f), w)[i]
  BY <1>2 DEF LengthForm, w
<1>7. IsJoin(x, one, code)
  BY <1>3, <1>6, Joined
<1> HIDE DEF x
<1>8. x \in Seq(Nat)
  BY <1>7 DEF IsJoin
<1>9. IsJoin(y, x, f.key)
  BY <1>4, <1>8, Joined
<1> HIDE DEF y
<1>10. y \in Seq(Nat)
  BY <1>9 DEF IsJoin
<1>11. IsJoin(b, y, m)
  BY <1>5, <1>10, Joined
<1> HIDE DEF b
<1>12. /\ Len(x) = 2 + w /\ x[1] = f.opcode /\ x[2] = Mark(f) + Len1(f)
       /\ \A i \in 1 .. w : x[2 + i] = W!Pack(Size(f), w)[i]
  <2>1. Len(x) = 2 + w
    BY <1>3, <1>4, <1>6, <1>7 DEF IsJoin
  <2>2. x[1] = f.opcode
    BY <1>3, <1>7 DEF IsJoin
  <2>3. \A i \in 1 .. 1 + w : x[1 + i] = code[i]
    BY <1>3, <1>6, <1>7 DEF IsJoin
  <2>4. x[2] = Mark(f) + Len1(f)
    <3>1. 1 \in 1 .. 1 + w /\ 1 + 1 = 2
      BY <1>4
    <3> QED BY <1>6, <2>3, <3>1
  <2>5. ASSUME NEW i \in 1 .. w PROVE x[2 + i] = W!Pack(Size(f), w)[i]
    <3>1. 1 + i \in 1 .. 1 + w /\ 1 + (1 + i) = 2 + i
      BY <1>4
    <3>2. x[1 + (1 + i)] = code[1 + i]
      BY <2>3, <3>1
    <3> QED BY <1>6, <3>1, <3>2
  <2> QED BY <2>1, <2>2, <2>4, <2>5
<1>13. /\ Len(y) = (2 + w) + k
       /\ \A i \in 1 .. 2 + w : y[i] = x[i]
       /\ \A i \in 1 .. k : y[(2 + w) + i] = f.key[i]
  BY <1>9, <1>12 DEF IsJoin, k
<1>14. /\ b \in Seq(Nat) /\ Len(b) = ((2 + w) + k) + Size(f)
       /\ \A i \in 1 .. (2 + w) + k : b[i] = y[i]
       /\ \A i \in 1 .. Size(f) : b[((2 + w) + k) + i] = m[i]
  BY <1>5, <1>11, <1>13 DEF IsJoin
<1>15. b \in Seq(Nat) /\ Len(b) = ((2 + w) + k) + Size(f)
  BY <1>14
<1>16. \A i \in 1 .. 2 + w : b[i] = x[i]
  <2>1. \A i \in 1 .. 2 + w : i \in 1 .. (2 + w) + k
    BY <1>4
  <2> QED BY <1>13, <1>14, <2>1
<1>17. b[1] = f.opcode /\ b[2] = Mark(f) + Len1(f)
  <2>1. 1 \in 1 .. 2 + w /\ 2 \in 1 .. 2 + w
    BY <1>4
  <2> QED BY <1>12, <1>16, <2>1
<1>18. Part(b, 2, 2 + w) = W!Pack(Size(f), w)
  <2> DEFINE p == W!Pack(Size(f), w)
  <2>1. p \in Seq(W!Bytes) /\ Len(p) = w
    BY <1>4, PackReads
  <2>2. p \in Seq(Nat)
    BY <2>1, Sizes, SeqMonotonic
  <2>3. ASSUME NEW i \in 1 .. w PROVE b[2 + i] = p[i]
    <3>1. 2 + i \in 1 .. 2 + w
      BY <1>4
    <3> QED BY <1>12, <1>16, <3>1
  <2> HIDE DEF p
  <2>4. Within(b, 2, 2 + w) /\ (2 + w) - 2 = w
    BY <1>4, <1>15 DEF Within
  <2> QED BY <2>1, <2>2, <2>3, <2>4, PartIs DEF p
<1>19. Part(b, 2 + w, (2 + w) + k) = f.key
  <2>1. Within(b, 2 + w, (2 + w) + k) /\ ((2 + w) + k) - (2 + w) = k
    BY <1>4, <1>15 DEF Within
  <2>2. ASSUME NEW i \in 1 .. k PROVE b[(2 + w) + i] = f.key[i]
    <3>1. (2 + w) + i \in 1 .. (2 + w) + k
      BY <1>4
    <3> QED BY <1>13, <1>14, <3>1
  <2>3. f.key \in Seq(Nat) /\ Len(f.key) = k
    BY <1>4 DEF k
  <2> QED BY <2>1, <2>2, <2>3, PartIs
<1>20. Part(b, (2 + w) + k, Len(b)) = m
  <2>1. /\ Within(b, (2 + w) + k, Len(b))
        /\ Len(b) - ((2 + w) + k) = Size(f)
    BY <1>4, <1>15 DEF Within
  <2> DEFINE i == (2 + w) + k
             j == Len(b)
  <2>2. /\ Within(b, i, j) /\ m \in Seq(Nat) /\ Len(m) = j - i
        /\ \A v \in 1 .. j - i : m[v] = b[i + v]
    BY <1>5, <1>14, <2>1
  <2> HIDE DEF i, j
  <2>3. Part(b, i, j) = m
    BY <2>2, PartIs
  <2> QED BY <2>3 DEF i, j
<1>21. (2 + w) + k = 2 + w + k
  BY <1>4
<1>22. FrameForm(b, f)
  BY <1>14, <1>17, <1>18, <1>19, <1>20, <1>21 DEF FrameForm, w, k, m
<1> QED BY <1>1, <1>4, <1>22 DEF w

\* What the proof needs of a frame that is read in order.
SpokenForm(b, f) ==
  LET w == Wide(f)
      n == Size(f)
  IN /\ w \in Nat /\ n \in Nat \ {0} /\ Len1(f) \in 0 .. Half - 1
     /\ b \in Seq(Nat) /\ Len(b) = 6 + w + n
     /\ b[1] \in Nat /\ b[1] # W!CLOSE /\ b[2] = Half + Len1(f)
     /\ \/ w = 0 /\ Len1(f) = n /\ n < Half - 2
        \/ w = Width2 /\ Len1(f) = Half - 2
        \/ w = Width8 /\ Len1(f) = Half - 1
     /\ w # 0 => W!Unpack(Part(b, 2, 2 + w)) = n
     /\ Part(b, 2 + w, 6 + w) = f.key /\ f.key # <<>> /\ f.key \in Seq(Nat)
     /\ Len(f.key) = 4 /\ W!Codes(f.key) = f.key
     /\ Part(b, 6 + w, Len(b)) = W!Masked(f.key, f.data)
     /\ f.data \in Seq(Nat) /\ Len(f.data) = n

LEMMA SpokenBytes ==
  ASSUME W!WSFrameAssumption, NEW f \in Spoken
  PROVE  SpokenForm(W!BytesOf(f), f)
<1> DEFINE b == W!BytesOf(f)
           w == Wide(f)
           n == Size(f)
           key == f.key
<1>1. /\ f \in Frames /\ f.opcode # W!CLOSE /\ key # <<>> /\ key[1] # 0
      /\ f.data # <<>>
  BY DEF Spoken
<1>2. /\ f.opcode \in Nat /\ f.data \in Seq(Nat) /\ key \in Seq(Nat)
      /\ Len(key) = 4 /\ n \in Nat /\ n < W!BytePow[Width8]
  BY <1>1, FrameParts
<1>3. FrameForm(b, f) /\ w \in Nat
  BY <1>1, BytesForm
<1>4. n # 0 /\ Len(f.data) = n
  BY <1>1, <1>2, EmptySeq DEF Size
<1>5. Half \in {8, 16, 32, 64, 128} /\ Width2 \in Nat \ {0} /\ Width8 \in Nat \ {0}
  BY Sizes
<1>6. /\ Len1(f) \in 0 .. Half - 1
      /\ \/ w = 0 /\ Len1(f) = n /\ n < Half - 2
         \/ w = Width2 /\ Len1(f) = Half - 2 /\ n < W!BytePow[Width2]
         \/ w = Width8 /\ Len1(f) = Half - 1
  BY <1>2, <1>5 DEF Len1, Wide
<1>7. w # 0 => n < W!BytePow[w]
  BY <1>2, <1>5, <1>6
<1>8. W!Codes(key) = key
  <2> DEFINE some == {i \in DOMAIN key : key[i] # 0}
  <2> HIDE DEF key
  <2>1. DOMAIN key = 1 .. 4
    BY <1>2, LenProperties
  <2>2. 1 \in some /\ \A j \in some : 1 <= j
    BY <1>1, <2>1
  <2>3. some \subseteq Nat
    BY <2>1
  <2> HIDE DEF some
  <2>4. (CHOOSE i \in some : \A j \in some : i <= j) = 1
    <3> DEFINE c == CHOOSE i \in some : \A j \in some : i <= j
    <3>1. c \in some /\ \A j \in some : c <= j
      BY <2>2
    <3> HIDE DEF c
    <3>2. c = 1
      BY <2>2, <2>3, <3>1
    <3> QED BY <3>2 DEF c
  <2>5. W!Codes(key) = SubSeq(key, 1, Len(key))
    BY <2>2, <2>4 DEF W!Codes, some
  <2> QED BY <1>2, <2>5, SubSeqFull
<1>9. Mark(f) = Half
  BY <1>1 DEF Mark
<1> HIDE DEF b, w, n, key
<1>10. /\ b \in Seq(Nat) /\ Len(b) = 6 + w + n
       /\ b[1] = f.opcode /\ b[2] = Half + Len1(f)
       /\ Part(b, 2, 2 + w) = W!Pack(n, w)
       /\ Part(b, 2 + w, 6 + w) = key
       /\ Part(b, 6 + w, Len(b)) = W!Masked(key, f.data)
  <2>1. 2 + w + Len(key) = 6 + w
    BY <1>2, <1>3
  <2> QED BY <1>3, <1>9, <2>1 DEF FrameForm, w, n, key
<1>11. w # 0 => W!Unpack(Part(b, 2, 2 + w)) = n
  BY <1>2, <1>3, <1>7, <1>10, PackReads
<1> QED BY <1>1, <1>2, <1>3, <1>4, <1>6, <1>8, <1>10, <1>11
        DEF SpokenForm, b, w, n, key

-----------------------------------------------------------------------------
(* on_read *)

\* on_read does not wait, and goes on with itself.
Waits(f) == f.reading_head /\ Len(f.buf) < f.remain_len

Goes(f) ==
  /\ ~Waits(f)
  /\ \/ ~f.header /\ f.buf[1] # W!CLOSE
     \/ f.header /\ f.data_len = W!None
     \/ /\ f.header /\ f.data_len # W!None
        /\ f.mask /\ f.mask_codes = <<>> /\ Len(f.buf) >= 4

\* What it goes on with.
Further(f) == IF ~f.header THEN W!ReadHeader(f)
              ELSE IF f.data_len = W!None THEN W!ReadLength(f)
              ELSE W!ReadMask(f)

\* Cutting bytes off leaves bytes, and fewer when any are left.
LEMMA CutType ==
  ASSUME NEW s \in Seq(Nat), NEW n \in Nat \ {0}
  PROVE  /\ W!First(n, s) \in Seq(Nat) /\ W!Without(n, s) \in Seq(Nat)
         /\ W!Without(n, s) = <<>> \/ Len(W!Without(n, s)) < Len(s)
<1> DEFINE l == Len(s)
           m == IF n < l THEN n ELSE l
           c == n + 1
<1>1. l \in Nat /\ m \in Nat /\ m <= l /\ c \in Nat /\ 1 <= c
  BY LenProperties
<1>2. \A k \in 1 .. l : s[k] \in Nat
  BY ElementOfSeq
<1> HIDE DEF l, m, c
<1>3. SubSeq(s, 1, m) \in Seq(Nat)
  BY <1>1, <1>2, SubSeqProperties
<1>4. CASE c <= l
  <2>1. SubSeq(s, c, l) \in Seq(Nat) /\ Len(SubSeq(s, c, l)) = (l - c) + 1
    BY <1>1, <1>2, <1>4, SubSeqProperties
  <2>2. (l - c) + 1 < l
    BY <1>1 DEF c
  <2> QED BY <1>3, <2>1, <2>2 DEF W!First, W!Without, l, m, c
<1>5. CASE ~(c <= l)
  <2>1. SubSeq(s, c, l) = <<>>
    BY <1>1, <1>5, SubSeqEmpty
  <2> QED BY <1>3, <2>1, EmptySeq DEF W!First, W!Without, l, m, c
<1> QED BY <1>4, <1>5

LEMMA CodesType ==
  ASSUME NEW s \in Seq(Nat)
  PROVE  W!Codes(s) \in Seq(Nat)
<1> DEFINE some == {i \in DOMAIN s : s[i] # 0}
           i == CHOOSE i \in some : \A j \in some : i <= j
<1>1. CASE some = {}
  BY <1>1, EmptySeq DEF W!Codes
<1>2. CASE some # {}
  <2>1. some \subseteq Nat
    BY LenProperties
  <2>2. \E c \in some : \A j \in some : c <= j
    <3> HIDE DEF some
    <3> QED BY <1>2, <2>1, Least
  <2>3. i \in 1 .. Len(s)
    <3>1. i \in some
      <4> HIDE DEF some
      <4> QED BY <2>2
    <3> HIDE DEF i
    <3> QED BY <3>1, LenProperties
  <2>4. W!Codes(s) = SubSeq(s, i, Len(s))
    BY <1>2 DEF W!Codes
  <2> HIDE DEF i
  <2>5. SubSeq(s, i, Len(s)) \in Seq(Nat)
    <3>1. Len(s) \in Nat /\ i \in Nat /\ \A k \in 1 .. Len(s) : s[k] \in Nat
      BY <2>3, LenProperties, ElementOfSeq
    <3>2. \A k \in i .. Len(s) : s[k] \in Nat
      BY <2>3, <3>1
    <3> QED BY <3>1, <3>2, SubSeqProperties
  <2> QED BY <2>4, <2>5
<1> QED BY <1>1, <1>2

LEMMA ReceivedType ==
  ASSUME NEW x \in W!Reading \X Seq(Nat)
  PROVE  /\ W!Received(x[1], x[2]) \in W!Reading
         /\ Len(W!Received(x[1], x[2]).buf) <= Len(x[1].buf) + Len(x[2])
<1> DEFINE f == x[1]
           s == x[2]
           t == f.buf \o s
<1>1. f \in W!Reading /\ s \in Seq(Nat) /\ f.buf \in Seq(Nat)
  BY DEF W!Reading
<1>2. /\ t \in Seq(Nat) /\ Len(t) = Len(f.buf) + Len(s)
      /\ Len(f.buf) \in Nat /\ Len(s) \in Nat
  BY <1>1, ConcatProperties, LenProperties
<1> HIDE DEF t, f, s
<1>3. W!Received(f, s) = IF f.reading_head THEN [f EXCEPT !.buf = t] ELSE f
  BY DEF W!Received, t
<1>4. [f EXCEPT !.buf = t] \in W!Reading /\ [f EXCEPT !.buf = t].buf = t
  BY <1>1, <1>2 DEF W!Reading
<1> QED BY <1>1, <1>2, <1>3, <1>4 DEF f, s

LEMMA FurtherType ==
  ASSUME W!WSFrameAssumption, NEW f \in W!Reading, Goes(f)
  PROVE  /\ Further(f) \in W!Reading
         /\ Further(f).buf = <<>> \/ Len(Further(f).buf) < Len(f.buf)
<1>1. /\ f.buf \in Seq(Nat) /\ f.len1 \in Nat /\ f.remain_len \in Int
      /\ Len(f.buf) \in Nat
  BY LenProperties DEF W!Reading
<1>2. Half \in Nat \ {0} /\ Width2 \in Nat \ {0} /\ Width8 \in Nat \ {0}
  BY Sizes
<1>3. CASE ~f.header
  <2> DEFINE t    == W!Without(2, f.buf)
             mask == f.buf[2] >= Half
             len1 == f.buf[2] % Half
             e    == W!Expected(len1, mask)
             l    == IF len1 < Half - 2 THEN len1 ELSE W!None
  <2>1. Len(f.buf) >= 2
    BY <1>1, <1>3 DEF Goes, Waits, W!Reading
  <2>2. f.buf[2] \in Nat
    BY <1>1, <2>1, ElementOfSeq
  <2>3. mask \in BOOLEAN /\ len1 \in Nat
    BY <1>2, <2>2
  <2> HIDE DEF mask, len1
  <2>4. e \in Int /\ l \in Nat \cup {W!None}
    BY <1>2, <2>3 DEF W!Expected
  <2>5. t \in Seq(Nat) /\ (t = <<>> \/ Len(t) < Len(f.buf))
    BY <1>1, CutType
  <2>6. Further(f) = [f EXCEPT !.header = TRUE, !.mask = mask, !.len1 = len1,
                              !.buf = t, !.remain_len = e, !.data_len = l]
    BY <1>3 DEF Further, W!ReadHeader, mask, len1
  <2> HIDE DEF t, e, l
  <2>7. Further(f) \in W!Reading /\ Further(f).buf = t
    BY <2>3, <2>4, <2>5, <2>6 DEF W!Reading
  <2> QED BY <2>5, <2>7
<1>4. CASE f.header /\ f.data_len = W!None
  <2> DEFINE width == IF f.len1 = Half - 2 THEN Width2 ELSE Width8
             first == W!First(width, f.buf)
             t     == W!Without(width, f.buf)
             n     == W!Unpack(first)
             e     == f.remain_len + n - width
             r     == f.reading_head /\ f.mask
  <2>1. width \in Nat \ {0}
    BY <1>2
  <2> HIDE DEF width
  <2>2. /\ first \in Seq(Nat) /\ t \in Seq(Nat)
        /\ t = <<>> \/ Len(t) < Len(f.buf)
    BY <1>1, <2>1, CutType
  <2> HIDE DEF first, t
  <2>3. n \in Nat
    <3>1. PICK v : NumbersOf(v, first) /\ n = v[Len(first)]
      BY <2>2, UnpackDef
    <3>2. Len(first) \in 0 .. Len(first)
      BY <2>2, LenProperties
    <3> QED BY <3>1, <3>2 DEF NumbersOf
  <2>4. Further(f) = [f EXCEPT !.buf = t, !.data_len = n, !.remain_len = e,
                              !.reading_head = r]
    BY <1>4 DEF Further, W!ReadLength, t, first, width
  <2> HIDE DEF n
  <2>5. e \in Int /\ r \in BOOLEAN
    BY <1>1, <2>1, <2>3 DEF W!Reading
  <2> HIDE DEF e, r
  <2>6. Further(f) \in W!Reading /\ Further(f).buf = t
    BY <1>4, <2>2, <2>3, <2>4, <2>5 DEF W!Reading
  <2> QED BY <2>2, <2>6
<1>5. CASE f.header /\ f.data_len # W!None
  <2> DEFINE first == W!First(4, f.buf)
             c     == W!Codes(first)
             t     == W!Without(4, f.buf)
             e     == f.remain_len - 4
  <2>1. /\ first \in Seq(Nat) /\ t \in Seq(Nat)
        /\ t = <<>> \/ Len(t) < Len(f.buf)
    <3> DEFINE four == 4
    <3>1. four \in Nat \ {0}
      OBVIOUS
    <3> HIDE DEF four
    <3>2. /\ W!First(four, f.buf) \in Seq(Nat) /\ W!Without(four, f.buf) \in Seq(Nat)
          /\ \/ W!Without(four, f.buf) = <<>>
             \/ Len(W!Without(four, f.buf)) < Len(f.buf)
      BY <1>1, <3>1, CutType
    <3> QED BY <3>2 DEF four
  <2> HIDE DEF first, t
  <2>2. c \in Seq(Nat)
    BY <2>1, CodesType
  <2>3. Further(f) = [f EXCEPT !.reading_head = FALSE, !.mask_codes = c,
                              !.buf = t, !.remain_len = e]
    BY <1>5 DEF Further, W!ReadMask, t, first
  <2>4. e \in Int
    BY <1>1
  <2> HIDE DEF c, e
  <2>5. Further(f) \in W!Reading /\ Further(f).buf = t
    BY <1>5, <2>1, <2>2, <2>3, <2>4 DEF W!Reading
  <2> QED BY <2>1, <2>5
<1> QED BY <1>3, <1>4, <1>5

Heard(x) == W!Received(x[1], x[2])

\* on_read goes on with the bytes it has, or ends.
Onward(x) == Goes(Heard(x)) /\ Further(Heard(x)).buf # <<>>

Rest(x) ==
  LET f == Heard(x)
  IN IF Waits(f) THEN W!Ends(f)
     ELSE IF Goes(f) THEN W!Ends(Further(f))
     ELSE IF ~f.header THEN W!Closes(W!ReadHeader(f))
     ELSE IF f.mask /\ f.mask_codes = <<>> THEN W!Raises(f)
     ELSE W!ReadData(f, f.buf \o x[2])

LEMMA OnReadDef ==
  ASSUME W!WSFrameAssumption, NEW z \in W!Reading \X Seq(Nat)
  PROVE  W!on_read[z] = IF Onward(z) THEN W!on_read[<<Further(Heard(z)), <<>>>>]
                        ELSE Rest(z)
<1> DEFINE X == W!Reading \X Seq(Nat)
           S == {Rest(x) : x \in X}
           h == [x \in X |-> IF Onward(x) THEN <<Further(Heard(x)), <<>>>> ELSE x]
           rank == [x \in X |-> Len(x[1].buf) + Len(x[2])]
           G == [y \in X \X S |-> IF Onward(y[1]) THEN y[2] ELSE Rest(y[1])]
           Body(o, x) ==
             LET f        == W!Received(x[1], x[2])
                 Again(g) == IF g.buf = <<>> THEN W!Ends(g) ELSE o[<<g, <<>>>>]
             IN IF f.reading_head /\ Len(f.buf) < f.remain_len THEN W!Ends(f)
                ELSE IF ~f.header
                THEN IF f.buf[1] = W!CLOSE THEN W!Closes(W!ReadHeader(f))
                     ELSE Again(W!ReadHeader(f))
                ELSE IF f.data_len = W!None THEN Again(W!ReadLength(f))
                ELSE IF f.mask /\ f.mask_codes = <<>>
                THEN IF Len(f.buf) < 4 THEN W!Raises(f)
                     ELSE Again(W!ReadMask(f))
                ELSE W!ReadData(f, f.buf \o x[2])
           Value(o) == [x \in X |-> Body(o, x)]
           v == CHOOSE o : o = Value(o)
<1>1. W!on_read = v
  BY DEF W!on_read
<1>2. ASSUME NEW x \in X
      PROVE  Heard(x) \in W!Reading /\ Len(Heard(x).buf) \in Nat
  BY ReceivedType, LenProperties DEF Heard, W!Reading
<1>3. ASSUME NEW x \in X, NEW o
      PROVE  Body(o, x) = IF Onward(x) THEN o[<<Further(Heard(x)), <<>>>>]
                          ELSE Rest(x)
  <2> DEFINE f == W!Received(x[1], x[2])
  <2>1. f = Heard(x) /\ Len(f.buf) \in Nat
    BY <1>2 DEF Heard
  <2> HIDE DEF f
  <2>2. Body(o, x) =
          IF Waits(f) THEN W!Ends(f)
          ELSE IF Goes(f)
          THEN IF Further(f).buf = <<>> THEN W!Ends(Further(f))
               ELSE o[<<Further(f), <<>>>>]
          ELSE IF ~f.header THEN W!Closes(W!ReadHeader(f))
          ELSE IF f.mask /\ f.mask_codes = <<>> THEN W!Raises(f)
          ELSE W!ReadData(f, f.buf \o x[2])
    <3>1. CASE Waits(f)
      BY <3>1 DEF Waits, Body, f
    <3>2. CASE ~Waits(f) /\ ~f.header
      BY <3>2 DEF Waits, Goes, Further, Body, f
    <3>3. CASE ~Waits(f) /\ f.header /\ f.data_len = W!None
      BY <3>3 DEF Waits, Goes, Further, Body, f
    <3>4. CASE /\ ~Waits(f) /\ f.header /\ f.data_len # W!None
               /\ f.mask /\ f.mask_codes = <<>>
      <4>1. Len(f.buf) < 4 <=> ~(Len(f.buf) >= 4)
        BY <2>1
      <4> QED BY <3>4, <4>1 DEF Waits, Goes, Further, Body, f
    <3>5. CASE /\ ~Waits(f) /\ f.header /\ f.data_len # W!None
               /\ ~(f.mask /\ f.mask_codes = <<>>)
      BY <3>5 DEF Waits, Goes, Further, Body, f
    <3> QED BY <3>1, <3>2, <3>3, <3>4, <3>5
  <2> HIDE DEF Body
  <2> QED BY <2>1, <2>2 DEF Onward, Rest, Goes
<1>4. ASSUME NEW x \in X, Onward(x)
      PROVE  /\ <<Further(Heard(x)), <<>>>> \in X
             /\ Len(Further(Heard(x)).buf) + 0 < Len(x[1].buf) + Len(x[2])
  <2> DEFINE f == Heard(x)
             g == Further(f)
  <2>1. f \in W!Reading /\ Goes(f)
    BY <1>2, <1>4 DEF Onward
  <2>2. g \in W!Reading /\ Len(g.buf) < Len(f.buf)
    BY <1>4, <2>1, FurtherType DEF Onward
  <2>3. Len(f.buf) <= Len(x[1].buf) + Len(x[2])
    BY ReceivedType DEF Heard
  <2>4. /\ Len(g.buf) \in Nat /\ Len(f.buf) \in Nat
        /\ Len(x[1].buf) \in Nat /\ Len(x[2]) \in Nat
    BY <2>1, <2>2, LenProperties DEF W!Reading
  <2>5. <<>> \in Seq(Nat)
    BY EmptySeq
  <2> HIDE DEF g, f
  <2>6. <<g, <<>>>> \in X
    BY <2>2, <2>5
  <2>7. Len(g.buf) + 0 < Len(x[1].buf) + Len(x[2])
    BY <2>2, <2>3, <2>4 DEF f
  <2> QED BY <2>6, <2>7 DEF g, f
<1> HIDE DEF Body
<1>5. WellFounded(X, S, rank, h, G)
  <2>1. S # {}
    OBVIOUS
  <2>2. rank \in [X -> Nat]
    <3>1. \A x \in X : Len(x[1].buf) \in Nat /\ Len(x[2]) \in Nat
      BY LenProperties DEF W!Reading
    <3>2. \A x \in X : Len(x[1].buf) + Len(x[2]) \in Nat
      BY <3>1
    <3> HIDE DEF X
    <3> QED BY <3>2
  <2>3. h \in [X -> X]
    <3> HIDE DEF X
    <3> QED BY <1>4
  <2>4. G \in [X \X S -> S]
    <3>1. \A x \in X : Rest(x) \in S
      OBVIOUS
    <3> HIDE DEF X, S
    <3> QED BY <3>1
  <2>5. ASSUME NEW x \in X
        PROVE  \/ rank[h[x]] < rank[x]
               \/ \A u, w \in S : G[<<x, u>>] = G[<<x, w>>]
    <3>1. CASE Onward(x)
      <4> DEFINE g == Further(Heard(x))
      <4>1. h[x] = <<g, <<>>>> /\ <<g, <<>>>> \in X
        BY <1>4, <3>1
      <4>2. Len(g.buf) + 0 < Len(x[1].buf) + Len(x[2])
        BY <1>4, <3>1
      <4> HIDE DEF g, h
      <4>3. /\ rank[h[x]] = Len(g.buf) + Len(<<>>)
            /\ rank[x] = Len(x[1].buf) + Len(x[2])
        <5>1. <<g, <<>>>>[1] = g /\ <<g, <<>>>>[2] = <<>>
          OBVIOUS
        <5> HIDE DEF X
        <5> QED BY <4>1, <5>1
      <4>4. Len(<<>>) = 0
        BY EmptySeq
      <4> HIDE DEF rank
      <4> QED BY <4>2, <4>3, <4>4
    <3>2. CASE ~Onward(x)
      <4>1. \A u \in S : G[<<x, u>>] = Rest(x)
        <5> HIDE DEF X, S
        <5> QED BY <3>2
      <4> HIDE DEF G
      <4> QED BY <4>1
    <3> QED BY <3>1, <3>2
  <2> HIDE DEF X, S, rank, h, G
  <2> QED BY <2>1, <2>2, <2>3, <2>4, <2>5 DEF WellFounded
<1>6. \E o \in [X -> S] : \A x \in X : o[x] = G[<<x, o[h[x]]>>]
  <2> HIDE DEF X, S, rank, h, G
  <2> QED BY <1>5, Recursion
<1>7. PICK o \in [X -> S] : \A x \in X : o[x] = G[<<x, o[h[x]]>>]
  BY <1>6
<1>8. o = Value(o)
  <2>1. ASSUME NEW x \in X PROVE o[x] = Body(o, x)
    <3>1. h[x] \in X /\ h[x] = IF Onward(x) THEN <<Further(Heard(x)), <<>>>> ELSE x
      <4> HIDE DEF X
      <4> QED BY <1>4
    <3>2. o[x] = G[<<x, o[h[x]]>>] /\ o[h[x]] \in S
      <4> HIDE DEF X, S, h, G
      <4> QED BY <1>7, <3>1
    <3>3. o[x] = IF Onward(x) THEN o[h[x]] ELSE Rest(x)
      <4> HIDE DEF X, S, h
      <4> QED BY <3>2
    <3> HIDE DEF X, S, h, G
    <3> QED BY <1>3, <3>1, <3>3
  <2> HIDE DEF X, S, G, h
  <2> QED BY <1>7, <2>1
<1>9. v = Value(v)
  <2> HIDE DEF Value
  <2> QED BY <1>8
<1>10. v[z] = Body(v, z)
  <2> HIDE DEF v
  <2> QED BY <1>9
<1> HIDE DEF v
<1> QED BY <1>1, <1>3, <1>10

LEMMA NotEmpty ==
  ASSUME NEW s, Len(s) # 0
  PROVE  s # <<>>
<1>1. Len(<<>>) = 0
  OBVIOUS
<1> QED BY <1>1

LEMMA MaskedTwice ==
  ASSUME NEW k \in Seq(Nat), Len(k) = 4, NEW d \in Seq(Nat)
  PROVE  W!Masked(k, W!Masked(k, d)) = d
<1> DEFINE m == W!Masked(k, d)
           e == W!Masked(k, m)
<1>0. k # <<>>
  <2>1. Len(k) # 0
    OBVIOUS
  <2> QED BY <2>1, NotEmpty, Zenon
<1>1. /\ m \in Seq(Nat) /\ Len(m) = Len(d)
      /\ \A i \in 1 .. Len(d) : m[i] = W!Xor[<<d[i], k[1 + ((i - 1) % 4)]>>]
  BY <1>0, MaskedType
<1> HIDE DEF m
<1>2. /\ e \in Seq(Nat) /\ Len(e) = Len(m)
      /\ \A i \in 1 .. Len(m) : e[i] = W!Xor[<<m[i], k[1 + ((i - 1) % 4)]>>]
  BY <1>0, <1>1, MaskedType
<1> HIDE DEF e
<1>3. ASSUME NEW i \in 1 .. Len(d) PROVE e[i] = d[i]
  <2> DEFINE c == 1 + ((i - 1) % 4)
  <2>1. c \in 1 .. 4
    BY LenProperties
  <2> HIDE DEF c
  <2>2. k[c] \in Nat /\ d[i] \in Nat
    BY <2>1, ElementOfSeq
  <2>3. e[i] = W!Xor[<<W!Xor[<<d[i], k[c]>>], k[c]>>]
    BY <1>1, <1>2 DEF c
  <2> QED BY <2>2, <2>3, XorTwice
<1> QED BY <1>1, <1>2, <1>3, SeqEqual DEF e, m

\* A frame's header has been read, what came of it begins behind the first i
\* bytes of b, and r bytes are awaited.
After(f, b, i, l, r, p) ==
  [header |-> TRUE, mask |-> TRUE, len1 |-> Len1(f), mask_codes |-> <<>>,
   buf |-> Part(b, i, p), remain_len |-> r, data_len |-> l, payload |-> <<>>,
   reading_head |-> TRUE]

Before(b, p) ==
  [header |-> FALSE, mask |-> FALSE, len1 |-> 0, mask_codes |-> <<>>,
   buf |-> Part(b, 0, p), remain_len |-> 2, data_len |-> W!None,
   payload |-> <<>>, reading_head |-> TRUE]

LEMMA HeardAfter ==
  ASSUME NEW f, NEW b, NEW i, NEW l, NEW r, NEW p, NEW q,
         Within(b, i, p), Within(b, p, q),
         Len1(f) \in Nat, l \in Nat \cup {W!None}, r \in Int
  PROVE  LET x == <<After(f, b, i, l, r, p), Part(b, p, q)>>
         IN /\ x \in W!Reading \X Seq(Nat)
            /\ Heard(x) = After(f, b, i, l, r, q)
            /\ Len(After(f, b, i, l, r, q).buf) = q - i
            /\ Within(b, i, q)
<1> DEFINE s == Part(b, i, p)
           t == Part(b, p, q)
           u == Part(b, i, q)
           len1 == Len1(f)
<1>1. Within(b, i, q)
  BY DEF Within
<1>2. s \in Seq(Nat) /\ t \in Seq(Nat) /\ u \in Seq(Nat) /\ Len(u) = q - i
  BY <1>1, PartForm
<1>3. s \o t = u
  BY PartJoin
<1> HIDE DEF s, t, u, len1
<1>4. After(f, b, i, l, r, p) \in W!Reading
  BY <1>2 DEF After, W!Reading, s, len1
<1>5. /\ W!Received(After(f, b, i, l, r, p), t) = After(f, b, i, l, r, q)
      /\ After(f, b, i, l, r, q).buf = u
  BY <1>3 DEF After, W!Received, s, u
<1> QED BY <1>1, <1>2, <1>4, <1>5 DEF Heard, t

LEMMA HeardBefore ==
  ASSUME NEW b, NEW p, NEW q, Within(b, 0, p), Within(b, p, q)
  PROVE  LET x == <<Before(b, p), Part(b, p, q)>>
         IN /\ x \in W!Reading \X Seq(Nat)
            /\ Heard(x) = Before(b, q)
            /\ Len(Before(b, q).buf) = q
            /\ Within(b, 0, q)
<1> DEFINE s == Part(b, 0, p)
           t == Part(b, p, q)
           u == Part(b, 0, q)
<1>1. Within(b, 0, q) /\ q - 0 = q
  BY DEF Within
<1>2. s \in Seq(Nat) /\ t \in Seq(Nat) /\ u \in Seq(Nat) /\ Len(u) = q
  BY <1>1, PartForm
<1>3. s \o t = u
  BY PartJoin
<1> HIDE DEF s, t, u
<1>4. Before(b, p) \in W!Reading
  BY <1>2 DEF Before, W!Reading, s
<1>5. /\ W!Received(Before(b, p), t) = Before(b, q)
      /\ Before(b, q).buf = u
  BY <1>3 DEF Before, W!Received, s, u
<1> QED BY <1>1, <1>2, <1>4, <1>5 DEF Heard, t

\* With nothing more the same is heard again.
LEMMA NothingMore ==
  ASSUME NEW b, NEW q, Within(b, 0, q)
  PROVE  Part(b, q, q) = <<>> /\ Within(b, q, q)
<1>1. Within(b, q, q)
  BY DEF Within
<1> QED BY <1>1, PartForm

\* The read gives the data of f, as it was before it was masked.
Whole(o, f) == o.event = "frame" /\ o.data = f.data

\* Key and length are known and all of the data is there.
LEMMA ReadsData ==
  ASSUME W!WSFrameAssumption, NEW f, NEW b, SpokenForm(b, f),
         NEW g, g = W!ReadMask(After(f, b, 2 + Wide(f), Size(f), Size(f) + 4, Len(b)))
  PROVE  Whole(W!on_read[<<g, <<>>>>], f) /\ g.buf # <<>>
<1> DEFINE w == Wide(f)
           n == Size(f)
           l == Len(b)
           m == Part(b, 6 + w, l)
           key == f.key
           d == f.data
           len1 == Len1(f)
           a == After(f, b, 2 + w, n, n + 4, l)
<1>1. /\ w \in Nat /\ n \in Nat /\ n # 0 /\ len1 \in Nat
      /\ b \in Seq(Nat) /\ l = 6 + w + n /\ l \in Nat
      /\ Part(b, 2 + w, 6 + w) = key /\ key # <<>> /\ key \in Seq(Nat)
      /\ Len(key) = 4 /\ W!Codes(key) = key
      /\ m = W!Masked(key, d) /\ d \in Seq(Nat) /\ Len(d) = n
  BY DEF SpokenForm
<1> HIDE DEF m, key, d, w, l, n, len1
<1>2. /\ Within(b, 2 + w, l) /\ 4 \in Nat /\ 4 <= l - (2 + w)
      /\ (2 + w) + 4 = 6 + w
  <2>1. l <= Len(b)
    BY <1>1 DEF l
  <2> QED BY <1>1, <2>1 DEF Within
<1>3. /\ W!Without(4, Part(b, 2 + w, l)) = m
      /\ W!First(4, Part(b, 2 + w, l)) = key
  <2> DEFINE c == 4
             i == 2 + w
  <2>1. Within(b, i, l) /\ c \in Nat /\ c <= l - i /\ i + c = 6 + w
    BY <1>2
  <2> HIDE DEF c, i
  <2>2. /\ W!Without(c, Part(b, i, l)) = Part(b, i + c, l)
        /\ W!First(c, Part(b, i, l)) = Part(b, i, i + c)
    BY <2>1, PartCut
  <2>3. W!Without(c, Part(b, i, l)) = m /\ W!First(c, Part(b, i, l)) = key
    BY <1>1, <2>1, <2>2 DEF i, m
  <2> QED BY <2>3 DEF c, i
<1>4. m \in Seq(Nat) /\ Len(m) = n
  BY <1>1, MaskedType
<1>5. m # <<>>
  BY <1>1, <1>4, NotEmpty
<1>6. W!Masked(key, m) = d
  BY <1>1, MaskedTwice
<1>7. key \in Seq(Nat) /\ key # <<>>
  BY <1>1
<1>8. g = [header |-> TRUE, mask |-> TRUE, len1 |-> len1, mask_codes |-> key,
           buf |-> m, remain_len |-> (n + 4) - 4, data_len |-> n,
           payload |-> <<>>, reading_head |-> FALSE]
  <2>1. a.buf = Part(b, 2 + w, l)
    BY DEF After
  <2>2. g = W!ReadMask(a)
    BY DEF w, n, l
  <2>3. W!ReadMask(a) = [a EXCEPT !.reading_head = FALSE, !.mask_codes = key,
                                  !.buf = m, !.remain_len = @ - 4]
    BY <1>1, <1>3, <2>1 DEF W!ReadMask
  <2>4. a = [header |-> TRUE, mask |-> TRUE, len1 |-> len1, mask_codes |-> <<>>,
             buf |-> Part(b, 2 + w, l), remain_len |-> n + 4, data_len |-> n,
             payload |-> <<>>, reading_head |-> TRUE]
    BY DEF After, len1
  <2> HIDE DEF a
  <2> QED BY <2>2, <2>3, <2>4
<1>9. (n + 4) - 4 = n
  BY <1>1
<1>10. g \in W!Reading
  <2>1. n \in Nat /\ len1 \in Nat /\ (n + 4) - 4 \in Int
    BY <1>1
  <2>2. <<>> \in Seq(Nat) /\ m \in Seq(Nat)
    BY <1>4, EmptySeq
  <2>3. [header |-> TRUE, mask |-> TRUE, len1 |-> len1, mask_codes |-> key,
         buf |-> m, remain_len |-> (n + 4) - 4, data_len |-> n,
         payload |-> <<>>, reading_head |-> FALSE] \in W!Reading
    BY <1>7, <2>1, <2>2 DEF W!Reading
  <2> QED BY <1>8, <2>3
<1> DEFINE z == <<g, <<>>>>
<1>11. z \in W!Reading \X Seq(Nat) /\ Heard(z) = g /\ z[2] = <<>>
  <2>1. ~g.reading_head
    BY <1>8
  <2>2. <<>> \in Seq(Nat)
    BY EmptySeq
  <2> QED BY <1>10, <2>1, <2>2 DEF Heard, W!Received
<1> HIDE DEF z
<1>12. ~Waits(g) /\ ~Goes(g)
  <2>1. n # W!None
    BY <1>1 DEF W!None
  <2> QED BY <1>7, <1>8, <2>1 DEF Waits, Goes
<1>13. W!on_read[z] = W!ReadData(g, g.buf \o <<>>)
  <2>1. W!on_read[z] = Rest(z)
    BY <1>11, <1>12, OnReadDef DEF Onward
  <2>2. g.header /\ g.mask_codes # <<>>
    BY <1>7, <1>8
  <2> QED BY <1>11, <1>12, <2>1, <2>2 DEF Rest
<1>14. g.buf \o <<>> = m /\ <<>> \o m = m
  BY <1>4, <1>8, ConcatEmptySeq
<1>15. Whole(W!ReadData(g, m), f)
  <2> DEFINE e == [g EXCEPT !.payload = @ \o m, !.remain_len = @ - Len(m)]
  <2>1. e.payload = m /\ e.remain_len = 0 /\ e.mask_codes = key
    <3>1. /\ e.payload = g.payload \o m /\ e.mask_codes = g.mask_codes
          /\ e.remain_len = g.remain_len - Len(m)
      BY <1>10 DEF W!Reading
    <3>2. /\ g.payload = <<>> /\ g.mask_codes = key
          /\ g.remain_len = (n + 4) - 4
      BY <1>8
    <3>3. ((n + 4) - 4) - Len(m) = 0
      BY <1>1, <1>4
    <3> HIDE DEF e
    <3> QED BY <1>14, <3>1, <3>2, <3>3
  <2>2. \A i \in 1 .. n : ~(1 + ((i - 1) % 4) > 4)
    BY <1>1
  <2>3. e.remain_len = 0 /\ e.mask_codes # <<>>
    BY <1>7, <2>1
  <2>4. ~\E i \in 1 .. Len(e.payload) : 1 + ((i - 1) % 4) > Len(e.mask_codes)
    <3>1. Len(e.payload) = n /\ Len(e.mask_codes) = 4
      BY <1>1, <1>4, <2>1
    <3> HIDE DEF e
    <3> QED BY <2>2, <3>1
  <2>5. W!ReadData(g, m) = W!Completes(e, W!Masked(e.mask_codes, e.payload))
    <3> HIDE DEF e
    <3> QED BY <2>3, <2>4 DEF W!ReadData, e
  <2>6. W!Masked(e.mask_codes, e.payload) = d
    <3> HIDE DEF e
    <3> QED BY <1>6, <2>1
  <2> HIDE DEF e
  <2> QED BY <2>5, <2>6 DEF Whole, W!Completes, d
<1> QED BY <1>5, <1>8, <1>13, <1>14, <1>15 DEF z

\* The frame being read when p bytes of f have come.
StateAt(f, b, p) ==
  LET w == Wide(f)
  IN IF p < 2 THEN Before(b, p)
     ELSE IF w # 0 /\ p < 6 + w THEN After(f, b, 2, W!None, w + 4, p)
     ELSE After(f, b, 2 + w, Size(f), Size(f) + 4, p)

\* What the read ends with that brings the bytes up to the q-th.
ReadsTo(o, f, b, q) ==
  IF q < Len(b) THEN o.event = "none" /\ o.frame = StateAt(f, b, q)
  ELSE Whole(o, f)

LEMMA ReadsAll ==
  ASSUME W!WSFrameAssumption, NEW f, NEW b, SpokenForm(b, f), NEW p, NEW q,
         Within(b, 2 + Wide(f), p), Within(b, p, q),
         Wide(f) = 0 \/ 6 + Wide(f) <= q
  PROVE  ReadsTo(W!on_read[<<After(f, b, 2 + Wide(f), Size(f), Size(f) + 4, p),
                             Part(b, p, q)>>], f, b, q)
<1> DEFINE w == Wide(f)
           n == Size(f)
           i == 2 + w
           r == n + 4
           a == After(f, b, i, n, r, q)
           x == <<After(f, b, i, n, r, p), Part(b, p, q)>>
<1>1. /\ w \in Nat /\ n \in Nat \ {0} /\ Len1(f) \in Nat
      /\ b \in Seq(Nat) /\ Len(b) = 6 + w + n
  BY DEF SpokenForm
<1>2. /\ Within(b, i, p) /\ Within(b, p, q) /\ (w = 0 \/ 6 + w <= q)
      /\ q \in Nat /\ q <= Len(b) /\ i <= q
  BY DEF Within
<1> HIDE DEF w, n
<1>3. /\ x \in W!Reading \X Seq(Nat) /\ Heard(x) = a /\ Len(a.buf) = q - i
  <2>1. n \in Nat \cup {W!None} /\ r \in Int /\ Len1(f) \in Nat
    BY <1>1
  <2> HIDE DEF i, r
  <2>2. Within(b, i, p) /\ Within(b, p, q)
    BY <1>2
  <2> QED BY <2>1, <2>2, HeardAfter
<1> HIDE DEF x
<1>4. /\ a.reading_head /\ a.remain_len = n + 4 /\ a.header /\ a.data_len = n
      /\ a.mask /\ a.mask_codes = <<>>
  BY DEF After
<1>5. W!on_read[x] = IF Onward(x) THEN W!on_read[<<Further(a), <<>>>>] ELSE Rest(x)
  BY <1>3, OnReadDef
<1> HIDE DEF a, i
<1>6. CASE q < Len(b)
  <2>1. q - i < n + 4
    BY <1>1, <1>2, <1>6 DEF i
  <2>2. Waits(a)
    BY <1>3, <1>4, <2>1 DEF Waits
  <2>3. W!on_read[x] = W!Ends(a)
    BY <1>3, <1>5, <2>2 DEF Onward, Goes, Rest
  <2>4. StateAt(f, b, q) = a
    <3>1. ~(q < 2) /\ ~(w # 0 /\ q < 6 + w)
      BY <1>1, <1>2 DEF i
    <3> QED BY <3>1 DEF StateAt, a, w, n, i
  <2> QED BY <1>6, <2>3, <2>4 DEF ReadsTo, W!Ends, x, w, n, i
<1>7. CASE ~(q < Len(b))
  <2>1. q = Len(b)
    BY <1>1, <1>2, <1>7
  <2>2. q - i = n + 4 /\ ~(q - i < n + 4) /\ q - i >= 4
    BY <1>1, <1>2, <2>1 DEF i
  <2>3. Goes(a) /\ Further(a) = W!ReadMask(a)
    <3>1. n # W!None
      BY <1>1 DEF W!None
    <3> QED BY <1>3, <1>4, <2>2, <3>1 DEF Goes, Waits, Further
  <2>4. a = After(f, b, 2 + Wide(f), Size(f), Size(f) + 4, Len(b))
    BY <2>1 DEF a, i, n, w
  <2>5. /\ Whole(W!on_read[<<W!ReadMask(a), <<>>>>], f)
        /\ W!ReadMask(a).buf # <<>>
    BY <2>4, ReadsData
  <2>6. W!on_read[x] = W!on_read[<<W!ReadMask(a), <<>>>>]
    BY <1>3, <1>5, <2>3, <2>5 DEF Onward
  <2> QED BY <1>7, <2>5, <2>6 DEF ReadsTo, x, w, n, i
<1> QED BY <1>6, <1>7

LEMMA ReadsLength ==
  ASSUME W!WSFrameAssumption, NEW f, NEW b, SpokenForm(b, f), NEW p, NEW q,
         Wide(f) # 0, Within(b, 2, p), Within(b, p, q)
  PROVE  ReadsTo(W!on_read[<<After(f, b, 2, W!None, Wide(f) + 4, p),
                             Part(b, p, q)>>], f, b, q)
<1> DEFINE w == Wide(f)
           n == Size(f)
           i == 2
           r == w + 4
           l == W!None
           len1 == Len1(f)
           a == After(f, b, i, l, r, q)
           x == <<After(f, b, i, l, r, p), Part(b, p, q)>>
<1>1. /\ w \in Nat \ {0} /\ n \in Nat \ {0} /\ len1 \in Nat
      /\ b \in Seq(Nat) /\ Len(b) = 6 + w + n
      /\ W!Unpack(Part(b, 2, 2 + w)) = n
  BY DEF SpokenForm
<1>2. /\ Within(b, i, p) /\ Within(b, p, q)
      /\ q \in Nat /\ q <= Len(b) /\ 2 <= q
  BY DEF Within
<1>3. w = IF len1 = Half - 2 THEN Width2 ELSE Width8
  <2>1. Half \in Nat
    BY Sizes
  <2>2. \/ w = Width2 /\ len1 = Half - 2
        \/ w = Width8 /\ len1 = Half - 1
    BY <1>1 DEF SpokenForm
  <2> QED BY <2>1, <2>2
<1> HIDE DEF w, n, len1
<1>4. /\ x \in W!Reading \X Seq(Nat) /\ Heard(x) = a /\ Len(a.buf) = q - 2
      /\ Within(b, 2, q)
  <2>1. l \in Nat \cup {W!None} /\ r \in Int /\ len1 \in Nat
    BY <1>1
  <2> HIDE DEF l, r, i
  <2>2. /\ x \in W!Reading \X Seq(Nat) /\ Heard(x) = a /\ Len(a.buf) = q - i
        /\ Within(b, i, q)
    BY <1>2, <2>1, HeardAfter DEF len1
  <2> QED BY <2>2 DEF i
<1> HIDE DEF x
<1>5. /\ a.reading_head /\ a.remain_len = w + 4 /\ a.header /\ a.mask
      /\ a.data_len = W!None /\ a.buf = Part(b, 2, q) /\ a.len1 = len1
  BY DEF After, len1
<1>6. W!on_read[x] = IF Onward(x) THEN W!on_read[<<Further(a), <<>>>>] ELSE Rest(x)
  BY <1>4, OnReadDef
<1> HIDE DEF a, i
<1>7. CASE q < 6 + w
  <2>1. q - 2 < w + 4 /\ q < Len(b) /\ ~(q < 2)
    BY <1>1, <1>2, <1>7
  <2>2. Waits(a)
    BY <1>4, <1>5, <2>1 DEF Waits
  <2>3. W!on_read[x] = W!Ends(a)
    BY <1>4, <1>6, <2>2 DEF Onward, Goes, Rest
  <2>4. StateAt(f, b, q) = a
    BY <1>1, <1>7, <2>1 DEF StateAt, a, w, i
  <2> QED BY <2>1, <2>3, <2>4 DEF ReadsTo, W!Ends, x, w, i
<1>8. CASE ~(q < 6 + w)
  <2> DEFINE g == After(f, b, 2 + w, n, n + 4, q)
  <2>1. ~(q - 2 < w + 4) /\ w <= q - 2 /\ 6 + w <= q
    BY <1>1, <1>2, <1>8
  <2>2. Goes(a) /\ Further(a) = W!ReadLength(a)
    BY <1>4, <1>5, <2>1 DEF Goes, Waits, Further
  <2>3. /\ W!Without(w, a.buf) = Part(b, 2 + w, q)
        /\ W!First(w, a.buf) = Part(b, 2, 2 + w)
        /\ Within(b, 2 + w, q)
    <3> DEFINE two == 2
    <3>1. Within(b, two, q) /\ w \in Nat /\ w <= q - two /\ a.buf = Part(b, two, q)
      BY <1>1, <1>4, <1>5, <2>1
    <3> HIDE DEF two
    <3>2. /\ W!Without(w, a.buf) = Part(b, two + w, q)
          /\ W!First(w, a.buf) = Part(b, two, two + w)
          /\ Within(b, two + w, q)
      BY <3>1, PartCut
    <3> QED BY <3>2 DEF two
  <2>4. W!ReadLength(a) = g
    <3> DEFINE e == (w + 4) + n - w
    <3>1. e = n + 4
      BY <1>1
    <3> DEFINE h == a.reading_head /\ a.mask
    <3>2. h = TRUE
      BY <1>5, Zenon
    <3>3. W!ReadLength(a) =
            [a EXCEPT !.buf = Part(b, 2 + w, q), !.data_len = n,
                      !.remain_len = @ + n - w, !.reading_head = h]
      BY <1>1, <1>3, <1>5, <2>3 DEF W!ReadLength
    <3> HIDE DEF h
    <3>4. W!ReadLength(a) =
            [a EXCEPT !.buf = Part(b, 2 + w, q), !.data_len = n,
                      !.remain_len = @ + n - w, !.reading_head = TRUE]
      BY <3>2, <3>3, Zenon
    <3>5. a.remain_len + n - w = e
      BY <1>5
    <3> HIDE DEF e
    <3>6. W!ReadLength(a) =
            [a EXCEPT !.buf = Part(b, 2 + w, q), !.data_len = n,
                      !.remain_len = n + 4, !.reading_head = TRUE]
      BY <3>1, <3>4, <3>5
    <3> QED BY <3>6 DEF After, a
  <2>5. g.buf # <<>>
    <3>1. Len(g.buf) = q - (2 + w)
      BY <2>3, PartForm DEF After
    <3> HIDE DEF g
    <3>2. Len(g.buf) # 0
      BY <1>1, <1>2, <2>1, <3>1
    <3> QED BY <3>2, NotEmpty, Zenon
  <2>6. Part(b, q, q) = <<>> /\ Within(b, q, q)
    <3>1. Within(b, 0, q)
      BY <1>4 DEF Within
    <3> QED BY <3>1, NothingMore
  <2>7. W!on_read[x] = W!on_read[<<g, Part(b, q, q)>>]
    <3> HIDE DEF g
    <3> QED BY <1>4, <1>6, <2>2, <2>4, <2>5, <2>6 DEF Onward
  <2>8. ReadsTo(W!on_read[<<g, Part(b, q, q)>>], f, b, q)
    BY <2>1, <2>3, <2>6, ReadsAll DEF w, n
  <2> HIDE DEF g
  <2> QED BY <2>7, <2>8 DEF x, w, i
<1> QED BY <1>7, <1>8

LEMMA ReadsHeader ==
  ASSUME W!WSFrameAssumption, NEW f, NEW b, SpokenForm(b, f), NEW p, NEW q,
         Within(b, 0, p), Within(b, p, q)
  PROVE  ReadsTo(W!on_read[<<Before(b, p), Part(b, p, q)>>], f, b, q)
<1> DEFINE w == Wide(f)
           n == Size(f)
           len1 == Len1(f)
           a == Before(b, q)
           x == <<Before(b, p), Part(b, p, q)>>
<1>1. /\ w \in Nat /\ n \in Nat \ {0} /\ len1 \in 0 .. Half - 1
      /\ b \in Seq(Nat) /\ Len(b) = 6 + w + n
      /\ b[1] # W!CLOSE /\ b[2] = Half + len1
      /\ \/ w = 0 /\ len1 = n /\ n < Half - 2
         \/ w = Width2 /\ len1 = Half - 2
         \/ w = Width8 /\ len1 = Half - 1
  BY DEF SpokenForm
<1>2. q \in Nat /\ q <= Len(b)
  BY DEF Within
<1>3. Half \in Nat \ {0} /\ Width2 \in Nat \ {0} /\ Width8 \in Nat \ {0}
  BY Sizes
<1> HIDE DEF w, n, len1
<1>4. /\ x \in W!Reading \X Seq(Nat) /\ Heard(x) = a /\ Len(a.buf) = q
      /\ Within(b, 0, q)
  BY HeardBefore
<1> HIDE DEF x
<1>5. /\ a.reading_head /\ a.remain_len = 2 /\ ~a.header /\ a.buf = Part(b, 0, q)
  BY DEF Before
<1>6. W!on_read[x] = IF Onward(x) THEN W!on_read[<<Further(a), <<>>>>] ELSE Rest(x)
  BY <1>4, OnReadDef
<1> HIDE DEF a
<1>7. CASE q < 2
  <2>1. q < Len(b)
    BY <1>1, <1>2, <1>7
  <2>2. Waits(a)
    BY <1>4, <1>5, <1>7 DEF Waits
  <2>3. W!on_read[x] = W!Ends(a)
    BY <1>4, <1>6, <2>2 DEF Onward, Goes, Rest
  <2>4. StateAt(f, b, q) = a
    BY <1>7 DEF StateAt, a
  <2> QED BY <2>1, <2>3, <2>4 DEF ReadsTo, W!Ends, x
<1>8. CASE ~(q < 2)
  <2>1. \A k \in 1 .. q : Part(b, 0, q)[k] = b[k]
    BY <1>4, FirstPart
  <2>2. a.buf[1] = b[1] /\ a.buf[2] = b[2]
    <3>1. 1 \in 1 .. q /\ 2 \in 1 .. q
      BY <1>2, <1>8
    <3> QED BY <1>5, <2>1, <3>1
  <2>3. Goes(a) /\ Further(a) = W!ReadHeader(a)
    BY <1>1, <1>4, <1>5, <1>8, <2>2 DEF Goes, Waits, Further
  <2>4. W!Without(2, a.buf) = Part(b, 2, q) /\ Within(b, 2, q)
    <3> DEFINE two == 2
    <3>1. two \in Nat /\ two <= q - 0
      BY <1>2, <1>8
    <3> HIDE DEF two
    <3>2. W!Without(two, Part(b, 0, q)) = Part(b, 0 + two, q) /\ Within(b, 0 + two, q)
      BY <1>4, <3>1, PartCut
    <3>3. 0 + two = two
      BY <3>1
    <3> QED BY <1>5, <3>2, <3>3 DEF two
  <2>5. (a.buf[2] >= Half) = TRUE /\ a.buf[2] % Half = len1
    <3> DEFINE c == a.buf[2]
    <3>1. c = Half + len1
      BY <1>1, <2>2
    <3> HIDE DEF c
    <3>2. Half \in {8, 16, 32, 64, 128} /\ len1 \in 0 .. Half - 1
      BY <1>1, Sizes
    <3>3. c >= Half
      BY <3>1, <3>2
    <3>4. c % Half = len1
      BY <3>1, <3>2
    <3> QED BY <3>3, <3>4 DEF c
  <2> DEFINE l == IF w = 0 THEN n ELSE W!None
             r == IF w = 0 THEN n + 4 ELSE w + 4
             g == After(f, b, 2, l, r, q)
             t == Part(b, 2, q)
  <2>6. W!Expected(len1, TRUE) = r /\ (IF len1 < Half - 2 THEN len1 ELSE W!None) = l
    BY <1>1, <1>3 DEF W!Expected
  <2> HIDE DEF l, r
  <2>7. W!ReadHeader(a) = g
    <3>1. W!ReadHeader(a) =
            [a EXCEPT !.header = TRUE, !.mask = TRUE, !.len1 = len1, !.buf = t,
                      !.remain_len = r, !.data_len = l]
      BY <2>4, <2>5, <2>6 DEF W!ReadHeader
    <3> HIDE DEF t
    <3> QED BY <3>1 DEF After, Before, a, len1, t
  <2>8. g.buf = t
    BY DEF After
  <2>9. Part(b, q, q) = <<>> /\ Within(b, q, q)
    BY <1>4, NothingMore
  <2>10. CASE q = 2
    <3>1. g.buf = <<>>
      BY <2>8, <2>9, <2>10
    <3>2. ~Waits(a)
      BY <1>4, <1>5, <1>8 DEF Waits
    <3>3. W!on_read[x] = W!Ends(g)
      <4> HIDE DEF g
      <4> QED BY <1>4, <1>6, <2>3, <2>7, <3>1, <3>2 DEF Onward, Rest
    <3>4. StateAt(f, b, q) = g
      <4>1. ~(q < 2) /\ (q < 6 + w) /\ (w = 0 => 2 + w = 2)
        BY <1>1, <2>10
      <4> QED BY <4>1 DEF StateAt, l, r, w, n
    <3>5. q < Len(b)
      BY <1>1, <2>10
    <3> HIDE DEF g
    <3> QED BY <3>3, <3>4, <3>5 DEF ReadsTo, W!Ends, x
  <2>11. CASE q # 2
    <3>1. g.buf # <<>>
      <4>1. Len(g.buf) = q - 2
        BY <2>4, <2>8, PartForm
      <4> HIDE DEF g
      <4>2. Len(g.buf) # 0
        BY <1>2, <1>8, <2>11, <4>1
      <4> QED BY <4>2, NotEmpty, Zenon
    <3>2. W!on_read[x] = W!on_read[<<g, Part(b, q, q)>>]
      <4> HIDE DEF g
      <4> QED BY <1>4, <1>6, <2>3, <2>7, <2>9, <3>1 DEF Onward
    <3>3. ReadsTo(W!on_read[<<g, Part(b, q, q)>>], f, b, q)
      <4>1. CASE w = 0
        <5>1. 2 + w = 2
          BY <4>1
        <5>2. Within(b, 2 + Wide(f), q) /\ Wide(f) = 0
          BY <2>4, <4>1, <5>1 DEF w
        <5>3. ReadsTo(W!on_read[<<After(f, b, 2 + Wide(f), Size(f), Size(f) + 4, q),
                                  Part(b, q, q)>>], f, b, q)
          BY <2>9, <5>2, ReadsAll
        <5> QED BY <4>1, <5>1, <5>3 DEF w, n, l, r
      <4>2. CASE w # 0
        <5>1. Wide(f) # 0
          BY <4>2 DEF w
        <5>2. ReadsTo(W!on_read[<<After(f, b, 2, W!None, Wide(f) + 4, q),
                                  Part(b, q, q)>>], f, b, q)
          BY <2>4, <2>9, <5>1, ReadsLength
        <5> QED BY <4>2, <5>2 DEF w, l, r
      <4> QED BY <4>1, <4>2
    <3> HIDE DEF g
    <3> QED BY <3>2, <3>3 DEF x
  <2> QED BY <2>10, <2>11
<1> QED BY <1>7, <1>8

\* A read of some of a frame's bytes, behind those that have come before.
LEMMA ReadsSome ==
  ASSUME W!WSFrameAssumption, NEW f \in Spoken, NEW b, b = W!BytesOf(f),
         NEW p \in Nat, NEW q \in Nat, p <= q, q <= Len(b), p < Len(b)
  PROVE  ReadsTo(W!on_read[<<StateAt(f, b, p), Part(b, p, q)>>], f, b, q)
<1> DEFINE w == Wide(f)
<1>1. SpokenForm(b, f)
  BY SpokenBytes
<1>2. w \in Nat /\ b \in Seq(Nat) /\ Len(b) \in Nat
  BY <1>1, LenProperties DEF SpokenForm
<1>3. Within(b, p, q)
  BY <1>2 DEF Within
<1> HIDE DEF w
<1>4. CASE p < 2
  <2>1. Within(b, 0, p)
    BY <1>2 DEF Within
  <2>2. StateAt(f, b, p) = Before(b, p)
    BY <1>4 DEF StateAt
  <2> QED BY <1>1, <1>3, <2>1, <2>2, ReadsHeader
<1>5. CASE ~(p < 2) /\ w # 0 /\ p < 6 + w
  <2>1. Within(b, 2, p)
    BY <1>2, <1>5 DEF Within
  <2>2. StateAt(f, b, p) = After(f, b, 2, W!None, Wide(f) + 4, p)
    BY <1>5 DEF StateAt, w
  <2>3. Wide(f) # 0
    BY <1>5 DEF w
  <2> QED BY <1>1, <1>3, <2>1, <2>2, <2>3, ReadsLength
<1>6. CASE ~(p < 2) /\ ~(w # 0 /\ p < 6 + w)
  <2>1. 2 + w \in Nat /\ 2 + w <= p /\ (w = 0 \/ 6 + w <= q)
    BY <1>2, <1>6
  <2>2. Within(b, 2 + Wide(f), p) /\ (Wide(f) = 0 \/ 6 + Wide(f) <= q)
    BY <1>2, <2>1 DEF Within, w
  <2>3. StateAt(f, b, p)
          = After(f, b, 2 + Wide(f), Size(f), Size(f) + 4, p)
    BY <1>6 DEF StateAt, w
  <2> QED BY <1>1, <1>3, <2>2, <2>3, ReadsAll
<1> QED BY <1>4, <1>5, <1>6

\* The same of a close, of which two bytes are enough.
LEMMA ReadsClose ==
  ASSUME W!WSFrameAssumption, NEW f \in Frames, f.opcode = W!CLOSE,
         NEW b, b = W!BytesOf(f),
         NEW p \in Nat, NEW q \in Nat, p < 2, p <= q, q <= Len(b)
  PROVE  LET o == W!on_read[<<Before(b, p), Part(b, p, q)>>]
         IN IF q < 2 THEN o.event = "none" /\ o.frame = Before(b, q)
            ELSE o.event = "close"
<1> DEFINE a == Before(b, q)
           x == <<Before(b, p), Part(b, p, q)>>
<1>1. b \in Seq(Nat) /\ b[1] = W!CLOSE /\ Len(b) \in Nat
  <2>1. FrameForm(b, f)
    BY BytesForm
  <2> QED BY <2>1, LenProperties DEF FrameForm
<1>2. Within(b, 0, p) /\ Within(b, p, q)
  BY <1>1 DEF Within
<1>3. /\ x \in W!Reading \X Seq(Nat) /\ Heard(x) = a /\ Len(a.buf) = q
      /\ Within(b, 0, q)
  BY <1>2, HeardBefore
<1> HIDE DEF x
<1>4. /\ a.reading_head /\ a.remain_len = 2 /\ ~a.header /\ a.buf = Part(b, 0, q)
  BY DEF Before
<1>5. W!on_read[x] = IF Onward(x) THEN W!on_read[<<Further(a), <<>>>>] ELSE Rest(x)
  BY <1>3, OnReadDef
<1> HIDE DEF a
<1>6. CASE q < 2
  <2>1. Waits(a)
    BY <1>3, <1>4, <1>6 DEF Waits
  <2>2. W!on_read[x] = W!Ends(a)
    BY <1>3, <1>5, <2>1 DEF Onward, Goes, Rest
  <2> QED BY <1>6, <2>2 DEF W!Ends, x, a
<1>7. CASE ~(q < 2)
  <2>1. \A k \in 1 .. q : Part(b, 0, q)[k] = b[k]
    BY <1>3, FirstPart
  <2>2. a.buf[1] = W!CLOSE
    <3>1. 1 \in 1 .. q
      BY <1>7
    <3> QED BY <1>1, <1>4, <2>1, <3>1
  <2>3. ~Waits(a) /\ ~Goes(a)
    BY <1>3, <1>4, <1>7, <2>2 DEF Waits, Goes
  <2>4. W!on_read[x] = W!Closes(W!ReadHeader(a))
    BY <1>3, <1>4, <1>5, <2>3 DEF Onward, Rest
  <2> QED BY <1>7, <2>4 DEF W!Closes, x
<1> QED BY <1>6, <1>7

\* handle_frame answers as RFC 6455 says.
LEMMA AnswerBytes ==
  ASSUME W!WSFrameAssumption, NEW s \in Seq(Nat)
  PROVE  W!make_frame_data(s) = W!FrameBytes(W!Text, <<>>, s)
<1> DEFINE n == Len(s)
           P == W!BytePow[Width2]
           code == IF n < Half - 2 THEN <<0 + n>>
                   ELSE IF n < P THEN <<0 + Half - 2>> \o W!Pack(n, Width2)
                   ELSE <<0 + Half - 1>> \o W!Pack(n, Width8)
           length == IF n > P - 1 THEN <<Half - 1>> \o W!Pack(n, Width8)
                     ELSE IF n > Half - 3 THEN <<Half - 2>> \o W!Pack(n, Width2)
                     ELSE <<n>>
           x == <<W!Text>> \o code
<1>1. /\ n \in Nat /\ Half \in Nat /\ Half >= 2 /\ Width2 \in Nat \ {0}
      /\ Width8 \in Nat
  BY Sizes, LenProperties
<1>2. P \in Nat /\ P >= 2 * Half
  <2> DEFINE v == Width2 - 1
             Q == W!BytePow[v]
             B == W!Byte
  <2>1. v \in Nat /\ v + 1 = Width2
    BY <1>1
  <2> HIDE DEF v
  <2>2. Q \in Nat /\ Q >= 1 /\ P = B * Q
    <3>1. Q \in Nat \ {0} /\ W!BytePow[v + 1] = B * Q
      BY <2>1, BytePowDef
    <3> HIDE DEF Q, B
    <3> QED BY <2>1, <3>1
  <2>3. B \in Nat /\ B = 2 * Half
    BY Sizes
  <2> HIDE DEF Q, B, P
  <2>4. B * Q >= B /\ B * Q \in Nat
    BY <2>2, <2>3
  <2> QED BY <2>2, <2>3, <2>4
<1> HIDE DEF n, P
<1>3. 0 + n = n /\ 0 + Half - 2 = Half - 2 /\ 0 + Half - 1 = Half - 1
  BY <1>1
<1>4. length = code
  <2>1. /\ n < Half - 2 <=> ~(n > Half - 3)
        /\ n < P <=> ~(n > P - 1)
        /\ n < Half - 2 => n < P
    BY <1>1, <1>2
  <2> QED BY <1>3, <2>1
<1>5. x \in Seq(Nat)
  <2>1. W!Pack(n, Width2) \in Seq(Nat) /\ W!Pack(n, Width8) \in Seq(Nat)
    BY <1>1, PackReads, Sizes, SeqMonotonic
  <2>2. Half - 2 \in Nat /\ Half - 1 \in Nat
    BY <1>1
  <2>3. code \in Seq(Nat)
    BY <1>1, <1>3, <2>1, <2>2
  <2>4. <<W!Text>> \in Seq(Nat)
    BY DEF W!Text
  <2> HIDE DEF code
  <2> QED BY <2>3, <2>4, ConcatProperties
<1>6. W!Masked(<<>>, s) = s
  <2>1. <<>> \in Seq(Nat)
    BY EmptySeq
  <2> QED BY <2>1, MaskedType
<1>7. x \o <<>> = x
  <2> HIDE DEF x
  <2> QED BY <1>5, ConcatEmptySeq
<1>8. W!FrameBytes(W!Text, <<>>, s) = x \o <<>> \o W!Masked(<<>>, s)
  BY DEF W!FrameBytes, n, P
<1>9. W!make_frame_data(s) = x \o s
  <2>1. W!make_frame_data(s) = <<W!Text>> \o length \o s
    BY DEF W!make_frame_data, n, P
  <2> HIDE DEF length, code
  <2> QED BY <1>4, <2>1, Zenon
<1> HIDE DEF x
<1>10. W!FrameBytes(W!Text, <<>>, s) = x \o s
  BY <1>6, <1>7, <1>8, Zenon
<1> QED BY <1>9, <1>10, Zenon

-----------------------------------------------------------------------------
(* The bytes of several frames *)

\* W!Sent and W!End of any frames.
SentOf(fs, k) ==
  LET sent[i \in 0 .. k] == IF i = 0 THEN <<>>
                           ELSE sent[i - 1] \o W!BytesOf(fs[i])
  IN sent[k]

EndOf(fs, k) == Len(SentOf(fs, k))

\* The values of its recursion.
Joins(v, fs, k) ==
  /\ v \in [0 .. k -> Seq(Nat)] /\ v[0] = <<>>
  /\ \A i \in 1 .. k : v[i] = v[i - 1] \o W!BytesOf(fs[i])

LEMMA BytesType ==
  ASSUME W!WSFrameAssumption, NEW f \in Frames
  PROVE  W!BytesOf(f) \in Seq(Nat) /\ Len(W!BytesOf(f)) \in Nat /\ Len(W!BytesOf(f)) >= 2
<1> DEFINE b == W!BytesOf(f)
           w == Wide(f)
           k == Len(f.key)
           n == Size(f)
<1>1. FrameForm(b, f) /\ w \in Nat
  BY BytesForm
<1>2. k \in Nat /\ n \in Nat
  BY FrameParts, LenProperties
<1>3. b \in Seq(Nat) /\ Len(b) = (2 + w + k) + n
  BY <1>1 DEF FrameForm
<1> HIDE DEF w, k, n, b
<1>4. Len(b) \in Nat /\ Len(b) >= 2
  BY <1>1, <1>2, <1>3
<1> QED BY <1>3, <1>4 DEF b

LEMMA SentForm ==
  ASSUME W!WSFrameAssumption, NEW fs \in Seq(Frames), NEW k \in 0 .. Len(fs)
  PROVE  \E v : Joins(v, fs, k) /\ SentOf(fs, k) = v[k]
<1> DEFINE S == Seq(Nat)
           X == 0 .. k
           G == [y \in (1 .. k) \X S |-> y[2] \o W!BytesOf(fs[y[1]])]
           Value(o) == [i \in X |-> IF i = 0 THEN <<>>
                                    ELSE o[i - 1] \o W!BytesOf(fs[i])]
           v == CHOOSE o : o = Value(o)
<1>1. k \in Nat /\ \A i \in 1 .. k : fs[i] \in Frames
  <2>1. Len(fs) \in Nat /\ \A i \in 1 .. Len(fs) : fs[i] \in Frames
    BY LenProperties, ElementOfSeq
  <2> QED BY <2>1
<1>2. SentOf(fs, k) = v[k]
  BY DEF SentOf
<1>3. ASSUME NEW i \in 1 .. k, NEW s \in S PROVE s \o W!BytesOf(fs[i]) \in S
  <2>1. W!BytesOf(fs[i]) \in Seq(Nat)
    BY <1>1, BytesType
  <2> QED BY <2>1, ConcatProperties
<1>4. Iteration(k, S, <<>>, G)
  <2>1. <<>> \in S
    BY EmptySeq
  <2>2. G \in [(1 .. k) \X S -> S]
    <3> HIDE DEF S
    <3> QED BY <1>3
  <2> HIDE DEF G, S
  <2> QED BY <1>1, <2>1, <2>2 DEF Iteration
<1>5. \E o \in [0 .. k -> S] :
         o[0] = <<>> /\ \A i \in 1 .. k : o[i] = G[<<i, o[i - 1]>>]
  <2> HIDE DEF G, S
  <2> QED BY <1>4, Iterates
<1>6. PICK o \in [X -> S] :
         o[0] = <<>> /\ \A i \in 1 .. k : o[i] = G[<<i, o[i - 1]>>]
  BY <1>5
<1>7. o = Value(o)
  <2>1. ASSUME NEW i \in X
        PROVE  o[i] = IF i = 0 THEN <<>> ELSE o[i - 1] \o W!BytesOf(fs[i])
    <3>1. CASE i = 0
      BY <1>6, <3>1
    <3>2. CASE i # 0
      <4>1. i \in 1 .. k /\ i - 1 \in X
        BY <1>1, <3>2
      <4>2. o[i] = G[<<i, o[i - 1]>>] /\ o[i - 1] \in S
        <5> HIDE DEF G, S, X
        <5> QED BY <1>6, <4>1
      <4>3. G[<<i, o[i - 1]>>] = o[i - 1] \o W!BytesOf(fs[i])
        <5> HIDE DEF S
        <5> QED BY <4>1, <4>2
      <4> HIDE DEF G
      <4> QED BY <3>2, <4>2, <4>3
    <3> QED BY <3>1, <3>2
  <2> HIDE DEF X
  <2> QED BY <1>6, <2>1
<1>8. v = Value(v)
  <2> HIDE DEF Value
  <2> QED BY <1>7
<1> HIDE DEF v
<1>9. /\ v = [i \in X |-> v[i]]
      /\ \A i \in X : v[i] = IF i = 0 THEN <<>> ELSE v[i - 1] \o W!BytesOf(fs[i])
  <2> HIDE DEF X
  <2> QED BY <1>8
<1>10. /\ v[0] = <<>> /\ \A i \in 1 .. k : v[i] = v[i - 1] \o W!BytesOf(fs[i])
  <2>1. 0 \in X /\ \A i \in 1 .. k : i \in X /\ i # 0
    BY <1>1
  <2> HIDE DEF X
  <2> QED BY <1>9, <2>1
<1>11. \A i \in X : v[i] \in S
  <2> DEFINE A == {i \in Nat : i <= k => v[i] \in S}
  <2>1. 0 \in A
    BY <1>10, EmptySeq
  <2>2. ASSUME NEW i \in A PROVE i + 1 \in A
    <3>1. CASE i + 1 <= k
      <4>1. i \in Nat /\ v[i] \in S /\ i + 1 \in 1 .. k /\ (i + 1) - 1 = i
        BY <1>1, <3>1
      <4>2. v[i + 1] = v[i] \o W!BytesOf(fs[i + 1])
        <5> HIDE DEF S
        <5> QED BY <1>10, <4>1
      <4> DEFINE j == i + 1
      <4>3. j \in 1 .. k /\ v[i] \in S /\ v[j] = v[i] \o W!BytesOf(fs[j])
        BY <4>1, <4>2
      <4> HIDE DEF S, j
      <4>4. v[j] \in S
        BY <1>3, <4>3
      <4> QED BY <4>4 DEF j
    <3> QED BY <3>1
  <2>3. A = Nat
    <3> A \subseteq Nat
      OBVIOUS
    <3> HIDE DEF A
    <3> QED BY <2>1, <2>2, NatInd
  <2> HIDE DEF S
  <2> QED BY <1>1, <2>3
<1>12. Joins(v, fs, k)
  <2>1. v \in [X -> S]
    <3> HIDE DEF X, S
    <3> QED BY <1>9, <1>11
  <2> QED BY <1>10, <2>1 DEF Joins
<1> QED BY <1>2, <1>12

LEMMA JoinsAgree ==
  ASSUME NEW fs, NEW u, NEW v, NEW k \in Nat, Joins(u, fs, k), Joins(v, fs, k + 1)
  PROVE  u[k] = v[k]
<1> DEFINE A == {i \in Nat : i <= k => u[i] = v[i]}
<1>1. 0 \in A
  BY DEF Joins
<1>2. ASSUME NEW i \in A PROVE i + 1 \in A
  <2>1. CASE i + 1 <= k
    <3> DEFINE j == i + 1
    <3>1. j - 1 = i /\ j \in 1 .. k /\ j \in 1 .. k + 1 /\ u[i] = v[i]
      BY <2>1
    <3>2. u[j] = u[j - 1] \o W!BytesOf(fs[j]) /\ v[j] = v[j - 1] \o W!BytesOf(fs[j])
      BY <3>1 DEF Joins
    <3>3. u[j] = v[j]
      BY <3>1, <3>2
    <3> QED BY <3>3
  <2> QED BY <2>1
<1>3. A = Nat
  <2> A \subseteq Nat
    OBVIOUS
  <2> HIDE DEF A
  <2> QED BY <1>1, <1>2, NatInd
<1> QED BY <1>3

LEMMA SentSteps ==
  ASSUME W!WSFrameAssumption, NEW fs \in Seq(Frames)
  PROVE  /\ SentOf(fs, 0) = <<>>
         /\ \A k \in 0 .. Len(fs) : SentOf(fs, k) \in Seq(Nat)
         /\ \A k \in 1 .. Len(fs) :
              SentOf(fs, k) = SentOf(fs, k - 1) \o W!BytesOf(fs[k])
<1>1. Len(fs) \in Nat
  BY LenProperties
<1>2. SentOf(fs, 0) = <<>>
  <2>1. 0 \in 0 .. Len(fs)
    BY <1>1
  <2> QED BY <2>1, SentForm DEF Joins
<1>3. ASSUME NEW k \in 0 .. Len(fs) PROVE SentOf(fs, k) \in Seq(Nat)
  <2>1. PICK v : Joins(v, fs, k) /\ SentOf(fs, k) = v[k]
    BY SentForm
  <2>2. k \in 0 .. k
    BY <1>1
  <2> QED BY <2>1, <2>2 DEF Joins
<1>4. ASSUME NEW k \in 1 .. Len(fs)
      PROVE  SentOf(fs, k) = SentOf(fs, k - 1) \o W!BytesOf(fs[k])
  <2> DEFINE j == k - 1
  <2>1. /\ j \in 0 .. Len(fs) /\ k \in 0 .. Len(fs) /\ j \in Nat /\ k = j + 1
        /\ k \in 1 .. k
    BY <1>1
  <2> HIDE DEF j
  <2>2. PICK u : Joins(u, fs, j) /\ SentOf(fs, j) = u[j]
    BY <2>1, SentForm
  <2>3. PICK v : Joins(v, fs, k) /\ SentOf(fs, k) = v[k]
    BY <2>1, SentForm
  <2>4. u[j] = v[j]
    BY <2>1, <2>2, <2>3, JoinsAgree
  <2>5. v[k] = v[k - 1] \o W!BytesOf(fs[k])
    BY <2>1, <2>3 DEF Joins
  <2> QED BY <2>2, <2>3, <2>4, <2>5 DEF j
<1> QED BY <1>2, <1>3, <1>4

\* What has been sent stays when more frames are.
LEMMA SentStays ==
  ASSUME W!WSFrameAssumption, NEW fs \in Seq(Frames), NEW f \in Frames
  PROVE  \A k \in 0 .. Len(fs) : SentOf(Append(fs, f), k) = SentOf(fs, k)
<1> DEFINE g == Append(fs, f)
           n == Len(fs)
           A == {k \in Nat : k <= n => SentOf(g, k) = SentOf(fs, k)}
<1>1. /\ g \in Seq(Frames) /\ Len(g) = n + 1 /\ n \in Nat
      /\ \A i \in 1 .. n : g[i] = fs[i]
  BY AppendProperties, LenProperties
<1> HIDE DEF g
<1>2. /\ SentOf(g, 0) = <<>> /\ SentOf(fs, 0) = <<>>
      /\ \A k \in 1 .. Len(g) : SentOf(g, k) = SentOf(g, k - 1) \o W!BytesOf(g[k])
      /\ \A k \in 1 .. n : SentOf(fs, k) = SentOf(fs, k - 1) \o W!BytesOf(fs[k])
  BY <1>1, SentSteps
<1> HIDE DEF n
<1>3. 0 \in A
  BY <1>2
<1>4. ASSUME NEW i \in A PROVE i + 1 \in A
  <2>1. CASE i + 1 <= n
    <3> DEFINE j == i + 1
    <3>1. /\ j - 1 = i /\ j \in 1 .. n /\ j \in 1 .. Len(g)
          /\ SentOf(g, i) = SentOf(fs, i)
      BY <1>1, <2>1
    <3> HIDE DEF j
    <3>2. SentOf(g, j) = SentOf(fs, j)
      BY <1>1, <1>2, <3>1
    <3> QED BY <3>2 DEF j
  <2> QED BY <2>1
<1>5. A = Nat
  <2> A \subseteq Nat
    OBVIOUS
  <2> HIDE DEF A
  <2> QED BY <1>3, <1>4, NatInd
<1> QED BY <1>1, <1>5 DEF g, n

\* The ends of the frames are in their order.
LEMMA EndsRise ==
  ASSUME W!WSFrameAssumption, NEW fs \in Seq(Frames)
  PROVE  /\ EndOf(fs, 0) = 0
         /\ \A k \in 0 .. Len(fs) : EndOf(fs, k) \in Nat
         /\ \A k \in 1 .. Len(fs) :
              /\ EndOf(fs, k) = EndOf(fs, k - 1) + Len(W!BytesOf(fs[k]))
              /\ EndOf(fs, k - 1) + 2 <= EndOf(fs, k)
         /\ \A j, k \in 0 .. Len(fs) : j <= k => EndOf(fs, j) <= EndOf(fs, k)
<1> DEFINE n == Len(fs)
           E(k) == EndOf(fs, k)
<1>1. /\ SentOf(fs, 0) = <<>> /\ n \in Nat
      /\ \A k \in 0 .. n : SentOf(fs, k) \in Seq(Nat)
      /\ \A k \in 1 .. n : SentOf(fs, k) = SentOf(fs, k - 1) \o W!BytesOf(fs[k])
  BY SentSteps, LenProperties
<1>2. E(0) = 0
  BY <1>1, EmptySeq DEF EndOf
<1>3. \A k \in 0 .. n : E(k) \in Nat
  BY <1>1, LenProperties DEF EndOf
<1>4. ASSUME NEW k \in 1 .. n
      PROVE  E(k) = E(k - 1) + Len(W!BytesOf(fs[k])) /\ E(k - 1) + 2 <= E(k)
  <2> DEFINE b == W!BytesOf(fs[k])
             j == k - 1
             s == SentOf(fs, j)
  <2>1. fs[k] \in Frames
    BY ElementOfSeq
  <2>2. b \in Seq(Nat) /\ Len(b) \in Nat /\ Len(b) >= 2
    BY <2>1, BytesType
  <2>3. j \in 0 .. n
    BY <1>1
  <2>4. s \in Seq(Nat) /\ SentOf(fs, k) = s \o b /\ Len(s) \in Nat
    BY <1>1, <1>3, <2>3 DEF EndOf
  <2> HIDE DEF b, j, s
  <2>5. Len(SentOf(fs, k)) = Len(s) + Len(b)
    BY <2>2, <2>4, ConcatProperties
  <2> QED BY <2>2, <2>4, <2>5 DEF EndOf, b, j, s
<1> HIDE DEF E, n
<1>5. ASSUME NEW j \in 0 .. n PROVE \A k \in 0 .. n : j <= k => E(j) <= E(k)
  <2> DEFINE A == {k \in Nat : j <= k /\ k <= n => E(j) <= E(k)}
  <2>1. 0 \in A
    <3>1. j <= 0 => j = 0
      BY <1>1
    <3> QED BY <1>3, <3>1
  <2>2. ASSUME NEW k \in A PROVE k + 1 \in A
    <3>1. CASE j <= k /\ k + 1 <= n
      <4> DEFINE i == k + 1
      <4>1. i \in 1 .. n /\ i - 1 = k /\ k \in 0 .. n /\ i \in 0 .. n
        BY <1>1, <3>1
      <4>2. E(j) <= E(k)
        BY <1>1, <3>1
      <4> HIDE DEF i
      <4>3. E(k) + 2 <= E(i) /\ E(k) \in Nat /\ E(i) \in Nat /\ E(j) \in Nat
        BY <1>3, <1>4, <4>1
      <4>4. E(j) <= E(i)
        BY <4>2, <4>3
      <4> QED BY <4>4 DEF i
    <3>2. CASE j = k + 1
      BY <1>3, <3>2
    <3>3. CASE k + 1 < j \/ n < k + 1
      BY <1>1, <3>3
    <3> QED BY <1>1, <3>1, <3>2, <3>3
  <2>3. A = Nat
    <3> A \subseteq Nat
      OBVIOUS
    <3> HIDE DEF A
    <3> QED BY <2>1, <2>2, NatInd
  <2>4. ASSUME NEW k \in 0 .. n, j <= k PROVE E(j) <= E(k)
    <3>1. k \in Nat /\ k <= n
      BY <1>1
    <3>2. k \in A
      BY <2>3, <3>1, Zenon
    <3> QED BY <2>4, <3>1, <3>2
  <2> QED BY <2>4
<1> QED BY <1>2, <1>3, <1>4, <1>5 DEF E, n

\* The bytes of frame k + 1 are behind those of the first k.
LEMMA BytesThere ==
  ASSUME W!WSFrameAssumption, NEW fs \in Seq(Frames), NEW k \in 1 .. Len(fs),
         NEW m \in 0 .. Len(fs), k <= m
  PROVE  \A i \in 1 .. Len(W!BytesOf(fs[k])) :
           SentOf(fs, m)[EndOf(fs, k - 1) + i] = W!BytesOf(fs[k])[i]
<1> DEFINE n == Len(fs)
           b == W!BytesOf(fs[k])
           e == EndOf(fs, k - 1)
           A == {j \in Nat : k <= j /\ j <= n =>
                               \A i \in 1 .. Len(b) : SentOf(fs, j)[e + i] = b[i]}
<1>1. /\ n \in Nat
      /\ \A j \in 0 .. n : SentOf(fs, j) \in Seq(Nat)
      /\ \A j \in 1 .. n : SentOf(fs, j) = SentOf(fs, j - 1) \o W!BytesOf(fs[j])
  BY SentSteps, LenProperties
<1>2. \A j \in 1 .. n : W!BytesOf(fs[j]) \in Seq(Nat) /\ Len(W!BytesOf(fs[j])) \in Nat
  BY ElementOfSeq, BytesType
<1>3. /\ e \in Nat /\ Len(b) \in Nat
      /\ e + Len(b) = EndOf(fs, k)
      /\ \A j \in 0 .. n : EndOf(fs, j) \in Nat /\ (k <= j => EndOf(fs, k) <= EndOf(fs, j))
  <2>1. k - 1 \in 0 .. n /\ k \in 0 .. n
    BY <1>1
  <2> QED BY <1>2, <2>1, EndsRise
<1> HIDE DEF n, b, e
<1>4. 0 \in A
  BY <1>1
<1>5. ASSUME NEW j \in A PROVE j + 1 \in A
  <2> DEFINE h == j + 1
             c == W!BytesOf(fs[h])
             s == SentOf(fs, j)
  <2>1. ASSUME k <= h, h <= n, NEW i \in 1 .. Len(b)
        PROVE  SentOf(fs, h)[e + i] = b[i]
    <3>1. h \in 1 .. n /\ h - 1 = j /\ j \in 0 .. n
      BY <1>1, <2>1
    <3> HIDE DEF h
    <3>2. s \in Seq(Nat) /\ c \in Seq(Nat) /\ SentOf(fs, h) = s \o c
      BY <1>1, <1>2, <3>1
    <3>3. CASE k = h
      <4>1. Len(s) = e /\ c = b
        BY <3>1, <3>3 DEF EndOf, b, e
      <4> HIDE DEF s, c
      <4>2. IsJoin(SentOf(fs, h), s, c)
        BY <3>2, Joined
      <4> QED BY <4>1, <4>2 DEF IsJoin
    <3>4. CASE k # h
      <4>1. k <= j
        BY <1>1, <2>1, <3>1, <3>4 DEF h
      <4>2. s[e + i] = b[i]
        BY <1>1, <3>1, <4>1
      <4>3. e + i \in 1 .. Len(s)
        <5>1. e + Len(b) <= Len(s) /\ Len(s) \in Nat
          BY <1>3, <3>1, <4>1 DEF EndOf
        <5> HIDE DEF s
        <5> QED BY <1>3, <5>1
      <4> HIDE DEF s, c
      <4>4. IsJoin(SentOf(fs, h), s, c)
        BY <3>2, Joined
      <4> QED BY <4>2, <4>3, <4>4 DEF IsJoin
    <3> QED BY <3>3, <3>4
  <2> QED BY <2>1
<1>6. A = Nat
  <2> A \subseteq Nat
    OBVIOUS
  <2> HIDE DEF A
  <2> QED BY <1>4, <1>5, NatInd
<1>7. m \in A /\ k <= m /\ m <= n
  <2>1. m \in Nat /\ k <= m /\ m <= n
    BY <1>1 DEF n
  <2> HIDE DEF A
  <2> QED BY <1>6, <2>1
<1> QED BY <1>7 DEF b, e

\* What a read brings when it stays within a frame.
LEMMA ReadWithin ==
  ASSUME W!WSFrameAssumption, NEW fs \in Seq(Frames), NEW k \in 1 .. Len(fs),
         NEW p \in Nat, NEW q \in Nat, p <= q, q <= Len(W!BytesOf(fs[k]))
  PROVE  SubSeq(SentOf(fs, Len(fs)), EndOf(fs, k - 1) + p + 1, EndOf(fs, k - 1) + q)
           = Part(W!BytesOf(fs[k]), p, q)
<1> DEFINE n == Len(fs)
           b == W!BytesOf(fs[k])
           e == EndOf(fs, k - 1)
           s == SentOf(fs, n)
           from == e + p
           upto == e + q
<1>1. n \in Nat /\ k \in 0 .. n /\ k - 1 \in 0 .. n /\ n \in 0 .. n /\ k <= n
  BY LenProperties
<1>2. /\ s \in Seq(Nat) /\ e \in Nat /\ b \in Seq(Nat) /\ Len(b) \in Nat
      /\ e + Len(b) <= Len(s) /\ Len(s) \in Nat
  <2>1. s \in Seq(Nat)
    BY <1>1, SentSteps
  <2>2. /\ e \in Nat /\ EndOf(fs, k) = e + Len(b) /\ EndOf(fs, k) <= EndOf(fs, n)
        /\ EndOf(fs, n) \in Nat
    BY <1>1, EndsRise
  <2>3. b \in Seq(Nat) /\ Len(b) \in Nat
    BY ElementOfSeq, BytesType
  <2> QED BY <2>1, <2>2, <2>3 DEF EndOf
<1>3. \A v \in 1 .. Len(b) : s[e + v] = b[v]
  BY <1>1, BytesThere
<1> HIDE DEF n, b, e, s
<1>4. Within(s, from, upto) /\ upto - from = q - p
  BY <1>2 DEF Within, b
<1>5. Within(b, p, q)
  BY <1>2 DEF Within, b
<1>6. /\ Part(b, p, q) \in Seq(Nat) /\ Len(Part(b, p, q)) = upto - from
      /\ \A v \in 1 .. upto - from : Part(b, p, q)[v] = s[from + v]
  <2> DEFINE y == Part(b, p, q)
  <2>1. /\ y \in Seq(Nat) /\ Len(y) = q - p
        /\ \A v \in 1 .. q - p : y[v] = b[p + v]
    <3> DEFINE c == p
               d == q
    <3>1. Within(b, c, d)
      BY <1>5
    <3> HIDE DEF c, d, from, upto
    <3>2. /\ Part(b, c, d) \in Seq(Nat) /\ Len(Part(b, c, d)) = d - c
          /\ \A v \in 1 .. d - c : Part(b, c, d)[v] = b[c + v]
      BY <3>1, PartForm
    <3> QED BY <3>2 DEF c, d
  <2> HIDE DEF y
  <2>2. ASSUME NEW v \in 1 .. q - p PROVE y[v] = s[from + v]
    <3>1. p + v \in 1 .. Len(b) /\ from + v = e + (p + v)
      BY <1>2 DEF b
    <3> QED BY <1>3, <2>1, <3>1
  <2>3. y \in Seq(Nat) /\ Len(y) = upto - from /\ \A v \in 1 .. upto - from : y[v] = s[from + v]
    BY <1>4, <2>1, <2>2
  <2> QED BY <2>3 DEF y
<1> HIDE DEF from, upto
<1>7. Part(s, from, upto) = Part(b, p, q)
  <2> DEFINE y == Part(b, p, q)
  <2>1. /\ y \in Seq(Nat) /\ Len(y) = upto - from
        /\ \A v \in 1 .. upto - from : y[v] = s[from + v]
    BY <1>6
  <2> HIDE DEF y
  <2>2. Part(s, from, upto) = y
    BY <1>4, <2>1, PartIs
  <2> QED BY <2>2 DEF y
<1> QED BY <1>7 DEF Part, n, b, e, s, from, upto

-----------------------------------------------------------------------------
(* The frames in their order *)

\* The frame being read when p bytes of f have come, be it text or a close.
FrameState(f, p) == IF f.opcode = W!CLOSE THEN Before(W!BytesOf(f), p)
                    ELSE StateAt(f, W!BytesOf(f), p)

\* Of the frames fs, t bytes have been read: the first k frames, and c is the
\* next one as far as it has come.  o says whether the connection is open.
Follows(fs, k, t, c, o) ==
  LET p == t - EndOf(fs, k)
  IN /\ k \in 0 .. Len(fs)
     /\ \A i \in 1 .. k : fs[i].opcode # W!CLOSE
     /\ 0 <= p
     /\ o => IF k = Len(fs) THEN p = 0 /\ c = W!NewFrame
             ELSE /\ t < EndOf(fs, k + 1) /\ c = FrameState(fs[k + 1], p)
                  /\ fs[k + 1].opcode = W!CLOSE => p < 2
     /\ ~o => /\ k < Len(fs) /\ fs[k + 1].opcode = W!CLOSE
              /\ 2 <= p /\ t <= EndOf(fs, k + 1)

LEMMA FrameStateNew ==
  ASSUME W!WSFrameAssumption, NEW f \in Frames
  PROVE  FrameState(f, 0) = W!NewFrame
<1> DEFINE b == W!BytesOf(f)
<1>1. Part(b, 0, 0) = <<>>
  <2>1. b \in Seq(Nat) /\ Len(b) \in Nat /\ Len(b) >= 2
    BY BytesType
  <2> HIDE DEF b
  <2>2. Within(b, 0, 0)
    BY <2>1 DEF Within
  <2> QED BY <2>2, PartForm
<1>2. FrameState(f, 0) = Before(b, 0)
  BY DEF FrameState, StateAt
<1> HIDE DEF b
<1> QED BY <1>1, <1>2 DEF Before, W!NewFrame

LEMMA FollowsMore ==
  ASSUME W!WSFrameAssumption, NEW fs \in Seq(Frames), NEW f \in Frames,
         NEW k, NEW t \in Nat, NEW c, NEW o \in BOOLEAN, Follows(fs, k, t, c, o)
  PROVE  Follows(Append(fs, f), k, t, c, o)
<1> DEFINE g == Append(fs, f)
           n == Len(fs)
<1>1. /\ g \in Seq(Frames) /\ Len(g) = n + 1 /\ n \in Nat /\ g[n + 1] = f
      /\ \A i \in 1 .. n : g[i] = fs[i]
  BY AppendProperties, LenProperties
<1>2. \A i \in 0 .. n : EndOf(g, i) = EndOf(fs, i) /\ EndOf(fs, i) \in Nat
  BY SentStays, EndsRise DEF EndOf
<1> HIDE DEF g, n
<1>3. EndOf(g, n + 1) \in Nat /\ EndOf(g, n) + 2 <= EndOf(g, n + 1)
  <2> DEFINE m == n + 1
  <2>1. m \in 1 .. Len(g) /\ m \in 0 .. Len(g) /\ m - 1 = n
    BY <1>1
  <2> HIDE DEF m
  <2>2. EndOf(g, m) \in Nat /\ EndOf(g, m - 1) + 2 <= EndOf(g, m)
    BY <1>1, <2>1, EndsRise
  <2> QED BY <2>1, <2>2 DEF m
<1>4. /\ k \in 0 .. n /\ k \in 0 .. Len(g) /\ k # Len(g)
      /\ \A i \in 1 .. k : g[i].opcode # W!CLOSE
      /\ EndOf(g, k) = EndOf(fs, k) /\ EndOf(fs, k) \in Nat
      /\ 0 <= t - EndOf(fs, k)
  <2>1. k \in 0 .. n
    BY DEF Follows, n
  <2>2. \A i \in 1 .. k : g[i] = fs[i]
    BY <1>1, <2>1
  <2>3. /\ k \in 0 .. Len(g) /\ k # Len(g)
    BY <1>1, <2>1
  <2>4. EndOf(g, k) = EndOf(fs, k) /\ EndOf(fs, k) \in Nat
    BY <1>2, <2>1
  <2>5. /\ \A i \in 1 .. k : fs[i].opcode # W!CLOSE
        /\ 0 <= t - EndOf(fs, k)
    BY DEF Follows
  <2>6. \A i \in 1 .. k : g[i].opcode # W!CLOSE
    BY <2>2, <2>5
  <2> QED BY <2>1, <2>3, <2>4, <2>5, <2>6
<1>5. CASE k = n
  <2>1. o /\ t - EndOf(fs, k) = 0 /\ c = W!NewFrame
    BY <1>1, <1>5 DEF Follows, n
  <2>2. c = FrameState(g[k + 1], 0)
    BY <1>1, <1>5, <2>1, FrameStateNew
  <2>3. t < EndOf(g, k + 1)
    BY <1>2, <1>3, <1>4, <1>5, <2>1
  <2> QED BY <1>4, <2>1, <2>2, <2>3 DEF Follows, g
<1>6. CASE k # n
  <2>1. k + 1 \in 1 .. n /\ k + 1 \in 0 .. n /\ k < Len(g)
    BY <1>1, <1>4, <1>6
  <2>2. g[k + 1] = fs[k + 1] /\ EndOf(g, k + 1) = EndOf(fs, k + 1)
    BY <1>1, <1>2, <2>1
  <2>3. /\ o => /\ t < EndOf(fs, k + 1)
                /\ c = FrameState(fs[k + 1], t - EndOf(fs, k))
                /\ fs[k + 1].opcode = W!CLOSE => t - EndOf(fs, k) < 2
        /\ ~o => /\ fs[k + 1].opcode = W!CLOSE
                 /\ 2 <= t - EndOf(fs, k) /\ t <= EndOf(fs, k + 1)
    BY <1>6 DEF Follows, n
  <2> QED BY <1>4, <2>1, <2>2, <2>3 DEF Follows, g
<1> QED BY <1>5, <1>6

\* A read of m more bytes, none of them behind the end of a frame that is in
\* them, ends with o.
ReadsNext(fs, k, t, c, m, o) ==
  /\ fs \in Seq(Frames) /\ \A i \in 1 .. Len(fs) : W!Tame(fs[i])
  /\ t \in Nat /\ m \in Nat \ {0} /\ Follows(fs, k, t, c, TRUE)
  /\ t + m <= EndOf(fs, Len(fs))
  /\ \A i \in 1 .. Len(fs) : EndOf(fs, i) \notin t + 1 .. t + m - 1
  /\ o = W!on_read[<<c, SubSeq(SentOf(fs, Len(fs)), t + 1, t + m)>>]

\* It ends with nothing, with the frame's data, or with the close.
FollowsOn(fs, k, t, o) ==
  /\ k + 1 \in 1 .. Len(fs)
  /\ \/ o.event = "none" /\ Follows(fs, k, t, o.frame, TRUE)
     \/ /\ o.event = "frame" /\ o.data = fs[k + 1].data
        /\ Follows(fs, k + 1, t, W!NewFrame, TRUE)
     \/ o.event = "close" /\ \A d : Follows(fs, k, t, d, FALSE)

LEMMA FollowsRead ==
  ASSUME W!WSFrameAssumption, NEW fs, NEW k, NEW t, NEW c, NEW m, NEW o,
         ReadsNext(fs, k, t, c, m, o)
  PROVE  FollowsOn(fs, k, t + m, o)
<1>0. /\ fs \in Seq(Frames) /\ \A i \in 1 .. Len(fs) : W!Tame(fs[i])
      /\ t \in Nat /\ m \in Nat \ {0} /\ Follows(fs, k, t, c, TRUE)
      /\ t + m <= EndOf(fs, Len(fs))
      /\ \A i \in 1 .. Len(fs) : EndOf(fs, i) \notin t + 1 .. t + m - 1
      /\ o = W!on_read[<<c, SubSeq(SentOf(fs, Len(fs)), t + 1, t + m)>>]
  BY DEF ReadsNext
<1> DEFINE n == Len(fs)
           j == k + 1
           f == fs[j]
           b == W!BytesOf(f)
           e == EndOf(fs, k)
           p == t - e
           q == p + m
<1>1. /\ n \in Nat /\ k \in 0 .. n /\ \A i \in 0 .. n : EndOf(fs, i) \in Nat
      /\ e \in Nat /\ e <= t /\ \A i \in 1 .. k : fs[i].opcode # W!CLOSE
      /\ t \in Nat /\ m \in Nat \ {0}
  <2>1. n \in Nat /\ k \in 0 .. n /\ \A i \in 0 .. n : EndOf(fs, i) \in Nat
    BY <1>0, LenProperties, EndsRise DEF Follows
  <2>2. e \in Nat /\ 0 <= t - e
    BY <1>0, <2>1 DEF Follows
  <2>3. e <= t
    <3> HIDE DEF e
    <3> QED BY <1>0, <2>2
  <2> QED BY <1>0, <2>1, <2>2, <2>3 DEF Follows
<1>2. k # n
  <2>1. k = n => t - e = 0
    BY <1>0 DEF Follows
  <2> HIDE DEF e, n
  <2>2. k = n => e = EndOf(fs, n)
    BY DEF e
  <2>3. t + m <= EndOf(fs, n)
    BY <1>0 DEF n
  <2> QED BY <1>1, <2>1, <2>2, <2>3
<1>3. /\ j \in 1 .. n /\ j \in 0 .. n /\ j - 1 = k
  BY <1>1, <1>2
<1>4. /\ t < EndOf(fs, j) /\ c = FrameState(f, p)
      /\ f.opcode = W!CLOSE => p < 2
  BY <1>0, <1>2 DEF Follows
<1>5. f \in Frames /\ W!Tame(f)
  BY <1>0, <1>3, ElementOfSeq
<1>6. b \in Seq(Nat) /\ Len(b) \in Nat /\ Len(b) >= 2
  BY <1>5, BytesType
<1>7. EndOf(fs, j) = e + Len(b)
  BY <1>0, <1>3, EndsRise
<1> HIDE DEF n, j, f, b, e
<1>8. /\ p \in Nat /\ q \in Nat /\ p < q /\ q <= Len(b) /\ p < Len(b)
      /\ t + 1 = e + p + 1 /\ t + m = e + q
  <2>1. t + m <= e + Len(b)
    <3>1. EndOf(fs, j) \notin t + 1 .. t + m - 1
      BY <1>0, <1>3 DEF n
    <3>2. EndOf(fs, j) \in Nat
      BY <1>1, <1>3
    <3>3. EndOf(fs, j) < t + 1 \/ t + m - 1 < EndOf(fs, j)
      BY <1>1, <3>1, <3>2
    <3>4. t + m <= EndOf(fs, j)
      BY <1>1, <1>4, <3>2, <3>3
    <3> QED BY <1>7, <3>4
  <2> QED BY <1>1, <1>4, <1>6, <1>7, <2>1
<1> HIDE DEF p, q
<1>9. o = W!on_read[<<FrameState(f, p), Part(b, p, q)>>]
  <2>1. SubSeq(SentOf(fs, n), e + p + 1, e + q) = Part(b, p, q)
    <3>1. e = EndOf(fs, j - 1)
      BY <1>3 DEF e
    <3>2. j \in 1 .. Len(fs) /\ p <= q /\ q <= Len(W!BytesOf(fs[j]))
      BY <1>3, <1>8 DEF n, b, f
    <3>3. SubSeq(SentOf(fs, Len(fs)), EndOf(fs, j - 1) + p + 1, EndOf(fs, j - 1) + q)
            = Part(W!BytesOf(fs[j]), p, q)
      BY <1>0, <1>8, <3>2, ReadWithin
    <3> QED BY <3>1, <3>3 DEF n, b, f
  <2> QED BY <1>0, <1>4, <1>8, <2>1 DEF n
<1>10. (t + m) - EndOf(fs, k) = q
  <2>1. (t + m) - e = q
    BY <1>1, <1>8
  <2> QED BY <2>1 DEF e
<1>11. CASE f.opcode = W!CLOSE
  <2>1. p < 2 /\ FrameState(f, p) = Before(b, p)
    BY <1>4, <1>11 DEF FrameState, b
  <2>2. IF q < 2 THEN o.event = "none" /\ o.frame = Before(b, q)
        ELSE o.event = "close"
    <3>1. p <= q
      BY <1>8
    <3> QED BY <1>5, <1>8, <1>9, <1>11, <2>1, <3>1, ReadsClose DEF b
  <2>3. CASE q < 2
    <3>1. o.frame = FrameState(f, q) /\ t + m < EndOf(fs, j)
      BY <1>1, <1>6, <1>7, <1>8, <1>11, <2>2, <2>3 DEF FrameState, b
    <3>2. 0 <= q
      BY <1>8
    <3>3. Follows(fs, k, t + m, o.frame, TRUE)
      BY <1>1, <1>2, <1>10, <2>3, <3>1, <3>2 DEF Follows, n, j, f
    <3> QED BY <1>3, <2>2, <2>3, <3>3 DEF n, j, FollowsOn
  <2>4. CASE ~(q < 2)
    <3>1. 2 <= q /\ 0 <= q /\ t + m <= EndOf(fs, j) /\ k < n
      BY <1>1, <1>2, <1>6, <1>7, <1>8, <2>4
    <3>2. \A d : Follows(fs, k, t + m, d, FALSE)
      BY <1>1, <1>10, <1>11, <3>1 DEF Follows, n, j, f
    <3> QED BY <1>3, <2>2, <2>4, <3>2 DEF n, j, FollowsOn
  <2> QED BY <2>3, <2>4
<1>12. CASE f.opcode # W!CLOSE
  <2>1. f \in Spoken /\ FrameState(f, p) = StateAt(f, b, p)
    BY <1>5, <1>12 DEF Spoken, W!Tame, FrameState, b
  <2>2. ReadsTo(o, f, b, q)
    <3>1. p <= q
      BY <1>8
    <3> QED BY <1>8, <1>9, <2>1, <3>1, ReadsSome DEF b
  <2>3. CASE q < Len(b)
    <3>1. o.event = "none" /\ o.frame = StateAt(f, b, q)
      BY <2>2, <2>3 DEF ReadsTo
    <3>2. o.frame = FrameState(f, q) /\ t + m < EndOf(fs, j) /\ 0 <= q
      <4>1. t + m < EndOf(fs, j) /\ 0 <= q
        BY <1>1, <1>6, <1>7, <1>8, <2>3
      <4> QED BY <1>12, <3>1, <4>1 DEF FrameState, b
    <3>3. Follows(fs, k, t + m, o.frame, TRUE)
      BY <1>1, <1>2, <1>10, <1>12, <3>2 DEF Follows, n, j, f
    <3> QED BY <1>3, <3>1, <3>3 DEF n, j, FollowsOn
  <2>4. CASE ~(q < Len(b))
    <3>1. o.event = "frame" /\ o.data = f.data
      BY <2>2, <2>4 DEF ReadsTo, Whole
    <3>2. t + m = EndOf(fs, j)
      <4>1. q = Len(b)
        BY <1>6, <1>8, <2>4
      <4> QED BY <1>7, <1>8, <4>1
    <3>3. \A i \in 1 .. j : fs[i].opcode # W!CLOSE
      <4>1. \A i \in 1 .. j : i \in 1 .. k \/ i = j
        BY <1>1, <1>3
      <4> QED BY <1>1, <1>12, <4>1 DEF f
    <3>4. (t + m) - EndOf(fs, j) = 0
      BY <1>0, <3>2
    <3>5. CASE j = n
      <4>1. Follows(fs, j, t + m, W!NewFrame, TRUE)
        BY <1>3, <3>3, <3>4, <3>5 DEF Follows, n
      <4> QED BY <1>3, <3>1, <4>1 DEF n, j, f, FollowsOn
    <3>6. CASE j # n
      <4> DEFINE g == fs[j + 1]
      <4>1. j + 1 \in 1 .. n /\ j + 1 \in 0 .. n /\ (j + 1) - 1 = j
        BY <1>1, <1>3, <3>6
      <4>2. W!NewFrame = FrameState(g, 0)
        <5>1. g \in Frames
          BY <1>0, <4>1, ElementOfSeq DEF n
        <5> QED BY <5>1, FrameStateNew
      <4>3. t + m < EndOf(fs, j + 1)
        <5> DEFINE h == j + 1
        <5>1. h \in 1 .. n /\ h \in 0 .. n /\ h - 1 = j
          BY <4>1
        <5> HIDE DEF h
        <5>2. EndOf(fs, h - 1) + 2 <= EndOf(fs, h) /\ EndOf(fs, h) \in Nat
          BY <1>0, <5>1, EndsRise DEF n
        <5>3. t + m < EndOf(fs, h)
          BY <1>1, <1>3, <3>2, <5>1, <5>2
        <5> QED BY <5>3 DEF h
      <4>4. Follows(fs, j, t + m, W!NewFrame, TRUE)
        BY <1>3, <3>3, <3>4, <3>6, <4>2, <4>3 DEF Follows, n
      <4> QED BY <1>3, <3>1, <4>4 DEF n, j, f, FollowsOn
    <3> QED BY <3>5, <3>6
  <2> QED BY <2>3, <2>4
<1> QED BY <1>11, <1>12

-----------------------------------------------------------------------------
(* The invariant *)

Echoed(f) == W!FrameBytes(W!Text, <<>>, Lead \o f.data)

\* The first k frames have been read and answered, and cur_frame is the next one
\* as far as it has been read.
WSFrameInv ==
  /\ frames \in Seq(Frames) /\ taken \in Nat
  /\ taken <= EndOf(frames, Len(frames))
  /\ open \in BOOLEAN /\ tame \in BOOLEAN
  /\ tame => /\ \A i \in 1 .. Len(frames) : W!Tame(frames[i])
             /\ \E k \in Nat :
                  /\ Follows(frames, k, taken, cur_frame, open)
                  /\ output = [i \in 1 .. k |-> Echoed(frames[i])]

LEMMA SentIs ==
  /\ W!Input = SentOf(frames, Len(frames))
  /\ \A k : W!End(k) = EndOf(frames, k)
<1>1. \A k : W!Sent(k) = SentOf(frames, k)
  BY DEF W!Sent, SentOf
<1> QED BY <1>1 DEF W!Input, W!End, EndOf

LEMMA EchoBytes ==
  ASSUME W!WSFrameAssumption, NEW f \in Frames
  PROVE  W!make_frame_data(Lead \o f.data) = Echoed(f)
<1>1. Lead \in Seq(Nat) /\ f.data \in Seq(Nat)
  BY Sizes, SeqMonotonic, FrameParts
<1>2. Lead \o f.data \in Seq(Nat)
  BY <1>1, ConcatProperties
<1> QED BY <1>2, AnswerBytes DEF Echoed

LEMMA WSInit ==
  ASSUME W!WSFrameAssumption, W!Init
  PROVE  WSFrameInv
<1>1. /\ frames = <<>> /\ taken = 0 /\ cur_frame = W!NewFrame /\ output = <<>>
      /\ open = TRUE /\ tame = TRUE
  BY DEF W!Init
<1>2. frames \in Seq(Frames) /\ Len(frames) = 0
  BY <1>1, EmptySeq
<1>3. EndOf(frames, 0) = 0
  BY <1>2, EndsRise
<1>4. Follows(frames, 0, taken, cur_frame, open)
  BY <1>1, <1>2, <1>3 DEF Follows
<1>5. output = [i \in 1 .. 0 |-> Echoed(frames[i])]
  BY <1>1
<1>6. \E k \in Nat : /\ Follows(frames, k, taken, cur_frame, open)
                     /\ output = [i \in 1 .. k |-> Echoed(frames[i])]
  <2>1. 0 \in Nat
    OBVIOUS
  <2> QED BY <1>4, <1>5, <2>1
<1>7. taken \in Nat /\ taken <= EndOf(frames, Len(frames))
  BY <1>1, <1>2, <1>3
<1>8. \A i \in 1 .. Len(frames) : W!Tame(frames[i])
  BY <1>2
<1> QED BY <1>1, <1>2, <1>6, <1>7, <1>8 DEF WSFrameInv

LEMMA WSPeerSends ==
  ASSUME W!WSFrameAssumption, WSFrameInv, W!PeerSends
  PROVE  WSFrameInv'
<1>1. PICK f \in Frames : frames' = Append(frames, f) /\ tame' = (tame /\ W!Tame(f))
  BY DEF W!PeerSends
<1>2. UNCHANGED <<taken, cur_frame, output, open>>
  BY DEF W!PeerSends
<1> DEFINE n == Len(frames)
<1>3. /\ frames \in Seq(Frames) /\ taken \in Nat /\ taken <= EndOf(frames, n)
      /\ open \in BOOLEAN /\ tame \in BOOLEAN /\ n \in Nat
  BY LenProperties DEF WSFrameInv
<1>4. /\ frames' \in Seq(Frames) /\ Len(frames') = n + 1 /\ frames'[n + 1] = f
      /\ \A i \in 1 .. n : frames'[i] = frames[i]
  BY <1>1, <1>3, AppendProperties
<1>5. taken <= EndOf(frames', n + 1)
  <2>1. n \in 0 .. n + 1 /\ n + 1 \in 0 .. n + 1 /\ n <= n + 1 /\ n \in 0 .. n
    BY <1>3
  <2>2. EndOf(frames', n) = EndOf(frames, n)
    BY <1>1, <1>3, <2>1, SentStays DEF EndOf
  <2>3. /\ EndOf(frames', n) <= EndOf(frames', n + 1)
        /\ EndOf(frames', n) \in Nat /\ EndOf(frames', n + 1) \in Nat
    BY <1>4, <2>1, EndsRise
  <2> HIDE DEF n
  <2> QED BY <1>3, <2>2, <2>3
<1>6. ASSUME tame'
      PROVE  /\ \A i \in 1 .. n + 1 : W!Tame(frames'[i])
             /\ \E k \in Nat : /\ Follows(frames', k, taken', cur_frame', open')
                               /\ output' = [i \in 1 .. k |-> Echoed(frames'[i])]
  <2>1. tame /\ W!Tame(f)
    BY <1>1, <1>6
  <2>2. \A i \in 1 .. n : W!Tame(frames[i])
    BY <2>1 DEF WSFrameInv
  <2>3. PICK k \in Nat : /\ Follows(frames, k, taken, cur_frame, open)
                         /\ output = [i \in 1 .. k |-> Echoed(frames[i])]
    BY <2>1 DEF WSFrameInv
  <2>4. Follows(frames', k, taken', cur_frame', open')
    BY <1>1, <1>2, <1>3, <2>3, FollowsMore
  <2>5. k <= n
    BY <2>3 DEF Follows
  <2> HIDE DEF n
  <2>6. output' = [i \in 1 .. k |-> Echoed(frames'[i])]
    <3>1. \A i \in 1 .. k : frames'[i] = frames[i]
      BY <1>3, <1>4, <2>5
    <3> QED BY <1>2, <2>3, <3>1
  <2>7. \A i \in 1 .. n + 1 : W!Tame(frames'[i])
    <3>1. \A i \in 1 .. n + 1 : i \in 1 .. n \/ i = n + 1
      BY <1>3
    <3> QED BY <1>4, <2>1, <2>2, <3>1
  <2> QED BY <2>4, <2>6, <2>7
<1>7. taken' \in Nat /\ open' \in BOOLEAN /\ tame' \in BOOLEAN
      /\ taken' <= EndOf(frames', Len(frames'))
  BY <1>1, <1>2, <1>3, <1>4, <1>5
<1> HIDE DEF n
<1> QED BY <1>4, <1>6, <1>7 DEF WSFrameInv

LEMMA WSReads ==
  ASSUME W!WSFrameAssumption, WSFrameInv, W!Reads
  PROVE  WSFrameInv'
<1> DEFINE n == Len(frames)
           o(m) == W!on_read[<<cur_frame,
                               SubSeq(SentOf(frames, n), taken + 1, taken + m)>>]
<1>1. /\ open /\ frames' = frames
      /\ \E m \in 1 .. EndOf(frames, n) - taken :
           /\ taken' = taken + m
           /\ tame' = (tame /\ \A k \in DOMAIN frames :
                                 EndOf(frames, k) \notin taken + 1 .. taken + m - 1)
           /\ cur_frame' = IF o(m).event = "frame" THEN W!NewFrame ELSE o(m).frame
           /\ output' = IF o(m).event # "frame" THEN output
                        ELSE Append(output, W!make_frame_data(Lead \o o(m).data))
           /\ open' = (o(m).event # "close")
  BY SentIs DEF W!Reads, EndOf
<1>2. PICK m \in 1 .. EndOf(frames, n) - taken :
           /\ taken' = taken + m
           /\ tame' = (tame /\ \A k \in DOMAIN frames :
                                 EndOf(frames, k) \notin taken + 1 .. taken + m - 1)
           /\ cur_frame' = IF o(m).event = "frame" THEN W!NewFrame ELSE o(m).frame
           /\ output' = IF o(m).event # "frame" THEN output
                        ELSE Append(output, W!make_frame_data(Lead \o o(m).data))
           /\ open' = (o(m).event # "close")
  BY <1>1
<1> DEFINE r == o(m)
<1>3. /\ frames \in Seq(Frames) /\ taken \in Nat /\ taken <= EndOf(frames, n)
      /\ n \in Nat /\ DOMAIN frames = 1 .. n /\ EndOf(frames, n) \in Nat
  <2>1. frames \in Seq(Frames) /\ taken \in Nat /\ taken <= EndOf(frames, n)
    BY DEF WSFrameInv
  <2>2. n \in Nat /\ DOMAIN frames = 1 .. n /\ n \in 0 .. n
    BY <2>1, LenProperties
  <2> QED BY <2>1, <2>2, EndsRise
<1>4. r = W!on_read[<<cur_frame, SubSeq(SentOf(frames, n), taken + 1, taken + m)>>]
  OBVIOUS
<1>5. /\ cur_frame' = IF r.event = "frame" THEN W!NewFrame ELSE r.frame
      /\ output' = IF r.event # "frame" THEN output
                   ELSE Append(output, W!make_frame_data(Lead \o r.data))
      /\ open' = (r.event # "close")
      /\ taken' = taken + m
  BY <1>2
<1> HIDE DEF o, r, n
<1>6. taken' \in Nat /\ taken' <= EndOf(frames, n) /\ m \in Nat \ {0}
  BY <1>2, <1>3
<1>7. open' \in BOOLEAN /\ tame' \in BOOLEAN
  BY <1>2
<1>8. ASSUME tame'
      PROVE  /\ \A i \in 1 .. n : W!Tame(frames[i])
             /\ \E k \in Nat : /\ Follows(frames, k, taken', cur_frame', open')
                               /\ output' = [i \in 1 .. k |-> Echoed(frames[i])]
  <2>1. /\ tame
        /\ \A i \in 1 .. n : EndOf(frames, i) \notin taken + 1 .. taken + m - 1
    BY <1>2, <1>3, <1>8
  <2>2. \A i \in 1 .. n : W!Tame(frames[i])
    BY <2>1 DEF WSFrameInv, n
  <2>3. PICK k \in Nat : /\ Follows(frames, k, taken, cur_frame, TRUE)
                         /\ output = [i \in 1 .. k |-> Echoed(frames[i])]
    <3>1. PICK k \in Nat : /\ Follows(frames, k, taken, cur_frame, open)
                           /\ output = [i \in 1 .. k |-> Echoed(frames[i])]
      BY <2>1 DEF WSFrameInv
    <3>2. Follows(frames, k, taken, cur_frame, TRUE)
      BY <1>1, <3>1 DEF Follows
    <3> QED BY <3>1, <3>2
  <2> DEFINE j == k + 1
             t == taken + m
  <2>4. /\ j \in 1 .. n
        /\ \/ r.event = "none" /\ Follows(frames, k, t, r.frame, TRUE)
           \/ /\ r.event = "frame" /\ r.data = frames[j].data
              /\ Follows(frames, j, t, W!NewFrame, TRUE)
           \/ r.event = "close" /\ \A d : Follows(frames, k, t, d, FALSE)
    <3>1. t <= EndOf(frames, Len(frames))
      BY <1>5, <1>6 DEF n
    <3>2. /\ \A i \in 1 .. Len(frames) : W!Tame(frames[i])
          /\ \A i \in 1 .. Len(frames) :
               EndOf(frames, i) \notin taken + 1 .. taken + m - 1
          /\ r = W!on_read[<<cur_frame, SubSeq(SentOf(frames, Len(frames)),
                                               taken + 1, taken + m)>>]
      BY <1>4, <2>1, <2>2 DEF n
    <3>3. ReadsNext(frames, k, taken, cur_frame, m, r)
      BY <1>3, <1>6, <2>3, <3>1, <3>2 DEF ReadsNext
    <3>4. FollowsOn(frames, k, taken + m, r)
      BY <3>3, FollowsRead, Zenon
    <3> QED BY <3>4 DEF FollowsOn, n
  <2> HIDE DEF j, t
  <2>5. CASE r.event = "none"
    <3>1. Follows(frames, k, t, r.frame, TRUE)
      BY <2>4, <2>5
    <3>2. cur_frame' = r.frame /\ output' = output /\ open' = TRUE
      BY <1>5, <2>5
    <3> QED BY <1>5, <2>2, <2>3, <3>1, <3>2 DEF t
  <2>6. CASE r.event = "frame"
    <3>1. r.data = frames[j].data /\ Follows(frames, j, t, W!NewFrame, TRUE)
      BY <2>4, <2>6
    <3>2. /\ cur_frame' = W!NewFrame /\ open' = TRUE
          /\ output' = Append(output, W!make_frame_data(Lead \o r.data))
      BY <1>5, <2>6
    <3>3. W!make_frame_data(Lead \o r.data) = Echoed(frames[j])
      <4>1. frames[j] \in Frames
        BY <1>3, <2>4, ElementOfSeq DEF n
      <4> QED BY <3>1, <4>1, EchoBytes
    <3>4. output' = [i \in 1 .. j |-> Echoed(frames[i])]
      <4> DEFINE S == {Echoed(frames[i]) : i \in 1 .. j}
                 u == [i \in 1 .. k |-> Echoed(frames[i])]
                 v == [i \in 1 .. j |-> Echoed(frames[i])]
                 y == Echoed(frames[j])
      <4>1. j \in Nat /\ j = k + 1 /\ \A i \in 1 .. k : i \in 1 .. j
        BY DEF j
      <4>2. u \in [1 .. k -> S] /\ v \in [1 .. j -> S] /\ y \in S
        BY <4>1
      <4>3. u \in Seq(S) /\ Len(u) = k /\ v \in Seq(S) /\ Len(v) = j
        <5> HIDE DEF S, u, v, y
        <5> QED BY <4>1, <4>2, IsSeq
      <4>4. \A i \in 1 .. k : u[i] = v[i]
        BY <4>1
      <4>5. v[j] = y
        BY <4>1
      <4> HIDE DEF S, u, v, y
      <4>6. /\ Append(u, y) \in Seq(S) /\ Len(Append(u, y)) = j
            /\ Append(u, y)[j] = y /\ \A i \in 1 .. k : Append(u, y)[i] = u[i]
        BY <4>1, <4>2, <4>3, AppendProperties
      <4>7. \A i \in 1 .. j : Append(u, y)[i] = v[i]
        <5>1. \A i \in 1 .. j : i \in 1 .. k \/ i = j
          BY <4>1
        <5> QED BY <4>4, <4>5, <4>6, <5>1
      <4>8. Append(u, y) = v
        BY <4>3, <4>6, <4>7, SeqEqual
      <4>9. output' = Append(u, y)
        BY <2>3, <3>2, <3>3 DEF u, y
      <4> QED BY <4>8, <4>9 DEF v
    <3>5. j \in Nat
      BY DEF j
    <3> QED BY <1>5, <2>2, <3>1, <3>2, <3>4, <3>5 DEF t
  <2>7. CASE r.event = "close"
    <3>1. \A d : Follows(frames, k, t, d, FALSE)
      BY <2>4, <2>7
    <3>2. output' = output /\ open' = FALSE
      BY <1>5, <2>7
    <3> QED BY <1>5, <2>2, <2>3, <3>1, <3>2 DEF t
  <2> QED BY <2>4, <2>5, <2>6, <2>7
<1> QED BY <1>1, <1>3, <1>6, <1>7, <1>8 DEF WSFrameInv, n

(* WSFrame counts as FiniteSets does. *)
LEMMA SameCount == \A D : W!Cardinality(D) = Cardinality(D)
  BY Zenon DEF W!Cardinality, Cardinality

LEMMA FirstOnes ==
  ASSUME NEW k \in Nat
  PROVE  W!Cardinality(1 .. k) = k
<1>1. Cardinality(1 .. k) = IF 1 > k THEN 0 ELSE k - 1 + 1
  <2> DEFINE a == 1
  <2>1. a \in Int /\ k \in Int
    OBVIOUS
  <2> HIDE DEF a
  <2>2. Cardinality(a .. k) = IF a > k THEN 0 ELSE k - a + 1
    BY <2>1, FS_Interval
  <2> QED BY <2>2 DEF a
<1>2. (IF 1 > k THEN 0 ELSE k - 1 + 1) = k
  OBVIOUS
<1> QED BY <1>1, <1>2, SameCount

\* Which frames have arrived when k of them have been read.
LEMMA ArrivedIs ==
  ASSUME W!WSFrameAssumption, frames \in Seq(Frames), taken \in Nat,
         open \in BOOLEAN, NEW k, Follows(frames, k, taken, cur_frame, open)
  PROVE  W!Arrived = IF open THEN 1 .. k ELSE 1 .. k + 1
<1> DEFINE n == Len(frames)
           E(i) == EndOf(frames, i)
           Came(i) == taken >= IF frames[i].opcode = W!CLOSE THEN E(i - 1) + 2 ELSE E(i)
           m == IF open THEN k ELSE k + 1
<1>1. W!Arrived = {i \in 1 .. n : Came(i)}
  <2>1. DOMAIN frames = 1 .. n
    BY LenProperties
  <2> QED BY <2>1, SentIs DEF W!Arrived
<1>2. /\ n \in Nat /\ k \in 0 .. n
      /\ \A i \in 0 .. n : E(i) \in Nat
      /\ \A i \in 1 .. n : E(i - 1) + 2 <= E(i)
      /\ \A i, j \in 0 .. n : i <= j => E(i) <= E(j)
  <2>1. n \in Nat /\ k \in 0 .. n
    BY LenProperties DEF Follows
  <2> QED BY <2>1, EndsRise
<1>3. /\ \A i \in 1 .. k : frames[i].opcode # W!CLOSE
      /\ 0 <= taken - E(k)
      /\ open => \/ k = n
                 \/ /\ taken < E(k + 1)
                    /\ frames[k + 1].opcode = W!CLOSE => taken - E(k) < 2
      /\ ~open => /\ k < n /\ frames[k + 1].opcode = W!CLOSE
                  /\ 2 <= taken - E(k) /\ taken <= E(k + 1)
  BY DEF Follows
<1>4. E(k) \in Nat /\ E(k) <= taken
  <2>1. E(k) \in Nat
    BY <1>2
  <2> HIDE DEF E
  <2> QED BY <1>3, <2>1
<1> HIDE DEF E, n
<1>5. ASSUME NEW i \in 1 .. k PROVE Came(i) /\ i \in 1 .. n
  <2>1. i \in 0 .. n /\ k \in 0 .. n /\ i <= k /\ i \in 1 .. n
    BY <1>2
  <2>2. E(i) <= E(k) /\ E(i) \in Nat
    BY <1>2, <2>1
  <2> QED BY <1>3, <1>4, <2>1, <2>2
<1>6. ASSUME ~open PROVE Came(k + 1) /\ k + 1 \in 1 .. n
  <2>1. (k + 1) - 1 = k /\ k + 1 \in 1 .. n
    BY <1>2, <1>3, <1>6
  <2>2. taken >= E(k) + 2
    BY <1>3, <1>4, <1>6
  <2> QED BY <1>3, <1>6, <2>1, <2>2
<1>7. ASSUME NEW i \in 1 .. n, m < i PROVE ~Came(i)
  <2> DEFINE h == i - 1
             l == k + 1
  <2>1. /\ h \in 0 .. n /\ i \in 0 .. n /\ k <= h /\ l \in 0 .. n /\ k < n
        /\ i = l \/ l <= h
    BY <1>2, <1>7
  <2>2. /\ E(h) \in Nat /\ E(i) \in Nat /\ E(l) \in Nat /\ E(h) + 2 <= E(i)
        /\ l <= h => E(l) <= E(h)
    BY <1>2, <2>1
  <2>3. CASE i = l
    <3>1. open /\ h = k
      BY <1>2, <1>7, <2>3
    <3>2. taken < E(l) /\ (frames[l].opcode = W!CLOSE => taken - E(k) < 2)
      BY <1>3, <2>1, <3>1
    <3> HIDE DEF h, l
    <3>3. frames[l].opcode = W!CLOSE => ~(taken >= E(k) + 2)
      BY <1>4, <3>2
    <3>4. ~(taken >= E(l))
      BY <2>2, <3>2
    <3> QED BY <2>3, <3>1, <3>3, <3>4 DEF h
  <2>4. CASE l <= h
    <3>1. taken <= E(l)
      <4>1. open => taken < E(l)
        BY <1>2, <1>3, <2>1
      <4>2. ~open => taken <= E(l)
        BY <1>3
      <4> HIDE DEF l
      <4> QED BY <2>2, <4>1, <4>2
    <3> HIDE DEF l, h
    <3>2. ~(taken >= E(h) + 2) /\ ~(taken >= E(i))
      BY <2>2, <2>4, <3>1
    <3> QED BY <3>2 DEF h
  <2> QED BY <2>1, <2>3, <2>4
<1>8. {i \in 1 .. n : Came(i)} = 1 .. m
  <2>1. ASSUME NEW i \in 1 .. m PROVE i \in 1 .. n /\ Came(i)
    <3>1. CASE i \in 1 .. k
      BY <1>5, <3>1
    <3>2. CASE ~(i \in 1 .. k)
      <4>1. ~open /\ i = k + 1
        BY <1>2, <3>2
      <4> QED BY <1>6, <4>1
    <3> QED BY <3>1, <3>2
  <2>2. ASSUME NEW i \in 1 .. n, Came(i) PROVE i \in 1 .. m
    <3>1. ~(m < i)
      BY <1>7, <2>2
    <3> QED BY <1>2, <3>1
  <2> HIDE DEF Came, m
  <2> QED BY <2>1, <2>2
<1> QED BY <1>1, <1>8

\* The invariant says enough.
LEMMA WSFrameInvArrives ==
  ASSUME W!WSFrameAssumption, WSFrameInv
  PROVE  W!FramesArrive
<1> SUFFICES ASSUME tame PROVE W!FramesArrive
  BY DEF W!FramesArrive
<1> DEFINE texts == {i \in W!Arrived : frames[i].opcode # W!CLOSE}
<1>1. PICK k \in Nat : /\ Follows(frames, k, taken, cur_frame, open)
                       /\ output = [i \in 1 .. k |-> Echoed(frames[i])]
  BY DEF WSFrameInv
<1>2. W!Arrived = IF open THEN 1 .. k ELSE 1 .. k + 1
  BY <1>1, ArrivedIs DEF WSFrameInv
<1>3. /\ \A i \in 1 .. k : frames[i].opcode # W!CLOSE
      /\ ~open => frames[k + 1].opcode = W!CLOSE
  BY <1>1 DEF Follows
<1>4. texts = 1 .. k
  <2>1. CASE open
    BY <1>2, <1>3, <2>1
  <2>2. CASE ~open
    <3>1. 1 .. k + 1 = (1 .. k) \cup {k + 1}
      OBVIOUS
    <3>2. W!Arrived = (1 .. k) \cup {k + 1}
      BY <1>2, <2>2, <3>1
    <3> QED BY <1>3, <2>2, <3>2
  <2> QED BY <2>1, <2>2
<1>5. open <=> texts = W!Arrived
  <2>1. k + 1 \in 1 .. k + 1 /\ k + 1 \notin 1 .. k
    OBVIOUS
  <2> HIDE DEF texts
  <2> QED BY <1>2, <1>4, <2>1
<1> HIDE DEF texts
<1>6. Len(output) = W!Cardinality(texts)
  <2> DEFINE S == {Echoed(frames[i]) : i \in 1 .. k}
  <2>1. output \in [1 .. k -> S]
    BY <1>1
  <2> HIDE DEF S
  <2>2. Len(output) = k
    BY <2>1, IsSeq
  <2> QED BY <1>4, <2>2, FirstOnes
<1>7. ASSUME NEW i \in texts
      PROVE  output[W!Cardinality({j \in texts : j <= i})]
               = W!FrameBytes(W!Text, <<>>, Lead \o frames[i].data)
  <2>1. i \in 1 .. k
    BY <1>4
  <2>2. {j \in texts : j <= i} = 1 .. i /\ i \in Nat
    BY <1>4, <2>1
  <2>3. W!Cardinality({j \in texts : j <= i}) = i
    BY <2>2, FirstOnes
  <2>4. output[i] = Echoed(frames[i])
    BY <1>1, <2>1
  <2> QED BY <2>3, <2>4 DEF Echoed
<1> QED BY <1>5, <1>6, <1>7 DEF W!FramesArrive, texts

\* WSFrame.on_read and make_frame_data: of frames masked with a key that does
\* not begin with zero, with data in them, each is answered by the read that
\* completes it, with its echo as RFC 6455 frames it, and a close closes, for any
\* number of frames of any opcode, key and length, and any cuts.
THEOREM FramesAreAnswered == W!Spec => []FramesArrive
<1>1. W!Init => WSFrameInv
  BY WSInit, FramesAssumption
<1>2. WSFrameInv /\ [W!Next]_W!vars => WSFrameInv'
  <2> SUFFICES ASSUME WSFrameInv, [W!Next]_W!vars PROVE WSFrameInv'
    OBVIOUS
  <2>1. CASE W!PeerSends
    BY <2>1, WSPeerSends, FramesAssumption
  <2>2. CASE W!Reads
    BY <2>2, WSReads, FramesAssumption
  <2>3. CASE UNCHANGED W!vars
    BY <2>3 DEF WSFrameInv, W!vars
  <2> QED BY <2>1, <2>2, <2>3 DEF W!Next
<1>3. WSFrameInv => FramesArrive
  BY WSFrameInvArrives, FramesAssumption DEF FramesArrive
<1> QED BY <1>1, <1>2, <1>3, PTL DEF W!Spec

=============================================================================
