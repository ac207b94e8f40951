----------------------------- MODULE AesCtrProofs -----------------------------
(***************************************************************************)
(* Proofs about AesCtr.tla, for any size of block and byte, any key,       *)
(* caller's array and lengths, and any block cipher.                       *)
(***************************************************************************)
EXTENDS AesCtr, SequenceTheorems, WellFoundedInduction, TLAPS

Blocks == pt_length \div BLK_BYTES
Rest   == pt_length % BLK_BYTES

LEMMA Division ==
  ASSUME NEW n \in Nat
  PROVE  /\ n \div BLK_BYTES \in Nat /\ n % BLK_BYTES \in 0 .. BLK_BYTES - 1
         /\ n = (n \div BLK_BYTES) * BLK_BYTES + (n % BLK_BYTES)
         /\ n <= BLK_BYTES => n \div BLK_BYTES <= 1
         /\ n <= BLK_BYTES /\ n \div BLK_BYTES = 1 => n % BLK_BYTES = 0
BY AesCtrAssumption

LEMMA Product ==
  ASSUME NEW n \in Nat, NEW m \in Nat, n < m
  PROVE  /\ n * BLK_BYTES \in Nat /\ (n + 1) * BLK_BYTES = n * BLK_BYTES + BLK_BYTES
         /\ (n + 1) * BLK_BYTES <= m * BLK_BYTES
<1> DEFINE d == m - n - 1
<1>1. d \in Nat /\ m = n + 1 + d
  OBVIOUS
<1>2. /\ d * BLK_BYTES \in Nat /\ n * BLK_BYTES \in Nat /\ BLK_BYTES \in Nat
      /\ (n + 1 + d) * BLK_BYTES = n * BLK_BYTES + BLK_BYTES + d * BLK_BYTES
      /\ (n + 1) * BLK_BYTES = n * BLK_BYTES + BLK_BYTES
  BY <1>1, AesCtrAssumption
<1> HIDE DEF d
<1>. QED BY <1>1, <1>2

LEMMA KeyStreamSeq ==
  ASSUME CipherMakesBlocks,
         NEW a \in Array, NEW k \in Key, NEW n \in 0 .. BLK_BYTES
  PROVE  KeyStream(a, k, n) \in Seq(Byte) /\ Len(KeyStream(a, k, n)) = n
<1>1. BlockOf(a) \in Block
  BY AesCtrAssumption DEF BlockOf, Array, Block
<1>2. Cipher(BlockOf(a), k) \in Block
  BY <1>1 DEF CipherMakesBlocks
<1>3. Cipher(BlockOf(a), k) \in Seq(Byte) /\ Len(Cipher(BlockOf(a), k)) = BLK_BYTES
  BY <1>2, AesCtrAssumption DEF Block
<1>. QED BY <1>3, AesCtrAssumption DEF KeyStream

LEMMA IncrementKeepsType ==
  ASSUME NEW a \in Array
  PROVE  IncrementCount(a) \in Array
BY AesCtrAssumption DEF IncrementCount, Array, Byte

------------------------------------------------------------------------------
(* The number in the array *)

(* A set of numbers has a least one: the form of induction used here.     *)
LEMMA LeastNumber ==
  ASSUME NEW T, T \subseteq Nat, T # {}
  PROVE  \E x \in T : \A y \in T : x <= y
<1> DEFINE R == OpToRel(<, Nat)
<1>1. \A x, y \in Nat : <<x, y>> \in R <=> x < y
  BY DEF OpToRel
<1>2. IsWellFoundedOn(R, Nat)
  BY NatLessThanWellFounded
<1> HIDE DEF R
<1>3. PICK x \in T : \A y \in T : ~ (<<y, x>> \in R)
  BY <1>2, WFMin
<1>4. x \in Nat /\ \A y \in T : y \in Nat /\ ~ (y < x)
  BY <1>1, <1>3, Zenon
<1>. QED BY <1>4, SMT

(* Advance over bytes 1 to BLK_BYTES, with its carries given a name.       *)
CarryEq(a, n, f) ==
  f = [j \in 0 .. BLK_BYTES |->
         IF j = BLK_BYTES THEN n ELSE (a[j + 1] + f[j + 1]) \div ByteMod]

Carry(a, n) == CHOOSE f : CarryEq(a, n, f)

LEMMA AdvanceCarry ==
  ASSUME NEW a \in Array, NEW n \in Nat
  PROVE  Advance(a, 1, BLK_BYTES, n) = [j \in 0 .. BLK_BYTES |->
         IF j \in 1 .. BLK_BYTES THEN (a[j] + Carry(a, n)[j]) % ByteMod ELSE a[j]]
<1>1. 1 - 1 = 0
  OBVIOUS
<1>. QED BY <1>1 DEF Advance, Carry, CarryEq, Array

LEMMA ByteQuotient ==
  ASSUME NEW q \in Nat, NEW r \in 0 .. ByteMod - 1
  PROVE  (q * ByteMod + r) \div ByteMod = q /\ (q * ByteMod + r) % ByteMod = r
BY AesCtrAssumption

LEMMA ByteDivision ==
  ASSUME NEW x \in Nat
  PROVE  /\ x \div ByteMod \in Nat /\ x % ByteMod \in 0 .. ByteMod - 1
         /\ x = (x \div ByteMod) * ByteMod + (x % ByteMod)
         /\ (x \div ByteMod) * ByteMod \in Nat
BY AesCtrAssumption

LEMMA ByteOneMore ==
  ASSUME NEW x \in Nat
  PROVE  /\ x % ByteMod = ByteMod - 1 =>
              (x + 1) \div ByteMod = x \div ByteMod + 1 /\ (x + 1) % ByteMod = 0
         /\ x % ByteMod # ByteMod - 1 =>
              (x + 1) \div ByteMod = x \div ByteMod /\ (x + 1) % ByteMod = (x % ByteMod) + 1
<1> DEFINE q == x \div ByteMod
           r == x % ByteMod
           p == q * ByteMod
<1>1. q \in Nat /\ r \in 0 .. ByteMod - 1 /\ p \in Nat /\ x = p + r
  BY ByteDivision
<1>2. ByteMod \in Nat /\ ByteMod > 1 /\ (q + 1) * ByteMod = p + ByteMod
  BY <1>1, AesCtrAssumption
<1>3. CASE r = ByteMod - 1
  <2>1. x + 1 = (q + 1) * ByteMod + 0 /\ q + 1 \in Nat /\ 0 \in 0 .. ByteMod - 1
    <3> HIDE DEF q, r, p
    <3>. QED BY <1>1, <1>2, <1>3
  <2>. QED BY <1>3, <2>1, ByteQuotient
<1>4. CASE r # ByteMod - 1
  <2>1. x + 1 = p + (r + 1) /\ r + 1 \in 0 .. ByteMod - 1
    <3> HIDE DEF q, r, p
    <3>. QED BY <1>1, <1>2, <1>4
  <2>2. (q * ByteMod + (r + 1)) \div ByteMod = q /\ (q * ByteMod + (r + 1)) % ByteMod = r + 1
    <3> HIDE DEF q, r
    <3>. QED BY <1>1, <2>1, ByteQuotient
  <2>. QED BY <1>4, <2>1, <2>2
<1>. QED BY <1>3, <1>4

(* Induction over the bytes of an array, from the last to the first: D is  *)
(* the set of the indexes a claim holds for.                               *)
LEMMA FromTheLastByte ==
  ASSUME NEW D, BLK_BYTES \in D,
         \A j \in 0 .. BLK_BYTES - 1 : j + 1 \in D => j \in D
  PROVE  \A j \in 0 .. BLK_BYTES : j \in D
<1> DEFINE T == {d \in 0 .. BLK_BYTES : BLK_BYTES - d \notin D}
<1>1. BLK_BYTES \in Nat
  BY AesCtrAssumption
<1>2. ASSUME T # {} PROVE FALSE
  <2>1. PICK d \in T : \A e \in T : d <= e
    <3>1. T \subseteq Nat
      BY <1>1
    <3> HIDE DEF T
    <3>. QED BY <1>2, <3>1, LeastNumber
  <2>2. d \in 0 .. BLK_BYTES /\ d # 0 /\ BLK_BYTES - d \notin D
    BY <1>1
  <2>3. d - 1 \in 0 .. BLK_BYTES /\ d - 1 \notin T
    BY <1>1, <2>1, <2>2
  <2>4. BLK_BYTES - d \in 0 .. BLK_BYTES - 1 /\ BLK_BYTES - (d - 1) = (BLK_BYTES - d) + 1
    BY <1>1, <2>2
  <2>. QED BY <2>2, <2>3, <2>4
<1>3. ASSUME NEW j \in 0 .. BLK_BYTES PROVE j \in D
  <2>1. BLK_BYTES - j \in 0 .. BLK_BYTES /\ BLK_BYTES - (BLK_BYTES - j) = j
    BY <1>1
  <2>. QED BY <1>2, <2>1
<1>. QED BY <1>3

(* The carries exist and follow their definition: the equation has a       *)
(* solution from every byte on.                                            *)
LEMMA CarryDefined ==
  ASSUME NEW a \in Array, NEW n \in Nat
  PROVE  /\ Carry(a, n)[BLK_BYTES] = n
         /\ \A j \in 0 .. BLK_BYTES - 1 :
              Carry(a, n)[j] = (a[j + 1] + Carry(a, n)[j + 1]) \div ByteMod
<1> DEFINE E(k, g) == /\ g = [j \in k .. BLK_BYTES |-> g[j]]
                      /\ g[BLK_BYTES] = n
                      /\ \A j \in k .. BLK_BYTES - 1 :
                           g[j] = (a[j + 1] + g[j + 1]) \div ByteMod
           D == {k \in 0 .. BLK_BYTES : \E g : E(k, g)}
<1>0. BLK_BYTES \in Nat /\ BLK_BYTES > 0
  BY AesCtrAssumption
<1>1. BLK_BYTES \in D
  <2> DEFINE g == [j \in BLK_BYTES .. BLK_BYTES |-> n]
  <2>1. g[BLK_BYTES] = n /\ \A j : ~ (j \in BLK_BYTES .. BLK_BYTES - 1)
    BY <1>0
  <2>2. g = [j \in BLK_BYTES .. BLK_BYTES |-> g[j]]
    OBVIOUS
  <2>3. E(BLK_BYTES, g)
    <3> HIDE DEF g
    <3>. QED BY <2>1, <2>2
  <2>. QED BY <1>0, <2>3
<1>2. ASSUME NEW k \in 0 .. BLK_BYTES - 1, k + 1 \in D PROVE k \in D
  <2>1. PICK g : E(k + 1, g)
    BY <1>2
  <2> DEFINE h == [j \in k .. BLK_BYTES |->
                     IF j = k THEN (a[k + 1] + g[k + 1]) \div ByteMod ELSE g[j]]
  <2>2. h[BLK_BYTES] = n /\ h[k] = (a[k + 1] + g[k + 1]) \div ByteMod
    <3>1. k \in k .. BLK_BYTES /\ BLK_BYTES \in k .. BLK_BYTES /\ k # BLK_BYTES
      BY <1>0
    <3>. QED BY <2>1, <3>1
  <2>3. \A j \in k + 1 .. BLK_BYTES : h[j] = g[j]
    BY <1>0
  <2>4. ASSUME NEW j \in k .. BLK_BYTES - 1 PROVE h[j] = (a[j + 1] + h[j + 1]) \div ByteMod
    <3>1. j + 1 \in k + 1 .. BLK_BYTES
      BY <1>0
    <3>2. CASE j = k
      BY <2>2, <2>3, <3>1, <3>2
    <3>3. CASE j # k
      <4>1. j \in k + 1 .. BLK_BYTES - 1 /\ j \in k + 1 .. BLK_BYTES
        BY <1>0, <3>3
      <4> HIDE DEF h
      <4>. QED BY <2>1, <2>3, <3>1, <4>1
    <3>. QED BY <3>2, <3>3
  <2>5. h = [j \in k .. BLK_BYTES |-> h[j]]
    OBVIOUS
  <2>6. E(k, h)
    <3> HIDE DEF h
    <3>. QED BY <2>2, <2>4, <2>5
  <2>7. k \in 0 .. BLK_BYTES
    BY <1>0
  <2>. QED BY <2>6, <2>7
<1>3. 0 \in D
  <2>1. 0 \in 0 .. BLK_BYTES
    BY <1>0
  <2> HIDE DEF D
  <2>. QED BY <1>1, <1>2, <2>1, FromTheLastByte
<1>4. PICK g : E(0, g)
  BY <1>3
<1>5. CarryEq(a, n, g)
  <2>1. \A j \in 0 .. BLK_BYTES :
          g[j] = IF j = BLK_BYTES THEN n ELSE (a[j + 1] + g[j + 1]) \div ByteMod
    <3>1. \A j \in 0 .. BLK_BYTES : j # BLK_BYTES => j \in 0 .. BLK_BYTES - 1
      BY <1>0
    <3>. QED BY <1>4, <3>1
  <2>. QED BY <1>4, <2>1 DEF CarryEq
<1>6. CarryEq(a, n, Carry(a, n))
  BY <1>5 DEF Carry
<1> DEFINE c == Carry(a, n)
<1>7. \A j \in 0 .. BLK_BYTES :
        c[j] = IF j = BLK_BYTES THEN n ELSE (a[j + 1] + c[j + 1]) \div ByteMod
  <2>1. c = [j \in 0 .. BLK_BYTES |->
               IF j = BLK_BYTES THEN n ELSE (a[j + 1] + c[j + 1]) \div ByteMod]
    BY <1>6 DEF CarryEq
  <2> HIDE DEF c
  <2>. QED BY <2>1
<1> HIDE DEF c
<1>8. c[BLK_BYTES] = n
  BY <1>0, <1>7
<1>9. ASSUME NEW j \in 0 .. BLK_BYTES - 1 PROVE c[j] = (a[j + 1] + c[j + 1]) \div ByteMod
  <2>1. j \in 0 .. BLK_BYTES /\ j # BLK_BYTES
    BY <1>0
  <2>. QED BY <1>7, <2>1
<1>. QED BY <1>8, <1>9 DEF c

LEMMA CarryIsNat ==
  ASSUME NEW a \in Array, NEW n \in Nat
  PROVE  \A j \in 0 .. BLK_BYTES : a[j] \in Nat /\ Carry(a, n)[j] \in Nat
<1> DEFINE D == {j \in 0 .. BLK_BYTES : Carry(a, n)[j] \in Nat}
<1>0. BLK_BYTES \in Nat /\ \A j \in 0 .. BLK_BYTES : a[j] \in Nat
  BY AesCtrAssumption DEF Array, Byte
<1>1. BLK_BYTES \in D
  BY <1>0, CarryDefined
<1>2. ASSUME NEW j \in 0 .. BLK_BYTES - 1, j + 1 \in D PROVE j \in D
  <2>1. j \in 0 .. BLK_BYTES /\ a[j + 1] + Carry(a, n)[j + 1] \in Nat
    BY <1>0, <1>2
  <2>2. (a[j + 1] + Carry(a, n)[j + 1]) \div ByteMod \in Nat
    BY <2>1, ByteDivision
  <2>. QED BY <2>1, <2>2, CarryDefined
<1>3. \A j \in 0 .. BLK_BYTES : j \in D
  <2> HIDE DEF D
  <2>. QED BY <1>1, <1>2, FromTheLastByte
<1>. QED BY <1>0, <1>3

(* What advancing by n makes of an array.                                  *)
Moved(a, n) == Advance(a, 1, BLK_BYTES, n)

LEMMA MovedType ==
  ASSUME NEW a \in Array, NEW n \in Nat
  PROVE  Moved(a, n) \in Array
<1>1. ASSUME NEW j \in 0 .. BLK_BYTES
      PROVE  a[j] \in Byte /\ (a[j] + Carry(a, n)[j]) % ByteMod \in Byte
  <2>1. a[j] + Carry(a, n)[j] \in Nat
    BY CarryIsNat
  <2>. QED BY <2>1, ByteDivision DEF Array, Byte
<1>. QED BY <1>1, AdvanceCarry, ZenonT(60) DEF Moved, Array

LEMMA MovedByNothing ==
  ASSUME NEW a \in Array
  PROVE  Moved(a, 0) = a
<1> DEFINE D == {j \in 0 .. BLK_BYTES : Carry(a, 0)[j] = 0}
<1>0. BLK_BYTES \in Nat /\ \A j \in 0 .. BLK_BYTES : a[j] \in 0 .. ByteMod - 1
  BY AesCtrAssumption DEF Array, Byte
<1>1. ASSUME NEW x \in 0 .. ByteMod - 1 PROVE (x + 0) \div ByteMod = 0 /\ (x + 0) % ByteMod = x
  BY AesCtrAssumption
<1>2. BLK_BYTES \in D
  BY <1>0, CarryDefined
<1>3. ASSUME NEW j \in 0 .. BLK_BYTES - 1, j + 1 \in D PROVE j \in D
  <2>1. j \in 0 .. BLK_BYTES /\ j + 1 \in 0 .. BLK_BYTES
    BY <1>0
  <2>2. Carry(a, 0)[j] = (a[j + 1] + 0) \div ByteMod
    BY <1>3, CarryDefined
  <2>. QED BY <1>0, <1>1, <2>1, <2>2
<1>4. \A j \in 0 .. BLK_BYTES : j \in D
  <2> HIDE DEF D
  <2>. QED BY <1>2, <1>3, FromTheLastByte
<1>5. \A j \in 0 .. BLK_BYTES : (a[j] + Carry(a, 0)[j]) % ByteMod = a[j]
  <2>1. ASSUME NEW j \in 0 .. BLK_BYTES PROVE (a[j] + Carry(a, 0)[j]) % ByteMod = a[j]
    <3>1. Carry(a, 0)[j] = 0
      BY <1>4
    <3>. QED BY <1>0, <1>1, <3>1
  <2>. QED BY <2>1
<1>6. Moved(a, 0) = [j \in 0 .. BLK_BYTES |->
        IF j \in 1 .. BLK_BYTES THEN (a[j] + Carry(a, 0)[j]) % ByteMod ELSE a[j]]
  BY AdvanceCarry DEF Moved
<1>7. a = [j \in 0 .. BLK_BYTES |-> a[j]]
  BY DEF Array
<1>. QED BY <1>5, <1>6, <1>7

(* increment_count adds one to the number in bytes 1 to BLK_BYTES: by      *)
(* induction a carry into a byte grows exactly when the bytes behind it    *)
(* are all at their largest value.                                         *)
LEMMA IncrementMoves ==
  ASSUME NEW a \in Array, NEW n \in Nat
  PROVE  IncrementCount(Moved(a, n)) = Moved(a, n + 1)
<1> DEFINE v == Moved(a, n)
           c == Carry(a, n)
           d == Carry(a, n + 1)
           Full(j) == \A l \in j + 1 .. BLK_BYTES : v[l] = ByteMod - 1
           one(j) == IF Full(j) THEN 1 ELSE 0
           D == {j \in 0 .. BLK_BYTES : d[j] = c[j] + one(j)}
<1>0. BLK_BYTES \in Nat /\ BLK_BYTES > 0 /\ n + 1 \in Nat /\ ByteMod \in Nat /\ ByteMod > 1
  BY AesCtrAssumption
<1>1. \A j \in 1 .. BLK_BYTES : v[j] = (a[j] + c[j]) % ByteMod
  BY <1>0, AdvanceCarry DEF Moved
<1>2. \A j \in 0 .. BLK_BYTES : a[j] + c[j] \in Nat /\ a[j] \in Nat /\ c[j] \in Nat
  BY CarryIsNat
<1>3. ASSUME NEW x \in Nat, NEW e \in {0, 1}
      PROVE  /\ (x + e) % ByteMod = (IF e = 1 THEN ((x % ByteMod) + 1) % ByteMod ELSE x % ByteMod)
             /\ (x + e) \div ByteMod
                  = (x \div ByteMod) + (IF e = 1 /\ x % ByteMod = ByteMod - 1 THEN 1 ELSE 0)
  <2>1. ASSUME NEW y \in 0 .. ByteMod - 1, y # ByteMod - 1 PROVE (y + 1) % ByteMod = y + 1
    BY <1>0, <2>1
  <2>2. ASSUME NEW y \in 0 .. ByteMod - 1, y = ByteMod - 1 PROVE (y + 1) % ByteMod = 0
    BY <1>0, <2>2
  <2>3. x % ByteMod \in 0 .. ByteMod - 1 /\ x \div ByteMod \in Nat
    BY ByteDivision
  <2>4. CASE e = 0
    BY <2>3, <2>4
  <2>5. CASE e = 1
    BY <2>1, <2>2, <2>3, <2>5, ByteOneMore
  <2>. QED BY <2>4, <2>5
<1>4. \A j \in 0 .. BLK_BYTES : one(j) \in {0, 1}
  OBVIOUS
<1>5. BLK_BYTES \in D
  <2>1. c[BLK_BYTES] = n /\ d[BLK_BYTES] = n + 1
    BY <1>0, CarryDefined
  <2>2. one(BLK_BYTES) = 1
    BY <1>0
  <2>. QED BY <1>0, <2>1, <2>2
<1>6. ASSUME NEW j \in 0 .. BLK_BYTES - 1, j + 1 \in D PROVE j \in D
  <2> DEFINE x == a[j + 1] + c[j + 1]
  <2>1. j \in 0 .. BLK_BYTES /\ j + 1 \in 1 .. BLK_BYTES /\ j + 1 \in 0 .. BLK_BYTES
    BY <1>0
  <2>2. x \in Nat /\ c[j] = x \div ByteMod /\ v[j + 1] = x % ByteMod
    BY <1>1, <1>2, <2>1, CarryDefined
  <2>3. d[j] = (x + one(j + 1)) \div ByteMod
    <3>1. d[j] = (a[j + 1] + d[j + 1]) \div ByteMod
      BY <1>0, CarryDefined
    <3>2. a[j + 1] + d[j + 1] = x + one(j + 1)
      <4>1. d[j + 1] = c[j + 1] + one(j + 1) /\ one(j + 1) \in {0, 1}
        BY <1>6, <1>4, <2>1
      <4> HIDE DEF one, c, d
      <4>. QED BY <1>2, <2>1, <4>1
    <3>. QED BY <3>1, <3>2
  <2>4. Full(j) <=> Full(j + 1) /\ v[j + 1] = ByteMod - 1
    <3>1. j + 1 .. BLK_BYTES = (j + 1 + 1 .. BLK_BYTES) \union {j + 1}
      BY <1>0, <2>1
    <3> HIDE DEF v
    <3>. QED BY <3>1
  <2>5. one(j) = IF one(j + 1) = 1 /\ x % ByteMod = ByteMod - 1 THEN 1 ELSE 0
    <3> HIDE DEF Full, x
    <3>. QED BY <2>2, <2>4
  <2>6. d[j] = c[j] + one(j)
    <3> HIDE DEF one, x, c, d
    <3>. QED BY <1>3, <1>4, <2>1, <2>2, <2>3, <2>5
  <2>. QED BY <2>1, <2>6
<1>7. \A j \in 0 .. BLK_BYTES : d[j] = c[j] + one(j)
  <2>1. \A j \in 0 .. BLK_BYTES : j \in D
    <3> HIDE DEF D
    <3>. QED BY <1>5, <1>6, FromTheLastByte
  <2>. QED BY <2>1
<1>8. ASSUME NEW j \in 1 .. BLK_BYTES
      PROVE  (IF Full(j) THEN (v[j] + 1) % ByteMod ELSE v[j]) = (a[j] + d[j]) % ByteMod
  <2> DEFINE x == a[j] + c[j]
  <2>1. j \in 0 .. BLK_BYTES /\ x \in Nat /\ v[j] = x % ByteMod
    BY <1>0, <1>1, <1>2
  <2>2. a[j] + d[j] = x + one(j) /\ one(j) \in {0, 1}
    <3>1. d[j] = c[j] + one(j) /\ one(j) \in {0, 1}
      BY <1>4, <1>7, <2>1
    <3> HIDE DEF one, c, d
    <3>. QED BY <1>2, <2>1, <3>1
  <2>3. Full(j) <=> one(j) = 1
    <3> HIDE DEF Full
    <3>. QED OBVIOUS
  <2> HIDE DEF one, x, d, Full
  <2>. QED BY <1>3, <2>1, <2>2, <2>3
<1>9. /\ Moved(a, n + 1) = [j \in 0 .. BLK_BYTES |->
            IF j \in 1 .. BLK_BYTES THEN (a[j] + d[j]) % ByteMod ELSE a[j]]
      /\ v[0] = a[0]
  BY <1>0, AdvanceCarry DEF Moved
<1>10. IncrementCount(v) = [j \in 0 .. BLK_BYTES |->
         IF j \in 1 .. BLK_BYTES THEN IF Full(j) THEN (v[j] + 1) % ByteMod ELSE v[j] ELSE v[j]]
  <2> HIDE DEF v
  <2>1. \A j \in 0 .. BLK_BYTES : j > 0 <=> j \in 1 .. BLK_BYTES
    BY <1>0
  <2>. QED BY <2>1 DEF IncrementCount
<1>11. \A j \in 0 .. BLK_BYTES : j \notin 1 .. BLK_BYTES => j = 0
  BY <1>0
<1> DEFINE old(j) == IF j \in 1 .. BLK_BYTES THEN IF Full(j) THEN (v[j] + 1) % ByteMod ELSE v[j] ELSE v[j]
           new(j) == IF j \in 1 .. BLK_BYTES THEN (a[j] + d[j]) % ByteMod ELSE a[j]
<1>12. \A j \in 0 .. BLK_BYTES : old(j) = new(j)
  <2> HIDE DEF v, d, Full
  <2>. QED BY <1>8, <1>9, <1>11
<1>13. IncrementCount(v) = [j \in 0 .. BLK_BYTES |-> old(j)] /\ Moved(a, n + 1) = [j \in 0 .. BLK_BYTES |-> new(j)]
  BY <1>9, <1>10
<1> HIDE DEF old, new
<1>14. IncrementCount(v) = Moved(a, n + 1)
  <2> HIDE DEF v
  <2>. QED BY <1>12, <1>13
<1>. QED BY <1>14

------------------------------------------------------------------------------
(* The keystream *)

LEMMA BlockIndex ==
  ASSUME NEW q \in Nat, NEW n \in 0 .. BLK_BYTES
  PROVE  /\ q * BLK_BYTES \in Nat
         /\ n < BLK_BYTES => (q * BLK_BYTES + n) \div BLK_BYTES = q
         /\ n = BLK_BYTES => (q * BLK_BYTES + n) \div BLK_BYTES = q + 1
<1>1. BLK_BYTES \in Nat /\ BLK_BYTES > 0 /\ q * BLK_BYTES \in Nat
  BY AesCtrAssumption
<1>2. ASSUME NEW p \in Nat, NEW r \in 0 .. BLK_BYTES - 1
      PROVE  (p * BLK_BYTES + r) \div BLK_BYTES = p
  BY AesCtrAssumption
<1>3. CASE n < BLK_BYTES
  BY <1>1, <1>2, <1>3
<1>4. CASE n = BLK_BYTES
  <2>1. q * BLK_BYTES + n = (q + 1) * BLK_BYTES + 0 /\ 0 \in 0 .. BLK_BYTES - 1 /\ q + 1 \in Nat
    BY <1>1, <1>4, Product
  <2>. QED BY <1>1, <1>2, <1>4, <2>1
<1>. QED BY <1>1, <1>3, <1>4

(* Where block b of s is compared with the keystream of at[b].             *)
Portion(s, b) ==
  IF Len(s) - b * BLK_BYTES < BLK_BYTES THEN Len(s) - b * BLK_BYTES ELSE BLK_BYTES

BlockRight(s, at, b) ==
  SubSeq(s, b * BLK_BYTES + 1, b * BLK_BYTES + Portion(s, b))
    = KeyStream(at[b], key_schedule, Portion(s, b))

LEMMA StreamOfBlocks ==
  ASSUME NEW s, NEW at
  PROVE  IsStream(s, at) <=>
           \A b \in 0 .. Len(s) \div BLK_BYTES : BlockRight(s, at, b)
BY DEF IsStream, BlockRight, Portion

(* A stream of whole blocks goes on with the next block, or its start.     *)
LEMMA StreamGoesOn ==
  ASSUME CipherMakesBlocks, key_schedule \in Key,
         NEW at, \A b \in Nat : at[b] \in Array,
         NEW q \in Nat, NEW n \in 0 .. BLK_BYTES,
         NEW s \in Seq(Byte), Len(s) = q * BLK_BYTES, IsStream(s, at)
  PROVE  IsStream(s \o KeyStream(at[q], key_schedule, n), at)
<1> DEFINE t == KeyStream(at[q], key_schedule, n)
           u == s \o t
<1>1. BLK_BYTES \in Nat /\ BLK_BYTES > 0 /\ q * BLK_BYTES \in Nat
  BY AesCtrAssumption
<1>2. t \in Seq(Byte) /\ Len(t) = n
  BY KeyStreamSeq
<1>3. /\ u \in Seq(Byte) /\ Len(u) = q * BLK_BYTES + n
      /\ \A p \in 1 .. Len(s) + Len(t) : u[p] = IF p <= Len(s) THEN s[p] ELSE t[p - Len(s)]
  BY <1>2, ConcatProperties
<1>4. ASSUME NEW b \in 0 .. Len(u) \div BLK_BYTES
      PROVE  BlockRight(u, at, b)
  <2>1. b \in Nat /\ (b < q \/ b = q \/ (b = q + 1 /\ n = BLK_BYTES))
    <3>1. CASE n < BLK_BYTES
      <4>1. Len(u) \div BLK_BYTES = q
        BY <1>3, <3>1, BlockIndex
      <4>. QED BY <4>1
    <3>2. CASE n = BLK_BYTES
      <4>1. Len(u) \div BLK_BYTES = q + 1
        BY <1>3, <3>2, BlockIndex
      <4>. QED BY <3>2, <4>1
    <3>. QED BY <1>1, <3>1, <3>2
  <2> HIDE DEF u, t
  <2>2. CASE b < q
    <3> DEFINE o == b * BLK_BYTES
    <3>1. o \in Nat /\ o + BLK_BYTES <= q * BLK_BYTES
      BY <2>1, <2>2, Product
    <3>2. Portion(u, b) = BLK_BYTES /\ Portion(s, b) = BLK_BYTES
      <4> HIDE DEF o
      <4>1. Len(u) - o >= BLK_BYTES /\ Len(s) - o >= BLK_BYTES
        BY <1>1, <1>3, <3>1
      <4>2. Len(u) - o \in Int /\ Len(s) - o \in Int
        BY <1>1, <1>3, <3>1
      <4>. QED BY <1>1, <4>1, <4>2 DEF Portion, o
    <3>3. BlockRight(s, at, b)
      <4>1. (q * BLK_BYTES + 0) \div BLK_BYTES = q
        BY <1>1, BlockIndex
      <4>2. b \in 0 .. Len(s) \div BLK_BYTES
        BY <1>1, <2>1, <2>2, <4>1
      <4>. QED BY <4>2, StreamOfBlocks
    <3>4. SubSeq(u, o + 1, o + BLK_BYTES) = SubSeq(s, o + 1, o + BLK_BYTES)
      <4> HIDE DEF o
      <4>1. o + 1 \in 1 .. Len(s) /\ o + BLK_BYTES \in 1 .. Len(s)
        BY <1>1, <3>1
      <4>. QED BY <1>2, <4>1, SubSeqOfConcat1 DEF u
    <3>. QED BY <3>2, <3>3, <3>4 DEF BlockRight
  <2>3. CASE b = q
    <3>1. Portion(u, b) = n
      <4> DEFINE o == q * BLK_BYTES
      <4>1. Len(u) - o = n
        <5> HIDE DEF o
        <5>. QED BY <1>1, <1>3 DEF o
      <4>. QED BY <1>1, <2>3, <4>1 DEF Portion
    <3>2. SubSeq(u, q * BLK_BYTES + 1, q * BLK_BYTES + n) = t
      <4> DEFINE o == q * BLK_BYTES
      <4> HIDE DEF o
      <4>0. o \in Nat /\ Len(s) = o
        BY <1>1 DEF o
      <4>1. CASE n = 0
        <5>1. SubSeq(u, o + 1, o + n) = <<>>
          BY <4>0, <4>1, SubSeqEmpty
        <5>. QED BY <1>2, <4>1, <5>1, EmptySeq DEF o
      <4>2. CASE n > 0
        <5>1. SubSeq(u, o + 1, o + n) = SubSeq(t, 1, n)
          <6>1. o + 1 \in Len(s) + 1 .. Len(s) + Len(t) /\ o + n \in Len(s) + 1 .. Len(s) + Len(t)
            BY <1>1, <1>2, <4>0, <4>2
          <6>2. (o + 1) - Len(s) = 1 /\ (o + n) - Len(s) = n
            BY <4>0
          <6>3. SubSeq(s \o t, o + 1, o + n) = SubSeq(t, (o + 1) - Len(s), (o + n) - Len(s))
            BY <1>2, <6>1, SubSeqOfConcat2, ZenonT(60)
          <6>. QED BY <6>2, <6>3 DEF u
        <5>2. SubSeq(t, 1, n) = t
          BY <1>2, SubSeqFull
        <5>. QED BY <5>1, <5>2 DEF o
      <4>. QED BY <4>1, <4>2
    <3>. QED BY <2>3, <3>1, <3>2 DEF BlockRight, t
  <2>4. CASE b = q + 1 /\ n = BLK_BYTES
    <3> DEFINE o == b * BLK_BYTES
    <3>1. o = q * BLK_BYTES + BLK_BYTES
      BY <1>1, <2>4, Product
    <3>2. o \in Nat /\ Len(u) - o = 0
      <4> HIDE DEF o
      <4>. QED BY <1>1, <1>3, <2>4, <3>1
    <3>3. Portion(u, b) = 0
      BY <1>1, <3>2 DEF Portion
    <3>4. SubSeq(u, o + 1, o + 0) = <<>>
      BY <3>2, SubSeqEmpty
    <3>5. KeyStream(at[b], key_schedule, 0) = <<>>
      BY <1>1, <2>1, KeyStreamSeq, EmptySeq
    <3>. QED BY <3>3, <3>4, <3>5 DEF BlockRight
  <2>. QED BY <2>1, <2>2, <2>3, <2>4
<1>. QED BY <1>4, StreamOfBlocks

LEMMA NothingIsStream ==
  ASSUME CipherMakesBlocks, key_schedule \in Key,
         NEW at, \A b \in Nat : at[b] \in Array
  PROVE  IsStream(<<>>, at)
<1>1. BLK_BYTES \in Nat /\ BLK_BYTES > 0 /\ 0 \div BLK_BYTES = 0 /\ 0 * BLK_BYTES = 0
  BY AesCtrAssumption
<1>2. Len(<<>>) = 0
  BY EmptySeq
<1>3. Portion(<<>>, 0) = 0
  BY <1>1, <1>2 DEF Portion
<1>4. KeyStream(at[0], key_schedule, 0) = <<>>
  BY <1>1, KeyStreamSeq, EmptySeq
<1>5. SubSeq(<<>>, 0 * BLK_BYTES + 1, 0 * BLK_BYTES + 0) = <<>>
  BY <1>1, SubSeqEmpty
<1>6. BlockRight(<<>>, at, 0)
  BY <1>3, <1>4, <1>5 DEF BlockRight
<1>7. \A b \in 0 .. Len(<<>>) \div BLK_BYTES : b = 0
  BY <1>1, <1>2
<1>. QED BY <1>6, <1>7, StreamOfBlocks

------------------------------------------------------------------------------
(* The inductive invariant *)

(* After i rounds of the loop i blocks are written, and in the end what    *)
(* they left.                                                              *)
Progress ==
  /\ i <= Blocks
  /\ pc \in {"blocks", "rest"} => Len(out) = i * BLK_BYTES
  /\ pc \in {"rest", "done"} => i = Blocks
  /\ pc = "done" => Len(out) = pt_length

(* The array is where the whole blocks of all calls have moved it.         *)
CounterMoved == counter = Moved(origin, base + i)

IInv == TypeOK /\ Progress /\ CounterMoved /\ StreamOfWideCounter

(* Where the blocks of the current call come from.                         *)
Origins == [b \in Nat |-> Moved(origin, base + b)]

LEMMA OriginsType ==
  ASSUME TypeOK
  PROVE  /\ \A b \in Nat : Origins[b] \in Array
         /\ StreamOfWideCounter <=> IsStream(out, Origins)
<1>1. \A b \in Nat : Moved(origin, base + b) \in Array
  <2>1. ASSUME NEW b \in Nat PROVE base + b \in Nat
    BY DEF TypeOK
  <2>. QED BY <2>1, MovedType DEF TypeOK
<1>. QED BY <1>1 DEF Origins, StreamOfWideCounter, Moved

LEMMA InitInv ==
  ASSUME CipherMakesBlocks, Init
  PROVE  IInv
<1>1. pt_length \in Nat /\ Blocks \in Nat
  BY AesCtrAssumption, Division DEF Init, Blocks
<1>2. TypeOK
  BY <1>1, AesCtrAssumption DEF Init, TypeOK
<1>3. Progress
  BY <1>1, AesCtrAssumption DEF Init, Progress
<1>4. CounterMoved
  BY <1>2, MovedByNothing DEF Init, CounterMoved, TypeOK
<1>5. StreamOfWideCounter
  BY <1>2, OriginsType, NothingIsStream DEF Init, TypeOK
<1>. QED BY <1>2, <1>3, <1>4, <1>5 DEF IInv

LEMMA Sizes ==
  ASSUME TypeOK
  PROVE  /\ pt_length \in Nat /\ i \in Nat /\ base \in Nat /\ Blocks \in Nat
         /\ Rest \in 0 .. BLK_BYTES - 1 /\ pt_length = Blocks * BLK_BYTES + Rest
         /\ BLK_BYTES \in Nat \ {0}
<1>1. pt_length \in Nat /\ i \in Nat /\ base \in Nat
  BY AesCtrAssumption DEF TypeOK
<1>. QED BY <1>1, Division, AesCtrAssumption DEF Blocks, Rest

(* What Encrypt(n) does to the output, after whole blocks.                 *)
LEMMA EncryptAppends ==
  ASSUME CipherMakesBlocks, IInv, NEW n \in 0 .. BLK_BYTES, Encrypt(n),
         pc \in {"blocks", "rest"}
  PROVE  /\ out' \in Seq(Byte) /\ Len(out') = Len(out) + n
         /\ IsStream(out', Origins)
<1> DEFINE s == KeyStream(counter, key_schedule, n)
<1>1. s \in Seq(Byte) /\ Len(s) = n
  BY KeyStreamSeq DEF IInv, TypeOK
<1>2. out \in Seq(Byte) /\ out' = out \o s /\ i \in Nat /\ key_schedule \in Key
  BY DEF IInv, TypeOK, Encrypt
<1>3. out \o s \in Seq(Byte) /\ Len(out \o s) = Len(out) + n
  BY <1>1, <1>2, ConcatProperties
<1>4. Len(out) = i * BLK_BYTES /\ counter = Origins[i]
  BY <1>2 DEF IInv, Progress, CounterMoved, Origins
<1>5. IsStream(out, Origins) /\ \A b \in Nat : Origins[b] \in Array
  BY OriginsType DEF IInv
<1>6. IsStream(out \o KeyStream(Origins[i], key_schedule, n), Origins)
  BY <1>2, <1>4, <1>5, StreamGoesOn
<1>. QED BY <1>2, <1>3, <1>4, <1>6

LEMMA WholeBlockInv ==
  ASSUME CipherMakesBlocks, IInv, WholeBlock
  PROVE  IInv'
<1>1. /\ pt_length \in Nat /\ i \in Nat /\ Blocks \in Nat /\ i < Blocks /\ i + 1 \in Nat
      /\ BLK_BYTES \in 0 .. BLK_BYTES /\ base + i \in Nat /\ base \in Nat
  BY Sizes DEF IInv, WholeBlock, Blocks
<1>2. /\ out' \in Seq(Byte) /\ Len(out') = Len(out) + BLK_BYTES
      /\ IsStream(out', Origins)
  BY <1>1, EncryptAppends DEF WholeBlock
<1>3. TypeOK'
  BY <1>1, <1>2, IncrementKeepsType DEF IInv, TypeOK, WholeBlock, history
<1>4. Progress'
  <2>1. Len(out) = i * BLK_BYTES /\ (i + 1) * BLK_BYTES = i * BLK_BYTES + BLK_BYTES
    BY <1>1, Product DEF IInv, Progress, WholeBlock
  <2>2. Len(out') = (i + 1) * BLK_BYTES
    BY <1>2, <2>1
  <2>. QED BY <1>1, <2>2 DEF IInv, Progress, WholeBlock, Blocks
<1>5. CounterMoved'
  <2>1. counter' = Moved(origin, (base + i) + 1)
    BY <1>1, IncrementMoves DEF IInv, TypeOK, CounterMoved, WholeBlock
  <2>2. (base + i) + 1 = base + (i + 1)
    BY <1>1
  <2>. QED BY <2>1, <2>2 DEF CounterMoved, WholeBlock, history, Moved
<1>6. StreamOfWideCounter'
  BY <1>2 DEF StreamOfWideCounter, IsStream, Origins, Moved, KeyStream, WholeBlock, history
<1>. QED BY <1>3, <1>4, <1>5, <1>6 DEF IInv

LEMMA EndOfBlocksInv ==
  ASSUME IInv, EndOfBlocks
  PROVE  IInv'
BY DEF IInv, TypeOK, Progress, CounterMoved, Moved, StreamOfWideCounter, IsStream,
       KeyStream, EndOfBlocks, history, Blocks

LEMMA LastBytesInv ==
  ASSUME CipherMakesBlocks, IInv, LastBytes
  PROVE  IInv'
<1>1. /\ pt_length \in Nat /\ i \in Nat /\ Blocks \in Nat /\ i = Blocks
      /\ Rest \in 0 .. BLK_BYTES /\ pt_length = Blocks * BLK_BYTES + Rest
  BY Sizes DEF IInv, LastBytes, Progress
<1>2. out' \in Seq(Byte) /\ Len(out') = Len(out) + Rest /\ IsStream(out', Origins)
  BY <1>1, EncryptAppends DEF LastBytes, Rest
<1>3. TypeOK'
  BY <1>2 DEF IInv, TypeOK, LastBytes, history
<1>4. Len(out) = Blocks * BLK_BYTES
  BY <1>1 DEF IInv, Progress, LastBytes
<1>5. Progress'
  BY <1>1, <1>2, <1>4 DEF IInv, Progress, LastBytes, Blocks
<1>6. CounterMoved'
  BY DEF IInv, CounterMoved, Moved, LastBytes, history
<1>7. StreamOfWideCounter'
  BY <1>2 DEF StreamOfWideCounter, IsStream, Origins, Moved, KeyStream, LastBytes, history
<1>. QED BY <1>3, <1>5, <1>6, <1>7 DEF IInv

LEMMA CallAgainInv ==
  ASSUME CipherMakesBlocks, IInv, NEW n \in PtLength, CallAgain(n)
  PROVE  IInv'
<1>1. /\ n \in Nat /\ n \div BLK_BYTES \in Nat /\ base \in Nat /\ i \in Nat
      /\ base + i \in Nat
  BY AesCtrAssumption, Division, Sizes DEF IInv
<1>2. TypeOK'
  BY <1>1 DEF IInv, TypeOK, CallAgain
<1>3. Progress'
  BY <1>1, AesCtrAssumption DEF Progress, CallAgain, Blocks
<1>4. CounterMoved'
  BY <1>1 DEF IInv, CounterMoved, Moved, CallAgain
<1>5. StreamOfWideCounter'
  <2> DEFINE at == [b \in Nat |-> Moved(origin, (base + i) + b)]
  <2>1. ASSUME NEW b \in Nat PROVE at[b] \in Array
    BY <1>1, MovedType DEF IInv, TypeOK
  <2> HIDE DEF at
  <2>2. IsStream(<<>>, at)
    BY <2>1, NothingIsStream DEF IInv, TypeOK
  <2>. QED BY <2>2 DEF StreamOfWideCounter, IsStream, at, Moved, KeyStream, CallAgain
<1>. QED BY <1>2, <1>3, <1>4, <1>5 DEF IInv

LEMMA Invariance ==
  ASSUME CipherMakesBlocks
  PROVE  Spec => []IInv
<1>1. Init => IInv
  BY InitInv
<1>2. IInv /\ [Next]_vars => IInv'
  <2>1. SUFFICES ASSUME IInv, [Next]_vars PROVE IInv'
    OBVIOUS
  <2>2. CASE WholeBlock
    BY <2>1, <2>2, WholeBlockInv
  <2>3. CASE EndOfBlocks
    BY <2>1, <2>3, EndOfBlocksInv
  <2>4. CASE LastBytes
    BY <2>1, <2>4, LastBytesInv
  <2>5. ASSUME NEW n \in PtLength, CallAgain(n) PROVE IInv'
    BY <2>1, <2>5, CallAgainInv
  <2>6. CASE UNCHANGED vars
    BY <2>1, <2>6 DEF IInv, TypeOK, Progress, CounterMoved, Moved, StreamOfWideCounter, IsStream,
                       KeyStream, Blocks, vars, history
  <2>. QED BY <2>1, <2>2, <2>3, <2>4, <2>5, <2>6 DEF Next
<1>. QED BY <1>1, <1>2, PTL DEF Spec

------------------------------------------------------------------------------

(* Whatever is encrypted with whatever array, the array keeps its length   *)
(* and bytes stay bytes.                                                   *)
THEOREM TypeCorrect ==
  ASSUME CipherMakesBlocks
  PROVE  Spec => []TypeOK
<1>1. IInv => TypeOK
  BY DEF IInv
<1>. QED BY <1>1, Invariance, PTL

LEMMA NeverTooLong ==
  ASSUME IInv
  PROVE  OutputComplete
<1>1. /\ pt_length \in Nat /\ i \in Nat /\ Blocks \in Nat /\ Rest \in Nat
      /\ pt_length = Blocks * BLK_BYTES + Rest
  BY Sizes DEF IInv
<1>2. i * BLK_BYTES <= Blocks * BLK_BYTES /\ Blocks * BLK_BYTES \in Nat
  <2>1. CASE i = Blocks
    BY <1>1, <2>1, AesCtrAssumption
  <2>2. CASE i < Blocks
    BY <1>1, <2>2, Product, AesCtrAssumption
  <2>. QED BY <1>1, <2>1, <2>2 DEF IInv, Progress
<1>3. i * BLK_BYTES \in Nat
  BY <1>1, AesCtrAssumption
<1>. QED BY <1>1, <1>2, <1>3 DEF IInv, TypeOK, Progress, OutputComplete

(* aes_ctr_encryption writes exactly pt_length bytes.                      *)
THEOREM OutputIsComplete ==
  ASSUME CipherMakesBlocks
  PROVE  Spec => []OutputComplete
BY NeverTooLong, Invariance, PTL

(* What aes_ctr_encryption computes, for any caller's array and any number *)
(* of calls: block b of all text comes from the number in bytes 1 to       *)
(* BLK_BYTES of the array plus b, modulo the width of those bytes, so the  *)
(* counter is neither the block that is encrypted nor out of step with it. *)
THEOREM StreamIsOfWideCounter ==
  ASSUME CipherMakesBlocks
  PROVE  Spec => []StreamOfWideCounter
<1>1. IInv => StreamOfWideCounter
  BY DEF IInv
<1>. QED BY <1>1, Invariance, PTL

(* The last byte, which moves first, is not in the block: as long as it    *)
(* does not wrap the same block is encrypted again, so up to ByteMod       *)
(* blocks in a row are combined with the same keystream block.             *)
THEOREM SameBlockAgain ==
  ASSUME NEW a \in Array, NEW n \in Nat, a[BLK_BYTES] + n < ByteMod, NEW k \in Key
  PROVE  KeyStream(Moved(a, n), k, BLK_BYTES) = KeyStream(a, k, BLK_BYTES)
<1> DEFINE D == {j \in 0 .. BLK_BYTES : j # BLK_BYTES => Carry(a, n)[j] = 0}
<1>0. /\ BLK_BYTES \in Nat /\ BLK_BYTES > 0 /\ \A j \in 0 .. BLK_BYTES : a[j] \in 0 .. ByteMod - 1
      /\ a[BLK_BYTES] + n \in 0 .. ByteMod - 1
  BY AesCtrAssumption DEF Array, Byte
<1>1. ASSUME NEW x \in 0 .. ByteMod - 1 PROVE x \div ByteMod = 0 /\ x % ByteMod = x /\ x + 0 = x
  BY AesCtrAssumption
<1>2. BLK_BYTES \in D
  BY <1>0
<1>3. ASSUME NEW j \in 0 .. BLK_BYTES - 1, j + 1 \in D PROVE j \in D
  <2>1. j \in 0 .. BLK_BYTES /\ j + 1 \in 0 .. BLK_BYTES
    BY <1>0
  <2>2. Carry(a, n)[j] = (a[j + 1] + Carry(a, n)[j + 1]) \div ByteMod
    BY CarryDefined
  <2>3. CASE j + 1 = BLK_BYTES
    <3>1. Carry(a, n)[j + 1] = n
      BY <2>3, CarryDefined
    <3>. QED BY <1>0, <1>1, <2>1, <2>2, <2>3, <3>1
  <2>4. CASE j + 1 # BLK_BYTES
    BY <1>0, <1>1, <1>3, <2>1, <2>2, <2>4
  <2>. QED BY <2>3, <2>4
<1>4. \A j \in 0 .. BLK_BYTES : j \in D
  <2> HIDE DEF D
  <2>. QED BY <1>2, <1>3, FromTheLastByte
<1>5. ASSUME NEW j \in 0 .. BLK_BYTES, j # BLK_BYTES PROVE Moved(a, n)[j] = a[j]
  <2>1. Carry(a, n)[j] = 0
    BY <1>4, <1>5
  <2>2. (a[j] + 0) % ByteMod = a[j]
    BY <1>0, <1>1
  <2>3. Moved(a, n)[j] = IF j \in 1 .. BLK_BYTES THEN (a[j] + Carry(a, n)[j]) % ByteMod ELSE a[j]
    BY AdvanceCarry DEF Moved
  <2>. QED BY <2>1, <2>2, <2>3
<1>6. \A j \in 1 .. BLK_BYTES : Moved(a, n)[j - 1] = a[j - 1]
  <2>1. ASSUME NEW j \in 1 .. BLK_BYTES PROVE j - 1 \in 0 .. BLK_BYTES /\ j - 1 # BLK_BYTES
    BY <1>0
  <2>. QED BY <1>5, <2>1
<1>7. BlockOf(Moved(a, n)) = BlockOf(a)
  BY <1>6 DEF BlockOf
<1>. QED BY <1>7 DEF KeyStream

(* A first call of at most one block uses the keystream of the caller's    *)
(* counter block.                                                          *)
THEOREM OneBlockIsRight ==
  ASSUME CipherMakesBlocks
  PROVE  Spec => []OneBlockRight
<1>1. ASSUME IInv, base = 0, pt_length <= BLK_BYTES
      PROVE  out = KeyStream(origin, key_schedule, Len(out))
  <2>1. BLK_BYTES \in Nat /\ BLK_BYTES > 0 /\ out \in Seq(Byte) /\ Len(out) \in 0 .. BLK_BYTES
    BY <1>1, NeverTooLong, Sizes DEF OutputComplete, IInv, TypeOK
  <2>2. Portion(out, 0) = Len(out) /\ 0 * BLK_BYTES = 0 /\ 0 \in 0 .. Len(out) \div BLK_BYTES
    BY <2>1, Division DEF Portion
  <2>3. BlockRight(out, Origins, 0)
    BY <1>1, <2>2, OriginsType, StreamOfBlocks DEF IInv
  <2>4. Origins[0] = origin
    BY <1>1, MovedByNothing DEF Origins, IInv, TypeOK
  <2>5. SubSeq(out, 0 * BLK_BYTES + 1, 0 * BLK_BYTES + Len(out)) = out
    BY <2>1, <2>2, SubSeqFull
  <2>. QED BY <2>2, <2>3, <2>4, <2>5 DEF BlockRight
<1>2. IInv => OneBlockRight
  BY <1>1 DEF OneBlockRight
<1>. QED BY <1>2, Invariance, PTL
==============================================================================
