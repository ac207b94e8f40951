--------------------------- MODULE ChaChaCtrProofs ---------------------------
(***************************************************************************)
(* Proofs about ChaChaCtr.tla, for any size of block, byte and word and    *)
(* inputs of any length.                                                   *)
(***************************************************************************)
EXTENDS ChaChaCtr, SequenceTheorems, TLAPS

(* Dividing a position by the block size finds its block and the place in  *)
(* that block.                                                             *)
LEMMA Position ==
  ASSUME NEW n \in Nat, NEW j \in 0 .. BlockBytes - 1
  PROVE  (n * BlockBytes + j) \div BlockBytes = n /\ (n * BlockBytes + j) % BlockBytes = j
BY SizeAssumption

Pair == Counter \X (0 .. BlockBytes - 1)

LEMMA BlockSeq ==
  ASSUME NEW v \in Counter
  PROVE  /\ Block(v) \in Seq(Pair) /\ Len(Block(v)) = BlockBytes
         /\ \A j \in 1 .. BlockBytes : Block(v)[j] = <<v, j - 1>>
<1>1. \A j \in 1 .. BlockBytes : <<v, j - 1>> \in Pair
  BY SizeAssumption DEF Pair
<1>. QED BY <1>1, SizeAssumption DEF Block

LEMMA FirstOfBlock ==
  ASSUME NEW v \in Counter, NEW k \in 0 .. BlockBytes
  PROVE  /\ First(k, Block(v)) \in Seq(Pair) /\ Len(First(k, Block(v))) = k
         /\ \A j \in 1 .. k : First(k, Block(v))[j] = <<v, j - 1>>
<1>1. SubSeq(Block(v), 1, k) \in Seq(Pair)
  BY BlockSeq, SizeAssumption
<1>2. Len(SubSeq(Block(v), 1, k)) = k
  BY BlockSeq, SizeAssumption
<1>3. \A j \in 1 .. k : SubSeq(Block(v), 1, k)[j] = Block(v)[j]
  BY BlockSeq, SizeAssumption
<1>4. \A j \in 1 .. k : j \in 1 .. BlockBytes
  BY SizeAssumption
<1>. QED BY <1>1, <1>2, <1>3, <1>4, BlockSeq DEF First

LEMMA WholeIsFirst ==
  ASSUME NEW v \in Counter
  PROVE  First(BlockBytes, Block(v)) = Block(v)
<1>1. BlockBytes \in 0 .. BlockBytes
  BY SizeAssumption
<1>2. /\ First(BlockBytes, Block(v)) \in Seq(Pair)
      /\ Len(First(BlockBytes, Block(v))) = BlockBytes
      /\ \A j \in 1 .. BlockBytes : First(BlockBytes, Block(v))[j] = <<v, j - 1>>
  BY <1>1, FirstOfBlock
<1>3. /\ Block(v) \in Seq(Pair) /\ Len(Block(v)) = BlockBytes
      /\ \A j \in 1 .. BlockBytes : Block(v)[j] = <<v, j - 1>>
  BY BlockSeq
<1>. QED BY <1>2, <1>3, SeqEqual

(* A stream that ends with a block goes on with the start of the next one. *)
LEMMA StreamGoesOn ==
  ASSUME NEW a \in Counter, NEW n \in Nat,
         NEW s \in Seq(Pair), Len(s) = n * BlockBytes, IsStream(a, s),
         NEW t \in Seq(Pair), NEW k \in 0 .. BlockBytes, Len(t) = k,
         \A j \in 1 .. k : t[j] = <<(a + n) % WordMod, j - 1>>
  PROVE  /\ IsStream(a, s \o t) /\ s \o t \in Seq(Pair)
         /\ Len(s \o t) = n * BlockBytes + k
<1>1. n * BlockBytes \in Nat
  BY SizeAssumption
<1>2. /\ s \o t \in Seq(Pair) /\ Len(s \o t) = Len(s) + Len(t)
      /\ \A p \in 1 .. Len(s) + Len(t) :
           (s \o t)[p] = IF p <= Len(s) THEN s[p] ELSE t[p - Len(s)]
  BY ConcatProperties
<1>3. ASSUME NEW p \in 1 .. Len(s \o t)
      PROVE  (s \o t)[p] = StreamByte(a, p - 1)
  <2>1. CASE p <= n * BlockBytes
    BY <1>1, <1>2, <2>1 DEF IsStream
  <2>2. CASE p > n * BlockBytes
    <3> DEFINE j == p - n * BlockBytes
    <3>1. j \in 1 .. k /\ j - 1 \in 0 .. BlockBytes - 1 /\ p - 1 = n * BlockBytes + (j - 1)
      BY <1>1, <1>2, <2>2, SizeAssumption
    <3>2. (p - 1) \div BlockBytes = n /\ (p - 1) % BlockBytes = j - 1
      BY <3>1, Position
    <3>3. (s \o t)[p] = t[j]
      BY <1>1, <1>2, <2>2
    <3>4. t[j] = <<(a + n) % WordMod, j - 1>>
      BY <3>1
    <3>. QED BY <3>2, <3>3, <3>4 DEF StreamByte
  <2>. QED BY <1>1, <1>2, <2>1, <2>2
<1>. QED BY <1>1, <1>2, <1>3 DEF IsStream

LEMMA BlockIsStream ==
  ASSUME NEW v \in Counter, NEW k \in 0 .. BlockBytes
  PROVE  IsStream(v, First(k, Block(v)))
<1>1. \A p \in 1 .. k : (p - 1) \div BlockBytes = 0 /\ (p - 1) % BlockBytes = p - 1
  BY SizeAssumption
<1>2. v % WordMod = v /\ v + 0 = v
  BY SizeAssumption DEF Counter
<1>. QED BY <1>1, <1>2, FirstOfBlock DEF IsStream, StreamByte

LEMMA DoubleBlockIsStream ==
  ASSUME NEW v \in Counter
  PROVE  /\ DoubleBlock(v) \in Seq(Pair) /\ Len(DoubleBlock(v)) = 2 * BlockBytes
         /\ IsStream(v, DoubleBlock(v))
<1> DEFINE w == (v + 1) % WordMod
<1>1. w \in Counter
  BY SizeAssumption DEF Counter
<1>2. /\ Block(v) \in Seq(Pair) /\ Len(Block(v)) = BlockBytes
      /\ Block(w) \in Seq(Pair) /\ Len(Block(w)) = BlockBytes
      /\ \A j \in 1 .. BlockBytes : Block(w)[j] = <<w, j - 1>>
  BY <1>1, BlockSeq
<1>3. IsStream(v, Block(v))
  <2>1. BlockBytes \in 0 .. BlockBytes
    BY SizeAssumption
  <2>2. First(BlockBytes, Block(v)) = Block(v)
    BY WholeIsFirst
  <2>. QED BY <2>1, <2>2, BlockIsStream
<1>4. /\ IsStream(v, Block(v) \o Block(w)) /\ Block(v) \o Block(w) \in Seq(Pair)
      /\ Len(Block(v) \o Block(w)) = 1 * BlockBytes + BlockBytes
  <2>1. /\ 1 \in Nat /\ BlockBytes \in 0 .. BlockBytes
        /\ Len(Block(v)) = 1 * BlockBytes
    BY <1>2, SizeAssumption
  <2>2. \A j \in 1 .. BlockBytes : Block(w)[j] = <<(v + 1) % WordMod, j - 1>>
    BY <1>2
  <2>3. ASSUME NEW t \in Seq(Pair), Len(t) = BlockBytes,
               \A j \in 1 .. BlockBytes : t[j] = <<(v + 1) % WordMod, j - 1>>
        PROVE  /\ IsStream(v, Block(v) \o t) /\ Block(v) \o t \in Seq(Pair)
               /\ Len(Block(v) \o t) = 1 * BlockBytes + BlockBytes
    <3> DEFINE s == Block(v)
    <3>1. s \in Seq(Pair) /\ Len(s) = 1 * BlockBytes /\ IsStream(v, s)
      BY <1>2, <1>3, <2>1
    <3> HIDE DEF s
    <3>2. IsStream(v, s \o t) /\ s \o t \in Seq(Pair) /\ Len(s \o t) = 1 * BlockBytes + BlockBytes
      BY <2>1, <2>3, <3>1, StreamGoesOn
    <3>. QED BY <3>2 DEF s
  <2> HIDE DEF w
  <2>. QED BY <1>2, <2>2, <2>3
<1>. QED BY <1>4, SizeAssumption DEF DoubleBlock

LEMMA FirstOfDoubleBlock ==
  ASSUME NEW v \in Counter, NEW k \in 0 .. 2 * BlockBytes
  PROVE  /\ First(k, DoubleBlock(v)) \in Seq(Pair)
         /\ Len(First(k, DoubleBlock(v))) = k
         /\ IsStream(v, First(k, DoubleBlock(v)))
<1>1. SubSeq(DoubleBlock(v), 1, k) \in Seq(Pair)
  BY DoubleBlockIsStream, SizeAssumption
<1>2. Len(SubSeq(DoubleBlock(v), 1, k)) = k
  BY DoubleBlockIsStream, SizeAssumption
<1>3. \A j \in 1 .. k : SubSeq(DoubleBlock(v), 1, k)[j] = DoubleBlock(v)[j]
  BY DoubleBlockIsStream, SizeAssumption
<1>4. \A j \in 1 .. k : j \in 1 .. 2 * BlockBytes
  BY SizeAssumption
<1>. QED BY <1>1, <1>2, <1>3, <1>4, DoubleBlockIsStream DEF First, IsStream

LEMMA Monotone ==
  ASSUME NEW a \in Nat, NEW b \in Nat, NEW m \in Nat, a <= b
  PROVE  a * m <= b * m
<1>1. PICK d \in Nat : b = a + d
  <2>1. b - a \in Nat /\ b = a + (b - a)
    OBVIOUS
  <2>. QED BY <2>1
<1>2. (a + d) * m = a * m + d * m
  OBVIOUS
<1>3. d * m \in Nat /\ a * m \in Nat
  OBVIOUS
<1>. QED BY <1>1, <1>2, <1>3

LEMMA Division ==
  ASSUME NEW n \in Nat, NEW u \in Nat \ {0}
  PROVE  n \div u \in Nat /\ n % u \in 0 .. u - 1 /\ n % u \in Nat /\ n = (n \div u) * u + (n % u)
OBVIOUS

(* Counting on from a number that was reduced.                             *)
LEMMA NextModulo ==
  ASSUME NEW n \in Nat, NEW u \in Nat \ {0}
  PROVE  ((n % u) + 1) % u = (n + 1) % u
<1> DEFINE q == n \div u
           r == n % u
<1>1. q \in Nat /\ r \in 0 .. u - 1 /\ n = q * u + r
  BY Division
<1>2. \A m \in Nat, j \in 0 .. u - 1 : (m * u + j) % u = j
  OBVIOUS
<1>3. CASE r + 1 < u
  <2>1. n + 1 = q * u + (r + 1) /\ r + 1 \in 0 .. u - 1
    <3> HIDE DEF q, r
    <3>. QED BY <1>1, <1>3
  <2>2. (n + 1) % u = r + 1
    <3> HIDE DEF q, r
    <3>. QED BY <1>1, <1>2, <2>1
  <2>3. (r + 1) % u = r + 1
    BY <2>1
  <2>. QED BY <2>2, <2>3
<1>4. CASE r + 1 = u
  <2>1. n + 1 = (q + 1) * u + 0 /\ q + 1 \in Nat /\ 0 \in 0 .. u - 1
    <3> HIDE DEF q, r
    <3>. QED BY <1>1, <1>4
  <2>2. (n + 1) % u = 0
    BY <1>2, <2>1
  <2>3. (r + 1) % u = 0
    BY <1>4
  <2>. QED BY <2>2, <2>3
<1>. QED BY <1>1, <1>3, <1>4

(* The lowest byte of a word may change without leaving the word's range.  *)
LEMMA LowByte ==
  ASSUME NEW v \in Counter, NEW r \in 0 .. ByteMod - 1
  PROVE  /\ v - (v % ByteMod) + r \in Counter
         /\ (v - (v % ByteMod) + r) % ByteMod = r
         /\ (v - (v % ByteMod) + r) - r = v - (v % ByteMod)
<1> DEFINE q == v \div ByteMod
           k == WordMod \div ByteMod
<1>1. /\ q \in Nat /\ v % ByteMod \in 0 .. ByteMod - 1 /\ v = q * ByteMod + (v % ByteMod)
      /\ k \in Nat /\ WordMod = k * ByteMod
  BY SizeAssumption, ByteAssumption DEF Counter
<1>2. q + 1 <= k
  <2>1. q * ByteMod < k * ByteMod /\ q * ByteMod \in Nat /\ k * ByteMod \in Nat
    BY <1>1, SizeAssumption, ByteAssumption DEF Counter
  <2>2. ASSUME k <= q
        PROVE  FALSE
    <3>1. k * ByteMod <= q * ByteMod
      BY <1>1, <2>2, Monotone, ByteAssumption
    <3> HIDE DEF q, k
    <3>. QED BY <2>1, <3>1
  <2> HIDE DEF q, k
  <2>. QED BY <1>1, <2>2
<1>3. (q + 1) * ByteMod <= k * ByteMod
  <2>1. q + 1 \in Nat
    BY <1>1
  <2> HIDE DEF q, k
  <2>. QED BY <1>1, <1>2, <2>1, Monotone, ByteAssumption
<1>4. (q + 1) * ByteMod = q * ByteMod + ByteMod
  <2> HIDE DEF q
  <2>. QED BY <1>1, ByteAssumption
<1>5. q * ByteMod + r \in 0 .. WordMod - 1
  <2>1. q * ByteMod \in Nat
    BY <1>1, ByteAssumption
  <2> HIDE DEF q, k
  <2>. QED BY <1>1, <1>3, <1>4, <2>1, SizeAssumption, ByteAssumption
<1>6. v - (v % ByteMod) = q * ByteMod
  <2>1. q * ByteMod \in Nat /\ v \in Nat
    BY <1>1, SizeAssumption, ByteAssumption DEF Counter
  <2> HIDE DEF q
  <2>. QED BY <1>1, <2>1
<1>7. (q * ByteMod + r) % ByteMod = r
  <2> HIDE DEF q
  <2>. QED BY <1>1, ByteAssumption
<1>8. q * ByteMod \in Int /\ r \in Int
  BY <1>1, ByteAssumption
<1> HIDE DEF q
<1>. QED BY <1>5, <1>6, <1>7, <1>8 DEF Counter

(* The lowest byte moves without a carry, byte after byte.                 *)
LEMMA LowByteMoves ==
  ASSUME NEW v \in Counter, NEW n \in Nat
  PROVE  /\ LowBytePlus(v, n) \in Counter
         /\ LowBytePlus(v, 0) = v
         /\ LowBytePlus(LowBytePlus(v, n), 1) = LowBytePlus(v, n + 1)
<1> DEFINE b == v % ByteMod
           r == (b + n) % ByteMod
           w == v - b + r
<1>1. b \in 0 .. ByteMod - 1 /\ v \in Nat /\ b + n \in Nat /\ ByteMod \in Nat \ {0}
  BY SizeAssumption, ByteAssumption DEF Counter
<1>2. r \in 0 .. ByteMod - 1
  BY <1>1, Division
<1>3. w \in Counter /\ w % ByteMod = r /\ w - r = v - b
  BY <1>2, LowByte
<1>4. (b + 0) % ByteMod = b
  BY <1>1
<1>5. (r + 1) % ByteMod = (b + (n + 1)) % ByteMod
  <2>1. (r + 1) % ByteMod = ((b + n) + 1) % ByteMod
    BY <1>1, NextModulo
  <2>2. (b + n) + 1 = b + (n + 1)
    BY <1>1
  <2>. QED BY <2>1, <2>2
<1>6. LowBytePlus(v, n) = w /\ LowBytePlus(v, 0) = v - b + ((b + 0) % ByteMod)
      /\ LowBytePlus(v, n + 1) = (v - b) + ((b + (n + 1)) % ByteMod)
      /\ LowBytePlus(w, 1) = (w - (w % ByteMod)) + (((w % ByteMod) + 1) % ByteMod)
  BY DEF LowBytePlus
<1>7. LowBytePlus(w, 1) = LowBytePlus(v, n + 1)
  <2> HIDE DEF w, r, b
  <2>. QED BY <1>3, <1>5, <1>6
<1>8. v - b + b = v
  BY <1>1
<1> HIDE DEF w, r, b
<1>. QED BY <1>3, <1>4, <1>6, <1>7, <1>8

(* Byte p of what avx writes.                                              *)
AvxByte(p) ==
  StreamByte(LowBytePlus(c, p \div (2 * BlockBytes)), p % (2 * BlockBytes))

(* Double blocks go on with the next one, or its start.                    *)
LEMMA DoubleGoesOn ==
  ASSUME NEW n \in Nat, NEW s \in Seq(Pair), Len(s) = n * (2 * BlockBytes),
         \A p \in 1 .. Len(s) : s[p] = AvxByte(p - 1),
         NEW t \in Seq(Pair), NEW k \in 0 .. 2 * BlockBytes, Len(t) = k,
         IsStream(LowBytePlus(c, n), t)
  PROVE  /\ \A p \in 1 .. Len(s \o t) : (s \o t)[p] = AvxByte(p - 1)
         /\ s \o t \in Seq(Pair) /\ Len(s \o t) = Len(s) + k
<1> DEFINE u == 2 * BlockBytes
           m == n * u
<1>1. u \in Nat \ {0} /\ m \in Nat /\ Len(s) = m
  BY SizeAssumption
<1>2. /\ s \o t \in Seq(Pair) /\ Len(s \o t) = Len(s) + k
      /\ \A p \in 1 .. Len(s) + Len(t) :
           (s \o t)[p] = IF p <= Len(s) THEN s[p] ELSE t[p - Len(s)]
  BY ConcatProperties
<1>3. ASSUME NEW p \in 1 .. Len(s \o t)
      PROVE  (s \o t)[p] = AvxByte(p - 1)
  <2> HIDE DEF m
  <2>1. CASE p <= m
    BY <1>1, <1>2, <2>1
  <2>2. CASE p > m
    <3> DEFINE j == (p - 1) - m
    <3> HIDE DEF u
    <3>1. j \in 0 .. u - 1 /\ j + 1 \in 1 .. k /\ p - m = j + 1 /\ p - 1 = m + j
      BY <1>1, <1>2, <2>2 DEF u
    <3>2. \A q \in Nat, o \in 0 .. u - 1 : (q * u + o) \div u = q /\ (q * u + o) % u = o
      BY <1>1
    <3>3. (p - 1) \div u = n /\ (p - 1) % u = j
      BY <3>1, <3>2 DEF m
    <3>4. (s \o t)[p] = t[j + 1]
      <4>1. p \in 1 .. Len(s) + Len(t) /\ ~ (p <= Len(s)) /\ p - Len(s) = j + 1
        BY <1>1, <1>2, <2>2, <3>1
      <4>. QED BY <1>2, <4>1
    <3>5. t[j + 1] = StreamByte(LowBytePlus(c, n), (j + 1) - 1) /\ (j + 1) - 1 = j
      BY <3>1 DEF IsStream
    <3>. QED BY <3>3, <3>4, <3>5 DEF AvxByte, u
  <2>. QED BY <1>1, <1>2, <2>1, <2>2
<1>. QED BY <1>2, <1>3

------------------------------------------------------------------------------
(* The inductive invariant *)

(* The bytes that one round of the block loop writes.                      *)
Unit == IF impl = "avx" THEN 2 * BlockBytes ELSE BlockBytes

(* How much is written: i rounds of the block loop, and in the end what    *)
(* they left.                                                              *)
Progress ==
  /\ i <= inlen \div Unit
  /\ pc \in {"blocks", "rest"} => Len(out) = i * Unit
  /\ pc = "rest" => i = inlen \div Unit
  /\ pc = "done" => Len(out) = inlen

(* iv holds the counter of the next block.                                 *)
CounterFollows ==
  impl \in {"base", "sse"} => count = iv /\ iv = (c + i) % WordMod

(* iv holds the counter of the next double block.                          *)
AvxFollows ==
  impl = "avx" /\ pc \in {"blocks", "rest"} => iv = LowBytePlus(c, i)

IInv == TypeOK /\ Progress /\ CounterFollows /\ KeystreamRight /\ AvxStream /\ AvxFollows

LEMMA UnitType == Unit \in Nat \ {0}
BY SizeAssumption DEF Unit

LEMMA EmptyStream == IsStream(c, <<>>)
BY DEF IsStream

LEMMA InitInv ==
  ASSUME Init
  PROVE  IInv
<1>1. TypeOK
  BY SizeAssumption, ByteAssumption DEF Init, TypeOK
<1>2. Progress
  <2>1. inlen \in Nat /\ i = 0 /\ pc = "blocks" /\ Len(out) = 0
    BY ByteAssumption DEF Init
  <2>2. inlen \div Unit \in Nat /\ 0 * Unit = 0
    BY <2>1, UnitType, Division
  <2>. QED BY <2>1, <2>2 DEF Progress
<1>3. CounterFollows
  BY SizeAssumption DEF Init, CounterFollows, Counter
<1>4. AvxFollows /\ AvxStream
  BY LowByteMoves DEF Init, AvxFollows, AvxStream
<1>. QED BY <1>1, <1>2, <1>3, <1>4, EmptyStream DEF Init, IInv, KeystreamRight

(* A round of the block loop writes Unit bytes.                            *)
LEMMA RoundProgress ==
  ASSUME IInv, pc = "blocks", i < inlen \div Unit, i' = i + 1, UNCHANGED <<args, pc>>,
         Len(out') = Len(out) + Unit
  PROVE  Progress'
<1>1. /\ i \in Nat /\ inlen \in Nat /\ inlen \div Unit \in Nat
      /\ Len(out) = i * Unit /\ Unit \in Nat \ {0}
  BY UnitType, Division DEF IInv, TypeOK, Progress
<1>2. Unit' = Unit /\ inlen' = inlen /\ pc' = "blocks"
  BY DEF Unit, args
<1>3. (i + 1) * Unit = i * Unit + Unit
  <2> HIDE DEF Unit
  <2>. QED BY <1>1
<1>4. Len(out') = i' * Unit' /\ i' <= inlen' \div Unit'
  BY <1>1, <1>2, <1>3
<1>. QED BY <1>2, <1>4 DEF Progress

(* The rest of the input completes it.                                     *)
LEMMA RestProgress ==
  ASSUME IInv, pc = "rest", pc' = "done", UNCHANGED <<args, i>>,
         Len(out') = Len(out) + (inlen % Unit)
  PROVE  Progress'
<1>1. /\ inlen \in Nat /\ Len(out) = (inlen \div Unit) * Unit /\ i <= inlen \div Unit
  BY DEF IInv, TypeOK, Progress
<1>2. inlen = (inlen \div Unit) * Unit + (inlen % Unit)
  BY <1>1, UnitType, Division
<1>3. Unit' = Unit /\ inlen' = inlen /\ i' = i
  BY DEF Unit, args
<1>. QED BY <1>1, <1>2, <1>3 DEF Progress

(* What base and sse write at block i, in whole or in part.                *)
LEMMA NextKeystream ==
  ASSUME IInv, impl \in {"base", "sse"}, pc \in {"blocks", "rest"},
         NEW k \in 0 .. BlockBytes
  PROVE  /\ IsStream(c, out \o First(k, Block(iv)))
         /\ out \o First(k, Block(iv)) \in Seq(Pair)
         /\ Len(out \o First(k, Block(iv))) = Len(out) + k
<1>1. /\ c \in Counter /\ i \in Nat /\ iv \in Counter /\ iv = (c + i) % WordMod
      /\ out \in Seq(Pair) /\ Len(out) = i * BlockBytes /\ IsStream(c, out)
  BY DEF IInv, TypeOK, Progress, CounterFollows, KeystreamRight, Unit, Pair
<1> DEFINE t == First(k, Block(iv))
<1>2. t \in Seq(Pair) /\ Len(t) = k /\ \A j \in 1 .. k : t[j] = <<(c + i) % WordMod, j - 1>>
  BY <1>1, FirstOfBlock
<1> HIDE DEF t
<1>3. IsStream(c, out \o t) /\ out \o t \in Seq(Pair) /\ Len(out \o t) = i * BlockBytes + k
  BY <1>1, <1>2, StreamGoesOn, SMTT(60)
<1>. QED BY <1>1, <1>3 DEF t

LEMMA WholeBlockInv ==
  ASSUME IInv, WholeBlock
  PROVE  IInv'
<1>1. /\ c \in Counter /\ i \in Nat /\ iv \in Counter /\ count = iv
      /\ iv = (c + i) % WordMod /\ impl # "avx"
  BY DEF IInv, TypeOK, CounterFollows, WholeBlock
<1>2. BlockBytes \in 0 .. BlockBytes /\ Unit = BlockBytes
  BY <1>1, SizeAssumption DEF Unit
<1>3. out' = out \o First(BlockBytes, Block(iv))
  BY <1>1, WholeIsFirst DEF WholeBlock, Encrypt
<1>4. IsStream(c, out') /\ out' \in Seq(Pair) /\ Len(out') = Len(out) + BlockBytes
  BY <1>2, <1>3, NextKeystream DEF WholeBlock
<1>5. Progress'
  BY <1>2, <1>4, RoundProgress DEF WholeBlock
<1>6. iv' = (c + i') % WordMod /\ iv' \in Counter /\ count' = iv' /\ i' \in Nat
  <2>1. iv' = (iv + 1) % WordMod /\ i' = i + 1 /\ count' = iv'
    BY <1>1 DEF WholeBlock
  <2>2. (((c + i) % WordMod) + 1) % WordMod = (c + (i + 1)) % WordMod
    <3>1. c + i \in Nat /\ (c + i) + 1 = c + (i + 1)
      BY <1>1 DEF Counter
    <3>. QED BY <3>1, NextModulo, SizeAssumption
  <2>. QED BY <1>1, <2>1, <2>2, SizeAssumption DEF Counter
<1>. QED BY <1>1, <1>4, <1>5, <1>6
         DEF IInv, TypeOK, CounterFollows, KeystreamRight, AvxStream, AvxFollows, WholeBlock, args, Pair

LEMMA LastBytesInv ==
  ASSUME IInv, LastBytes
  PROVE  IInv'
<1>1. inlen \in Nat /\ impl # "avx" /\ Unit = BlockBytes
  BY DEF IInv, TypeOK, LastBytes, Unit
<1>2. inlen % BlockBytes \in 0 .. BlockBytes
  BY <1>1, Division, SizeAssumption
<1>3. IsStream(c, out') /\ out' \in Seq(Pair) /\ Len(out') = Len(out) + (inlen % BlockBytes)
  BY <1>2, NextKeystream DEF LastBytes, Encrypt
<1>4. Progress'
  BY <1>1, <1>3, RestProgress DEF LastBytes
<1>. QED BY <1>1, <1>3, <1>4
         DEF IInv, TypeOK, CounterFollows, KeystreamRight, AvxStream,
             AvxFollows, LastBytes, args, Pair

LEMMA IncrementInCounter ==
  ASSUME IInv, IncrementLowByte, impl = "avx", pc \in {"blocks", "rest"}
  PROVE  iv' \in Counter /\ iv' = LowBytePlus(c, i + 1)
<1>1. iv' = LowBytePlus(iv, 1) /\ iv = LowBytePlus(c, i) /\ i \in Nat /\ c \in Counter
  BY DEF IncrementLowByte, LowBytePlus, IInv, AvxFollows, TypeOK
<1>2. i + 1 \in Nat
  BY <1>1
<1>. QED BY <1>1, <1>2, LowByteMoves

(* What avx writes at double block i, in whole or in part.                 *)
LEMMA NextDouble ==
  ASSUME IInv, impl = "avx", pc \in {"blocks", "rest"}, NEW k \in 0 .. 2 * BlockBytes
  PROVE  /\ out \o First(k, DoubleBlock(iv)) \in Seq(Pair)
         /\ Len(out \o First(k, DoubleBlock(iv))) = Len(out) + k
         /\ \A p \in 1 .. Len(out \o First(k, DoubleBlock(iv))) :
              (out \o First(k, DoubleBlock(iv)))[p] = AvxByte(p - 1)
<1> DEFINE t == First(k, DoubleBlock(iv))
<1>1. /\ iv \in Counter /\ out \in Seq(Pair) /\ i \in Nat /\ iv = LowBytePlus(c, i)
      /\ Len(out) = i * (2 * BlockBytes)
      /\ \A p \in 1 .. Len(out) : out[p] = AvxByte(p - 1)
  BY DEF IInv, TypeOK, Pair, AvxFollows, AvxStream, AvxByte, Progress, Unit
<1>2. t \in Seq(Pair) /\ Len(t) = k /\ IsStream(LowBytePlus(c, i), t)
  BY <1>1, FirstOfDoubleBlock
<1> HIDE DEF t
<1>3. /\ out \o t \in Seq(Pair) /\ Len(out \o t) = Len(out) + k
      /\ \A p \in 1 .. Len(out \o t) : (out \o t)[p] = AvxByte(p - 1)
  BY <1>1, <1>2, DoubleGoesOn, ZenonT(60)
<1>. QED BY <1>3 DEF t

LEMMA WholeIsFirstDouble ==
  ASSUME NEW v \in Counter
  PROVE  First(2 * BlockBytes, DoubleBlock(v)) = DoubleBlock(v)
<1>1. DoubleBlock(v) \in Seq(Pair) /\ Len(DoubleBlock(v)) = 2 * BlockBytes
  BY DoubleBlockIsStream
<1>. QED BY <1>1 DEF First

LEMMA WholeDoubleBlockInv ==
  ASSUME IInv, WholeDoubleBlock
  PROVE  IInv'
<1>1. /\ impl = "avx" /\ iv \in Counter /\ i \in Nat /\ inlen \in Nat
      /\ Unit = 2 * BlockBytes /\ i < inlen \div Unit /\ pc = "blocks"
      /\ i' = i + 1
  BY DEF IInv, TypeOK, WholeDoubleBlock, Unit
<1>2. 2 * BlockBytes \in 0 .. 2 * BlockBytes
  BY SizeAssumption
<1>3. out' = out \o First(2 * BlockBytes, DoubleBlock(iv))
  BY <1>1, WholeIsFirstDouble DEF WholeDoubleBlock, Encrypt
<1>4. /\ out' \in Seq(Pair) /\ Len(out') = Len(out) + Unit
      /\ \A p \in 1 .. Len(out') : out'[p] = AvxByte(p - 1)
  BY <1>1, <1>2, <1>3, NextDouble
<1>5. Progress'
  BY <1>1, <1>4, RoundProgress DEF WholeDoubleBlock
<1>6. iv' \in Counter /\ iv' = LowBytePlus(c, i + 1)
  BY <1>1, IncrementInCounter DEF WholeDoubleBlock
<1>7. AvxStream' /\ AvxFollows'
  BY <1>1, <1>4, <1>6 DEF AvxStream, AvxFollows, AvxByte, LowBytePlus, WholeDoubleBlock, args
<1>. QED BY <1>1, <1>4, <1>5, <1>6, <1>7
         DEF IInv, TypeOK, CounterFollows, KeystreamRight, WholeDoubleBlock, args, Pair

LEMMA LastBytes256Inv ==
  ASSUME IInv, LastBytes256
  PROVE  IInv'
<1> DEFINE k == inlen % (2 * BlockBytes)
<1>1. /\ impl = "avx" /\ iv \in Counter /\ inlen \in Nat
      /\ Unit = 2 * BlockBytes /\ pc = "rest"
  BY DEF IInv, TypeOK, LastBytes256, Unit
<1>2. k \in 0 .. 2 * BlockBytes
  <2>1. 2 * BlockBytes \in Nat \ {0}
    BY SizeAssumption
  <2> DEFINE u == 2 * BlockBytes
  <2>2. inlen % u \in 0 .. u - 1 /\ u \in Nat
    BY <1>1, <2>1, Division
  <2>3. inlen % u \in 0 .. u
    <3> HIDE DEF u
    <3>. QED BY <2>2
  <2>. QED BY <2>3
<1>3. out' = out \o First(k, DoubleBlock(iv))
  BY DEF LastBytes256, Encrypt
<1> HIDE DEF k
<1>4. /\ out' \in Seq(Pair) /\ Len(out') = Len(out) + k
      /\ \A p \in 1 .. Len(out') : out'[p] = AvxByte(p - 1)
  BY <1>1, <1>2, <1>3, NextDouble
<1>5. Progress'
  BY <1>1, <1>4, RestProgress DEF LastBytes256, k
<1>6. iv' \in Counter
  BY <1>1, IncrementInCounter DEF LastBytes256
<1>7. AvxStream' /\ AvxFollows'
  BY <1>1, <1>4 DEF AvxStream, AvxFollows, AvxByte, LowBytePlus, LastBytes256, args
<1>. QED BY <1>1, <1>4, <1>5, <1>6, <1>7
         DEF IInv, TypeOK, CounterFollows, KeystreamRight, LastBytes256, args, Pair

LEMMA NextInv ==
  ASSUME IInv, [Next]_vars
  PROVE  IInv'
<1>1. CASE WholeBlock
  BY <1>1, WholeBlockInv
<1>2. CASE EndOfBlocks
  <2>1. Unit' = Unit /\ Unit = BlockBytes
    BY <1>2 DEF EndOfBlocks, args, Unit
  <2>. QED BY <1>2, <2>1
           DEF IInv, TypeOK, Progress, CounterFollows, KeystreamRight, AvxStream, AvxFollows, EndOfBlocks, args
<1>3. CASE LastBytes
  BY <1>3, LastBytesInv
<1>4. CASE WholeDoubleBlock
  BY <1>4, WholeDoubleBlockInv
<1>5. CASE EndOfDoubleBlocks
  <2>1. Unit' = Unit /\ Unit = 2 * BlockBytes
    BY <1>5 DEF EndOfDoubleBlocks, args, Unit
  <2>. QED BY <1>5, <2>1
           DEF IInv, TypeOK, Progress, CounterFollows, KeystreamRight, AvxStream, AvxFollows,
               EndOfDoubleBlocks, args
<1>6. CASE LastBytes256
  BY <1>6, LastBytes256Inv
<1>7. CASE UNCHANGED vars
  BY <1>7 DEF IInv, TypeOK, Progress, CounterFollows, KeystreamRight, AvxStream, AvxFollows,
             LowBytePlus, vars, args, Unit
<1>. QED BY <1>1, <1>2, <1>3, <1>4, <1>5, <1>6, <1>7 DEF Next

------------------------------------------------------------------------------
(* Theorems *)

(* The invariant holds of every reachable state of the three loops.        *)
THEOREM Invariance == Spec => []IInv
BY InitInv, NextInv, PTL DEF Spec

(* The counters of all three encryptions stay 32-bit words, whatever the   *)
(* length of the input (chacha20.c:169, chacha20_avx.c:260-263).           *)
THEOREM TypeCorrect == Spec => []TypeOK
<1>1. IInv => TypeOK
  BY DEF IInv
<1>. QED BY <1>1, Invariance, PTL

(* chacha20.c and chacha20_sse.c combine every byte of input with its own  *)
(* byte of the keystream, for inputs of any length, whether or not the     *)
(* counter wraps.                                                          *)
THEOREM KeystreamIsRight == Spec => []KeystreamRight
<1>1. IInv => KeystreamRight
  BY DEF IInv
<1>. QED BY <1>1, Invariance, PTL

LEMMA NeverTooLong ==
  ASSUME IInv
  PROVE  OutputComplete
<1>1. inlen \in Nat /\ i \in Nat /\ inlen \div Unit \in Nat /\ Unit \in Nat \ {0}
      /\ inlen % Unit \in Nat /\ inlen = (inlen \div Unit) * Unit + (inlen % Unit)
  BY UnitType, Division DEF IInv, TypeOK
<1>2. i * Unit <= (inlen \div Unit) * Unit
  BY <1>1, Monotone DEF IInv, Progress
<1>3. i * Unit \in Nat /\ (inlen \div Unit) * Unit \in Nat
  BY <1>1
<1>4. (inlen \div Unit) * Unit <= inlen
  BY <1>1, <1>3
<1>5. i * Unit <= inlen
  BY <1>1, <1>2, <1>3, <1>4
<1>. QED BY <1>1, <1>5 DEF IInv, TypeOK, Progress, OutputComplete

(* No encryption writes past the length it was given, and each writes all  *)
(* of it.                                                                  *)
THEOREM OutputIsComplete == Spec => []OutputComplete
BY NeverTooLong, Invariance, PTL

(* What chacha20_avx.c computes for inputs of any length: double block d   *)
(* is the keystream of the initial counter with d added to its lowest byte *)
(* only, where d double blocks take 2d values of the counter.              *)
THEOREM AvxComputesStream == Spec => []AvxStream
<1>1. IInv => AvxStream
  BY DEF IInv
<1>. QED BY <1>1, Invariance, PTL

(* So, unless the byte wraps, the first block of a double block is the     *)
(* second one of the double block before it.                               *)
THEOREM BlockUsedTwice ==
  ASSUME NEW n \in Nat, c \in Counter, (LowBytePlus(c, n) % ByteMod) + 1 < ByteMod
  PROVE  DoubleBlock(LowBytePlus(c, n))
           = Block(LowBytePlus(c, n)) \o Block(LowBytePlus(c, n + 1))
<1> DEFINE v == LowBytePlus(c, n)
           b == v % ByteMod
<1>1. v \in Counter /\ LowBytePlus(v, 1) = LowBytePlus(c, n + 1)
  BY LowByteMoves
<1> HIDE DEF v
<1>2. v \in Nat /\ b \in 0 .. ByteMod - 1 /\ ByteMod \in Nat \ {0}
  BY <1>1, SizeAssumption, ByteAssumption DEF Counter
<1>3. b + 1 \in 0 .. ByteMod - 1
  BY <1>2 DEF v
<1>4. (b + 1) % ByteMod = b + 1
  BY <1>2, <1>3
<1>5. LowBytePlus(v, 1) = v + 1
  <2>1. LowBytePlus(v, 1) = v - b + (b + 1)
    BY <1>4 DEF LowBytePlus
  <2>2. b \in Int /\ v \in Int
    BY <1>2
  <2> HIDE DEF b
  <2>. QED BY <2>1, <2>2
<1>6. v + 1 \in Counter
  BY <1>1, <1>5, LowByteMoves
<1>7. (v + 1) % WordMod = v + 1
  BY <1>6, SizeAssumption DEF Counter
<1>. QED BY <1>1, <1>5, <1>7 DEF DoubleBlock, v

(* chacha20_avx.c uses the keystream of RFC 8439 for inputs of at most one *)
(* double block, 128 bytes.                                                *)
THEOREM ShortInputsAreRight == Spec => []ShortInputsRight
<1>1. ASSUME IInv, impl = "avx", inlen <= 2 * BlockBytes
      PROVE  IsStream(c, out)
  <2>1. ASSUME NEW p \in 1 .. Len(out) PROVE out[p] = StreamByte(c, p - 1)
    <3>1. Len(out) \in Nat /\ Len(out) <= 2 * BlockBytes
      <4>1. Len(out) <= inlen /\ inlen \in Nat /\ inlen <= 2 * BlockBytes /\ Len(out) \in Nat
        BY <1>1, NeverTooLong DEF OutputComplete, IInv, TypeOK
      <4>. QED BY <4>1, SizeAssumption
    <3>2. (p - 1) \div (2 * BlockBytes) = 0 /\ (p - 1) % (2 * BlockBytes) = p - 1
      <4> DEFINE u == 2 * BlockBytes
      <4>1. u \in Nat \ {0} /\ p - 1 \in 0 .. u - 1
        BY <3>1, SizeAssumption
      <4> HIDE DEF u
      <4>2. (p - 1) \div u = 0 /\ (p - 1) % u = p - 1
        BY <4>1
      <4>. QED BY <4>2 DEF u
    <3>3. LowBytePlus(c, 0) = c
      BY <1>1, LowByteMoves DEF IInv, TypeOK
    <3>. QED BY <1>1, <3>2, <3>3 DEF IInv, AvxStream
  <2>. QED BY <2>1 DEF IsStream
<1>2. IInv => ShortInputsRight
  BY <1>1 DEF ShortInputsRight
<1>. QED BY <1>2, Invariance, PTL
==============================================================================
