---------------------------- MODULE AesBlockProofs ----------------------------
(***************************************************************************)
(* Proofs about AesBlock.tla: every access to a table and to the key       *)
(* schedule is within its bounds, and AES makes blocks of blocks, which is *)
(* what AesCtrProofs.tla asks of a cipher.                                 *)
(***************************************************************************)
EXTENDS AesBlock, AesCtrProofs

Quad(X) == X \X X \X X \X X

Word     == Quad(Octet)
AesState == Quad(Word)

------------------------------------------------------------------------------
(* Recursive functions.  States[n] has a type of its own for each n. *)

LEMMA Upwards ==
  ASSUME NEW a \in Nat, NEW b \in Nat, a <= b, NEW D, a \in D,
         \A n \in a .. b - 1 : n \in D => n + 1 \in D
  PROVE  \A n \in a .. b : n \in D
<1> DEFINE T == {n \in a .. b : n \notin D}
<1>1. SUFFICES ASSUME T # {} PROVE FALSE
  OBVIOUS
<1>2. PICK m \in T : \A l \in T : m <= l
  <2>1. T \subseteq Nat
    OBVIOUS
  <2> HIDE DEF T
  <2>. QED BY <1>1, <2>1, LeastNumber
<1>3. m \in a .. b /\ m \notin D /\ m # a
  OBVIOUS
<1>4. m - 1 \in a .. b - 1 /\ m - 1 \in a .. b /\ (m - 1) + 1 = m /\ ~ (m <= m - 1)
  BY <1>3
<1>5. m - 1 \notin T
  BY <1>2, <1>4
<1>. QED BY <1>3, <1>4, <1>5

(* f has the value x at a, and every other one is what Step makes of the   *)
(* one before it.  A[n] is the type of f[n].                               *)
Follows(f, a, b, x, Step, A) ==
  /\ f = [n \in a .. b |-> f[n]]
  /\ f[a] = x
  /\ \A n \in a + 1 .. b : f[n] = Step[n][f[n - 1]]
  /\ \A n \in a .. b : f[n] \in A[n]

LEMMA Recursion ==
  ASSUME NEW a \in Nat, NEW b \in Nat, a <= b,
         NEW A, NEW x, NEW Step,
         x \in A[a],
         \A n \in a + 1 .. b : \A s \in A[n - 1] : Step[n][s] \in A[n]
  PROVE  \E f : Follows(f, a, b, x, Step, A)
<1> DEFINE E(m, g) == Follows(g, a, m, x, Step, A)
           D == {m \in a .. b : \E g : E(m, g)}
<1>1. E(a, [n \in a .. a |-> x])
  <2> DEFINE g == [n \in a .. a |-> x]
  <2>1. g = [n \in a .. a |-> g[n]]
    OBVIOUS
  <2>2. g[a] = x /\ (\A n \in a .. a : n = a) /\ \A n : ~ (n \in a + 1 .. a)
    OBVIOUS
  <2> HIDE DEF g
  <2>3. E(a, g)
    BY <2>1, <2>2 DEF Follows
  <2>. QED BY <2>3 DEF g
<1>2. ASSUME NEW m \in a .. b - 1, NEW g, E(m, g)
      PROVE  \E h : E(m + 1, h)
  <2> DEFINE h == [n \in a .. m + 1 |-> IF n = m + 1 THEN Step[m + 1][g[m]] ELSE g[n]]
  <2>1. h = [n \in a .. m + 1 |-> h[n]]
    OBVIOUS
  <2>2. h[m + 1] = Step[m + 1][g[m]] /\ \A n \in a .. m : h[n] = g[n]
    OBVIOUS
  <2>3. m + 1 \in a + 1 .. b /\ m \in a .. m /\ (m + 1) - 1 = m /\ a \in a .. m
    OBVIOUS
  <2> HIDE DEF h
  <2>4. /\ g[a] = x
        /\ \A n \in a + 1 .. m : g[n] = Step[n][g[n - 1]]
        /\ \A n \in a .. m : g[n] \in A[n]
    BY <1>2 DEF Follows
  <2>5. h[a] = x
    BY <2>4, <2>2, <2>3
  <2>6. ASSUME NEW n \in a + 1 .. m + 1 PROVE h[n] = Step[n][h[n - 1]]
    <3>1. CASE n = m + 1
      BY <2>2, <2>3, <3>1
    <3>2. CASE n # m + 1
      <4>1. n \in a + 1 .. m /\ n \in a .. m /\ n - 1 \in a .. m
        BY <3>2
      <4>. QED BY <2>4, <2>2, <4>1
    <3>. QED BY <3>1, <3>2
  <2>7. ASSUME NEW n \in a .. m + 1 PROVE h[n] \in A[n]
    <3>1. CASE n = m + 1
      <4>1. g[m] \in A[(m + 1) - 1]
        BY <2>4, <2>3
      <4>2. Step[m + 1][g[m]] \in A[m + 1]
        BY <2>3, <4>1
      <4>. QED BY <2>2, <3>1, <4>2
    <3>2. CASE n # m + 1
      <4>1. n \in a .. m
        BY <3>2
      <4>. QED BY <2>4, <2>2, <4>1
    <3>. QED BY <3>1, <3>2
  <2>8. E(m + 1, h)
    BY <2>1, <2>5, <2>6, <2>7 DEF Follows
  <2>. QED BY <2>8
<1>3. \A m \in a .. b : m \in D
  <2>1. a \in D
    <3> DEFINE g == [n \in a .. a |-> x]
    <3>1. E(a, g) /\ a \in a .. b
      BY <1>1
    <3> HIDE DEF g, E
    <3>. QED BY <3>1
  <2>2. \A m \in a .. b - 1 : m \in D => m + 1 \in D
    <3>1. ASSUME NEW m \in a .. b - 1, m \in D PROVE m + 1 \in D
      <4>1. m + 1 \in a .. b /\ \E g : E(m, g)
        BY <3>1
      <4> HIDE DEF E
      <4>. QED BY <1>2, <4>1
    <3>. QED BY <3>1
  <2> HIDE DEF D
  <2>. QED BY <2>1, <2>2, Upwards
<1>4. PICK f : E(b, f)
  <2>1. b \in a .. b
    OBVIOUS
  <2>. QED BY <1>3, <2>1
<1>. QED BY <1>4

------------------------------------------------------------------------------
(* Bytes and tables *)

LEMMA XorHalfType ==
  ASSUME NEW a \in 0 .. 15, NEW b \in 0 .. 15
  PROVE  XorHalf[a][b] \in 0 .. 15
<1>1. ASSUME NEW p \in {1, 2, 4, 8}
      PROVE  (Bit(a, p) + Bit(b, p)) % 2 \in {0, 1}
  <2>1. Bit(a, p) \in {0, 1} /\ Bit(b, p) \in {0, 1}
    BY DEF Bit
  <2>. QED BY <2>1
<1>2. /\ 8 * ((Bit(a, 8) + Bit(b, 8)) % 2) \in {0, 8}
      /\ 4 * ((Bit(a, 4) + Bit(b, 4)) % 2) \in {0, 4}
      /\ 2 * ((Bit(a, 2) + Bit(b, 2)) % 2) \in {0, 2}
      /\ 1 * ((Bit(a, 1) + Bit(b, 1)) % 2) \in {0, 1}
  BY <1>1
<1>3. XorHalf[a][b] = 8 * ((Bit(a, 8) + Bit(b, 8)) % 2) + 4 * ((Bit(a, 4) + Bit(b, 4)) % 2)
                    + 2 * ((Bit(a, 2) + Bit(b, 2)) % 2) + 1 * ((Bit(a, 1) + Bit(b, 1)) % 2)
  BY DEF XorHalf
<1>. QED BY <1>2, <1>3

LEMMA Xor8Type ==
  ASSUME NEW a \in Octet, NEW b \in Octet
  PROVE  Xor8(a, b) \in Octet
<1>1. /\ a \div 16 \in 0 .. 15 /\ b \div 16 \in 0 .. 15
      /\ a % 16 \in 0 .. 15 /\ b % 16 \in 0 .. 15
  BY DEF Octet
<1>2. XorHalf[a \div 16][b \div 16] \in 0 .. 15 /\ XorHalf[a % 16][b % 16] \in 0 .. 15
  BY <1>1, XorHalfType
<1>. QED BY <1>2 DEF Xor8, Octet

LEMMA SubstituteType ==
  ASSUME NEW b \in Octet
  PROVE  Substitute(b) \in Octet
BY DEF Substitute, s_box, Octet

LEMMA CoefficientTable == Xor8(2, 2) = 0 /\ Xor8(3, 2) = 1
<1>1. /\ 2 \div 16 = 0 /\ 3 \div 16 = 0 /\ 2 % 16 = 2 /\ 3 % 16 = 3
      /\ 0 \in 0 .. 15 /\ 2 \in 0 .. 15 /\ 3 \in 0 .. 15
  OBVIOUS
<1>2. XorHalf[0][0] = 0 /\ XorHalf[2][2] = 0 /\ XorHalf[3][2] = 1
  BY DEF XorHalf, Bit
<1>. QED BY <1>1, <1>2 DEF Xor8

LEMMA ProductType ==
  ASSUME NEW b \in Octet
  PROVE  GF_8(2, b) \in Octet /\ GF_8(3, b) \in Octet
<1>1. gf_8_mult[1][b + 1] \in Octet /\ gf_8_mult[2][b + 1] \in Octet
  BY DEF gf_8_mult, Octet
<1>2. 0 + 1 = 1 /\ 1 + 1 = 2
  OBVIOUS
<1>. QED BY <1>1, <1>2, CoefficientTable DEF GF_8

------------------------------------------------------------------------------
(* Words and states *)

LEMMA ArrayIsSeq ==
  ASSUME NEW n \in Nat, NEW X, NEW s \in [1 .. n -> X]
  PROVE  s \in Seq(X) /\ Len(s) = n
OBVIOUS

LEMMA Joined ==
  ASSUME NEW X, NEW p \in Seq(X), NEW q \in Seq(X)
  PROVE  p \o q \in Seq(X) /\ Len(p \o q) = Len(p) + Len(q)
OBVIOUS

(* The word that starts at place n + 1.                                    *)
LEMMA WordAt ==
  ASSUME NEW m \in Nat, NEW s \in [1 .. m -> Octet], NEW n \in Nat, n + 4 <= m
  PROVE  SubSeq(s, n + 1, n + 4) \in Word
<1> DEFINE w == SubSeq(s, n + 1, n + 4)
<1>1. s \in Seq(Octet) /\ Len(s) = m
  BY ArrayIsSeq
<1>2. /\ w \in Seq(Octet) /\ Len(w) = 4
      /\ \A r \in 1 .. 4 : w[r] = s[n + r]
  <2>1. (n + 4) - (n + 1) + 1 = 4 /\ n + 1 \in 1 .. m /\ n + 4 \in 1 .. m
    OBVIOUS
  <2>. QED BY <1>1, <2>1
<1>3. \A r \in 1 .. 4 : s[n + r] \in Octet
  OBVIOUS
<1> HIDE DEF w
<1>4. w[1] \in Octet /\ w[2] \in Octet /\ w[3] \in Octet /\ w[4] \in Octet
  BY <1>2, <1>3
<1>5. w = <<w[1], w[2], w[3], w[4]>>
  BY <1>2
<1>6. <<w[1], w[2], w[3], w[4]>> \in Word
  BY <1>4 DEF Word, Quad
<1>7. w \in Word
  BY <1>5, <1>6
<1>. QED BY <1>7 DEF w

LEMMA QuadItems ==
  ASSUME NEW X, NEW q \in Quad(X)
  PROVE  /\ q[1] \in X /\ q[2] \in X /\ q[3] \in X /\ q[4] \in X
         /\ \A n \in 1 .. 4 : q[n] \in X
         /\ q = <<q[1], q[2], q[3], q[4]>>
         /\ q \in Seq(X) /\ Len(q) = 4
<1>1. PICK a \in X, b \in X, c \in X, d \in X : q = <<a, b, c, d>>
  BY DEF Quad
<1>2. q[1] = a /\ q[2] = b /\ q[3] = c /\ q[4] = d
  BY <1>1
<1>3. \A n \in 1 .. 4 : n = 1 \/ n = 2 \/ n = 3 \/ n = 4
  OBVIOUS
<1>4. <<a, b, c, d>> \in Seq(X) /\ Len(<<a, b, c, d>>) = 4
  OBVIOUS
<1>. QED BY <1>1, <1>2, <1>3, <1>4, Zenon

LEMMA FourType ==
  ASSUME NEW X, NEW f, f[1] \in X, f[2] \in X, f[3] \in X, f[4] \in X
  PROVE  Four(f) \in Quad(X)
BY DEF Four, Quad

LEMMA XorWordType ==
  ASSUME NEW v \in Word, NEW w \in Word
  PROVE  XorWord(v, w) \in Word
<1> DEFINE f == [r \in 1 .. 4 |-> Xor8(v[r], w[r])]
<1>1. \A r \in 1 .. 4 : f[r] \in Octet
  BY QuadItems, Xor8Type DEF Word
<1>2. f[1] \in Octet /\ f[2] \in Octet /\ f[3] \in Octet /\ f[4] \in Octet
  BY <1>1
<1> HIDE DEF f
<1>3. Four(f) \in Word
  BY <1>2, FourType DEF Word
<1>. QED BY <1>3 DEF XorWord, f

LEMMA SubWordType ==
  ASSUME NEW w \in Word
  PROVE  SubWord(w) \in Word
<1> DEFINE f == [r \in 1 .. 4 |-> Substitute(w[r])]
<1>1. \A r \in 1 .. 4 : f[r] \in Octet
  BY QuadItems, SubstituteType DEF Word
<1>2. f[1] \in Octet /\ f[2] \in Octet /\ f[3] \in Octet /\ f[4] \in Octet
  BY <1>1
<1> HIDE DEF f
<1>3. Four(f) \in Word
  BY <1>2, FourType DEF Word
<1>. QED BY <1>3 DEF SubWord, f

LEMMA RotationType ==
  ASSUME NEW w \in Word
  PROVE  RotWord(w) \in Word /\ Reverse4(w) \in Word
<1>1. w[1] \in Octet /\ w[2] \in Octet /\ w[3] \in Octet /\ w[4] \in Octet
  BY QuadItems DEF Word
<1>. QED BY <1>1 DEF RotWord, Reverse4, Word, Quad

LEMMA SubBytesType ==
  ASSUME NEW S \in AesState
  PROVE  SubBytes(S) \in AesState
<1> DEFINE f == [c \in 1 .. 4 |-> SubWord(S[c])]
<1>1. \A c \in 1 .. 4 : f[c] \in Word
  BY QuadItems, SubWordType DEF AesState
<1>2. f[1] \in Word /\ f[2] \in Word /\ f[3] \in Word /\ f[4] \in Word
  BY <1>1
<1> HIDE DEF f
<1>3. Four(f) \in AesState
  BY <1>2, FourType DEF AesState
<1>. QED BY <1>3 DEF SubBytes, f

LEMMA ShiftRowsType ==
  ASSUME NEW S \in AesState
  PROVE  ShiftRows(S) \in AesState
<1> DEFINE col(c) == [r \in 1 .. 4 |-> S[((c + r - 2) % 4) + 1][r]]
           f == [c \in 1 .. 4 |-> Four(col(c))]
<1>1. ASSUME NEW c \in 1 .. 4 PROVE Four(col(c)) \in Word
  <2>1. ASSUME NEW r \in 1 .. 4 PROVE col(c)[r] \in Octet
    <3>1. ((c + r - 2) % 4) + 1 \in 1 .. 4
      OBVIOUS
    <3>2. S[((c + r - 2) % 4) + 1] \in Word
      BY <3>1, QuadItems DEF AesState
    <3>. QED BY <3>2, QuadItems DEF Word
  <2> HIDE DEF col
  <2>. QED BY <2>1, FourType DEF Word
<1>2. \A c \in 1 .. 4 : f[c] \in Word
  <2> HIDE DEF col
  <2>. QED BY <1>1
<1>3. f[1] \in Word /\ f[2] \in Word /\ f[3] \in Word /\ f[4] \in Word
  BY <1>2
<1>4. Four(f) \in AesState
  <2> HIDE DEF f
  <2>. QED BY <1>3, FourType DEF AesState
<1>. QED BY <1>4 DEF ShiftRows, f, col

LEMMA MixColumnType ==
  ASSUME NEW col \in Word
  PROVE  MixColumn(col) \in Word
<1> DEFINE Byte4(r) == col[((r - 1) % 4) + 1]
           f == [r \in 1 .. 4 |-> Xor8(Xor8(GF_8(2, Byte4(r)), GF_8(3, Byte4(r + 1))),
                                       Xor8(Byte4(r + 2), Byte4(r + 3)))]
<1>1. ASSUME NEW r \in 1 .. 7 PROVE Byte4(r) \in Octet
  <2>1. ((r - 1) % 4) + 1 \in 1 .. 4
    OBVIOUS
  <2>. QED BY <2>1, QuadItems DEF Word
<1>2. ASSUME NEW r \in 1 .. 4 PROVE f[r] \in Octet
  <2>1. r \in 1 .. 7 /\ r + 1 \in 1 .. 7 /\ r + 2 \in 1 .. 7 /\ r + 3 \in 1 .. 7
    OBVIOUS
  <2>2. /\ Byte4(r) \in Octet /\ Byte4(r + 1) \in Octet
        /\ Byte4(r + 2) \in Octet /\ Byte4(r + 3) \in Octet
    BY <1>1, <2>1
  <2> HIDE DEF Byte4
  <2>3. Xor8(Xor8(GF_8(2, Byte4(r)), GF_8(3, Byte4(r + 1))),
             Xor8(Byte4(r + 2), Byte4(r + 3))) \in Octet
    BY <2>2, ProductType, Xor8Type
  <2>. QED BY <2>3
<1>3. f[1] \in Octet /\ f[2] \in Octet /\ f[3] \in Octet /\ f[4] \in Octet
  <2> HIDE DEF f
  <2>. QED BY <1>2
<1>4. Four(f) \in Word
  <2> HIDE DEF f
  <2>. QED BY <1>3, FourType DEF Word
<1>. QED BY <1>4 DEF MixColumn, f, Byte4

LEMMA MixColumnsType ==
  ASSUME NEW S \in AesState
  PROVE  MixColumns(S) \in AesState
<1> DEFINE f == [c \in 1 .. 4 |-> MixColumn(S[c])]
<1>1. \A c \in 1 .. 4 : f[c] \in Word
  BY QuadItems, MixColumnType DEF AesState
<1>2. f[1] \in Word /\ f[2] \in Word /\ f[3] \in Word /\ f[4] \in Word
  BY <1>1
<1> HIDE DEF f
<1>3. Four(f) \in AesState
  BY <1>2, FourType DEF AesState
<1>. QED BY <1>3 DEF MixColumns, f

------------------------------------------------------------------------------
(* The key schedule *)

Schedule == [1 .. N_WORDS -> Word]

LEMMA ScheduleLength == N_WORDS = 60 /\ Nk = 8
BY DEF N_WORDS, N_COLUMNS, N_ROUNDS, Nk

(* rcon is asked for its entries 1 to 7 only.                              *)
LEMMA TempType ==
  ASSUME NEW n \in 8 .. 59, NEW tmp \in Word
  PROVE  Temp(n, tmp) \in Word
<1>1. n % Nk = 0 => n \div Nk \in 1 .. 7
  BY DEF Nk
<1>2. ASSUME NEW j \in 1 .. 7 PROVE <<0, 0, 0, rcon[j]>> \in Word
  BY DEF rcon, Word, Quad, Octet
<1>3. SubWord(tmp) \in Word /\ SubWord(RotWord(tmp)) \in Word
  BY RotationType, SubWordType
<1>. QED BY <1>1, <1>2, <1>3, XorWordType DEF Temp

LEMMA ExpandType ==
  ASSUME NEW key_words \in [1 .. 8 -> Word]
  PROVE  Expand(key_words) \in Schedule
<1> DEFINE A == [n \in 8 .. 60 |-> [1 .. n -> Word]]
           More(n, w) == Append(w, XorWord(w[n - Nk], Temp(n - 1, w[n - 1])))
           Step == [n \in 9 .. 60 |-> [w \in [1 .. n - 1 -> Word] |-> More(n, w)]]
           Eq(f) == f = [n \in Nk .. N_WORDS |->
                           IF n = Nk THEN key_words ELSE More(n, f[n - 1])]
           W == CHOOSE f : Eq(f)
<1>0. N_WORDS = 60 /\ Nk = 8
  BY ScheduleLength
<1>1. ASSUME NEW n \in 9 .. 60, NEW w \in [1 .. n - 1 -> Word]
      PROVE  More(n, w) \in [1 .. n -> Word]
  <2>1. n - Nk \in 1 .. n - 1 /\ n - 1 \in 1 .. n - 1 /\ n - 1 \in 8 .. 59
    BY <1>0
  <2>2. XorWord(w[n - Nk], Temp(n - 1, w[n - 1])) \in Word
    <3>1. w[n - Nk] \in Word /\ w[n - 1] \in Word
      BY <2>1
    <3>2. Temp(n - 1, w[n - 1]) \in Word
      BY <2>1, <3>1, TempType
    <3>. QED BY <3>1, <3>2, XorWordType
  <2> DEFINE e == XorWord(w[n - Nk], Temp(n - 1, w[n - 1]))
  <2> HIDE DEF e
  <2>3. ASSUME NEW e1 \in Word PROVE Append(w, e1) \in [1 .. n -> Word]
    <3>1. w \in Seq(Word) /\ Len(w) = n - 1
      OBVIOUS
    <3>2. Append(w, e1) \in Seq(Word) /\ Len(Append(w, e1)) = n
      BY <3>1
    <3>. QED BY <3>2, LenProperties
  <2>. QED BY <2>2, <2>3
<1>2. \E f : Follows(f, 8, 60, key_words, Step, A)
  <2>1. key_words \in A[8]
    OBVIOUS
  <2>2. \A n \in 8 + 1 .. 60 : \A w \in A[n - 1] : Step[n][w] \in A[n]
    <3>1. ASSUME NEW n \in 8 + 1 .. 60, NEW w \in A[n - 1] PROVE Step[n][w] \in A[n]
      <4>1. n \in 9 .. 60 /\ n - 1 \in 8 .. 60 /\ n \in 8 .. 60
        <5> HIDE DEF A, Step
        <5>. QED BY <3>1
      <4>2. A[n - 1] = [1 .. n - 1 -> Word] /\ A[n] = [1 .. n -> Word]
        BY <4>1
      <4> HIDE DEF A
      <4> HIDE DEF More
      <4>3. Step[n][w] = More(n, w)
        BY <4>1, <4>2
      <4>. QED BY <1>1, <4>1, <4>2, <4>3
    <3>. QED BY <3>1
  <2>3. 8 \in Nat /\ 60 \in Nat /\ 8 <= 60
    OBVIOUS
  <2> HIDE DEF A, Step
  <2>. QED BY <2>1, <2>2, <2>3, Recursion
<1>3. PICK f : /\ f = [n \in 8 .. 60 |-> f[n]]
               /\ f[8] = key_words
               /\ \A n \in 8 + 1 .. 60 : f[n] = Step[n][f[n - 1]]
               /\ \A n \in 8 .. 60 : f[n] \in A[n]
  BY <1>2 DEF Follows
<1>4. Eq(f)
  <2>1. ASSUME NEW n \in 9 .. 60 PROVE Step[n][f[n - 1]] = More(n, f[n - 1])
    <3>1. n - 1 \in 8 .. 60
      OBVIOUS
    <3>2. f[n - 1] \in A[n - 1] /\ A[n - 1] = [1 .. n - 1 -> Word]
      BY <1>3, <3>1
    <3> HIDE DEF More, A
    <3>. QED BY <3>2
  <2>2. \A n \in 8 .. 60 : n # 8 => n \in 9 .. 60 /\ n \in 8 + 1 .. 60
    OBVIOUS
  <2>3. \A n \in 8 .. 60 : f[n] = IF n = 8 THEN key_words ELSE More(n, f[n - 1])
    <3> HIDE DEF More, Step
    <3>. QED BY <1>3, <2>1, <2>2
  <2> HIDE DEF More, Step
  <2>. QED BY <1>0, <1>3, <2>3
<1>5. Eq(W)
  <2> HIDE DEF Eq
  <2>. QED BY <1>4
<1>6. \A n \in 8 .. 60 : W[n] = IF n = 8 THEN key_words ELSE More(n, W[n - 1])
  <2> HIDE DEF W, More
  <2>. QED BY <1>0, <1>5
<1>7. ASSUME NEW n \in 8 .. 59, W[n] \in [1 .. n -> Word]
      PROVE  W[n + 1] \in [1 .. n + 1 -> Word]
  <2>1. n + 1 \in 9 .. 60 /\ n + 1 \in 8 .. 60 /\ (n + 1) - 1 = n /\ n + 1 # 8
    OBVIOUS
  <2> HIDE DEF W, More
  <2>2. More(n + 1, W[n]) \in [1 .. n + 1 -> Word]
    BY <1>1, <1>7, <2>1
  <2>. QED BY <1>6, <2>1, <2>2
<1>8. \A n \in 8 .. 60 : W[n] \in [1 .. n -> Word]
  <2> DEFINE D == {n \in 8 .. 60 : W[n] \in [1 .. n -> Word]}
  <2>1. 8 \in D
    <3>1. 8 \in 8 .. 60
      OBVIOUS
    <3> HIDE DEF W, More
    <3>. QED BY <1>6, <3>1
  <2>2. \A n \in 8 .. 60 - 1 : n \in D => n + 1 \in D
    <3>1. ASSUME NEW n \in 8 .. 60 - 1, n \in D PROVE n + 1 \in D
      <4>1. n \in 8 .. 59 /\ n + 1 \in 8 .. 60 /\ W[n] \in [1 .. n -> Word]
        <5> HIDE DEF W
        <5>. QED BY <3>1
      <4> HIDE DEF W
      <4>. QED BY <1>7, <4>1
    <3>. QED BY <3>1
  <2>3. \A n \in 8 .. 60 : n \in D
    <3>1. 8 \in Nat /\ 60 \in Nat /\ 8 <= 60
      OBVIOUS
    <3> HIDE DEF D
    <3>. QED BY <2>1, <2>2, <3>1, Upwards
  <2> HIDE DEF W
  <2>. QED BY <2>3
<1>9. Expand(key_words) = W[N_WORDS]
  BY DEF Expand
<1>10. W[60] \in [1 .. 60 -> Word]
  <2> HIDE DEF W
  <2>. QED BY <1>8
<1> HIDE DEF W
<1>. QED BY <1>0, <1>9, <1>10 DEF Schedule

SecretKey == [1 .. 4 * Nk -> Octet]

(* Every read of the secret key, of rcon and of the substitution table is  *)
(* within its bounds, and the schedule has its length, for every key.      *)
THEOREM KeyScheduleMade ==
  ASSUME NEW secret_key \in SecretKey
  PROVE  aes_key_expansion(secret_key) \in Schedule
<1> DEFINE first == [n \in 1 .. Nk |-> Reverse4(SubSeq(secret_key, 4 * n - 3, 4 * n))]
           words == Expand(first)
<1>1. ASSUME NEW n \in 1 .. 8 PROVE Reverse4(SubSeq(secret_key, 4 * n - 3, 4 * n)) \in Word
  <2>1. secret_key \in [1 .. 32 -> Octet]
    BY DEF SecretKey, Nk
  <2>2. /\ 4 * n - 4 \in Nat /\ (4 * n - 4) + 4 <= 32 /\ 32 \in Nat
        /\ (4 * n - 4) + 1 = 4 * n - 3 /\ (4 * n - 4) + 4 = 4 * n
    OBVIOUS
  <2>3. SubSeq(secret_key, (4 * n - 4) + 1, (4 * n - 4) + 4) \in Word
    BY <2>1, <2>2, WordAt
  <2>. QED BY <2>2, <2>3, RotationType
<1>2. first \in [1 .. 8 -> Word]
  BY <1>1 DEF Nk
<1>3. words \in Schedule
  <2> HIDE DEF first
  <2>. QED BY <1>2, ExpandType
<1>4. Len(words) = N_WORDS
  <2> HIDE DEF words
  <2>. QED BY <1>3, ScheduleLength DEF Schedule
<1>5. aes_key_expansion(secret_key) = [n \in 1 .. Len(words) |-> Reverse4(words[n])]
  BY DEF aes_key_expansion
<1>6. [n \in 1 .. N_WORDS |-> Reverse4(words[n])] \in Schedule
  <2>1. ASSUME NEW n \in 1 .. N_WORDS PROVE Reverse4(words[n]) \in Word
    <3> HIDE DEF words
    <3>. QED BY <1>3, RotationType DEF Schedule
  <2> HIDE DEF words
  <2>. QED BY <2>1 DEF Schedule
<1> HIDE DEF words
<1>. QED BY <1>4, <1>5, <1>6

------------------------------------------------------------------------------
(* The rounds *)

LEMMA KeyAdditionType ==
  ASSUME NEW S \in AesState, NEW round \in 0 .. 14, NEW schedule \in Schedule
  PROVE  KeyAddition(S, round, schedule) \in AesState
<1> DEFINE f == [c \in 1 .. 4 |-> XorWord(S[c], schedule[round * N_COLUMNS + c])]
<1>1. ASSUME NEW c \in 1 .. 4 PROVE f[c] \in Word
  <2>1. round * N_COLUMNS + c \in 1 .. N_WORDS
    BY ScheduleLength DEF N_COLUMNS
  <2>2. schedule[round * N_COLUMNS + c] \in Word
    BY <2>1 DEF Schedule
  <2>. QED BY <2>2, QuadItems, XorWordType DEF AesState
<1>2. f[1] \in Word /\ f[2] \in Word /\ f[3] \in Word /\ f[4] \in Word
  <2> HIDE DEF f
  <2>. QED BY <1>1
<1>3. Four(f) \in AesState
  <2> HIDE DEF f
  <2>. QED BY <1>2, FourType DEF AesState
<1>. QED BY <1>3 DEF KeyAddition, f

LEMMA RoundType ==
  ASSUME NEW S \in AesState, NEW round \in 0 .. 14, NEW schedule \in Schedule
  PROVE  Round(S, round, schedule) \in AesState
<1>1. ShiftRows(SubBytes(S)) \in AesState
  BY SubBytesType, ShiftRowsType
<1>2. MixColumns(ShiftRows(SubBytes(S))) \in AesState
  BY <1>1, MixColumnsType
<1>. QED BY <1>1, <1>2, KeyAdditionType DEF Round

LEMMA RoundsType ==
  ASSUME NEW S \in AesState, NEW schedule \in Schedule
  PROVE  Rounds(S, schedule) \in AesState
<1> DEFINE A == [n \in 1 .. 15 |-> [1 .. n -> AesState]]
           start == <<KeyAddition(S, 0, schedule)>>
           More(n, s) == Append(s, Round(s[n - 1], n - 1, schedule))
           Step == [n \in 2 .. 15 |-> [s \in [1 .. n - 1 -> AesState] |-> More(n, s)]]
           Eq(f) == f = [n \in 1 .. N_ROUNDS + 1 |->
                           IF n = 1 THEN start ELSE More(n, f[n - 1])]
           W == CHOOSE f : Eq(f)
<1>0. N_ROUNDS + 1 = 15
  BY DEF N_ROUNDS
<1>1. ASSUME NEW n \in 2 .. 15, NEW s \in [1 .. n - 1 -> AesState]
      PROVE  More(n, s) \in [1 .. n -> AesState]
  <2>1. n - 1 \in 1 .. n - 1 /\ n - 1 \in 0 .. 14
    OBVIOUS
  <2>2. Round(s[n - 1], n - 1, schedule) \in AesState
    BY <2>1, RoundType
  <2>3. ASSUME NEW e \in AesState PROVE Append(s, e) \in [1 .. n -> AesState]
    <3>1. s \in Seq(AesState) /\ Len(s) = n - 1
      OBVIOUS
    <3>2. Append(s, e) \in Seq(AesState) /\ Len(Append(s, e)) = n
      BY <3>1
    <3>. QED BY <3>2, LenProperties
  <2>. QED BY <2>2, <2>3
<1>s. start \in [1 .. 1 -> AesState]
  <2>1. KeyAddition(S, 0, schedule) \in AesState
    BY KeyAdditionType
  <2>2. ASSUME NEW e \in AesState PROVE <<e>> \in [1 .. 1 -> AesState]
    OBVIOUS
  <2>. QED BY <2>1, <2>2
<1>2. \E f : Follows(f, 1, 15, start, Step, A)
  <2>1. start \in A[1]
    <3> HIDE DEF start
    <3>. QED BY <1>s
  <2>2. \A n \in 1 + 1 .. 15 : \A s \in A[n - 1] : Step[n][s] \in A[n]
    <3>1. ASSUME NEW n \in 1 + 1 .. 15, NEW s \in A[n - 1] PROVE Step[n][s] \in A[n]
      <4>1. n \in 2 .. 15 /\ n - 1 \in 1 .. 15 /\ n \in 1 .. 15
        <5> HIDE DEF A, Step
        <5>. QED BY <3>1
      <4>2. A[n - 1] = [1 .. n - 1 -> AesState] /\ A[n] = [1 .. n -> AesState]
        BY <4>1
      <4> HIDE DEF More, A
      <4>3. Step[n][s] = More(n, s)
        BY <4>1, <4>2
      <4>. QED BY <1>1, <4>1, <4>2, <4>3
    <3>. QED BY <3>1
  <2>3. 1 \in Nat /\ 15 \in Nat /\ 1 <= 15
    OBVIOUS
  <2> HIDE DEF A, Step, start
  <2>. QED BY <2>1, <2>2, <2>3, Recursion
<1>3. PICK f : /\ f = [n \in 1 .. 15 |-> f[n]]
               /\ f[1] = start
               /\ \A n \in 1 + 1 .. 15 : f[n] = Step[n][f[n - 1]]
               /\ \A n \in 1 .. 15 : f[n] \in A[n]
  BY <1>2 DEF Follows
<1>4. Eq(f)
  <2>1. ASSUME NEW n \in 2 .. 15 PROVE Step[n][f[n - 1]] = More(n, f[n - 1])
    <3>1. n - 1 \in 1 .. 15
      OBVIOUS
    <3>2. f[n - 1] \in A[n - 1] /\ A[n - 1] = [1 .. n - 1 -> AesState]
      BY <1>3, <3>1
    <3> HIDE DEF More, A
    <3>. QED BY <3>2
  <2>2. \A n \in 1 .. 15 : n # 1 => n \in 2 .. 15 /\ n \in 1 + 1 .. 15
    OBVIOUS
  <2>3. \A n \in 1 .. 15 : f[n] = IF n = 1 THEN start ELSE More(n, f[n - 1])
    <3> HIDE DEF More, Step, start
    <3>. QED BY <1>3, <2>1, <2>2
  <2> HIDE DEF More, Step, start
  <2>. QED BY <1>0, <1>3, <2>3
<1>5. Eq(W)
  <2> HIDE DEF Eq
  <2>. QED BY <1>4
<1>6. \A n \in 1 .. 15 : W[n] = IF n = 1 THEN start ELSE More(n, W[n - 1])
  <2> HIDE DEF W, More, start
  <2>. QED BY <1>0, <1>5
<1>7. ASSUME NEW n \in 1 .. 14, W[n] \in [1 .. n -> AesState]
      PROVE  W[n + 1] \in [1 .. n + 1 -> AesState]
  <2>1. n + 1 \in 2 .. 15 /\ n + 1 \in 1 .. 15 /\ (n + 1) - 1 = n /\ n + 1 # 1
    OBVIOUS
  <2> HIDE DEF W, More
  <2>2. More(n + 1, W[n]) \in [1 .. n + 1 -> AesState]
    BY <1>1, <1>7, <2>1
  <2>. QED BY <1>6, <2>1, <2>2
<1>8. \A n \in 1 .. 15 : W[n] \in [1 .. n -> AesState]
  <2> DEFINE D == {n \in 1 .. 15 : W[n] \in [1 .. n -> AesState]}
  <2>1. 1 \in D
    <3>1. 1 \in 1 .. 15
      OBVIOUS
    <3> HIDE DEF W, More, start
    <3>. QED BY <1>6, <1>s, <3>1
  <2>2. \A n \in 1 .. 15 - 1 : n \in D => n + 1 \in D
    <3>1. ASSUME NEW n \in 1 .. 15 - 1, n \in D PROVE n + 1 \in D
      <4>1. n \in 1 .. 14 /\ n + 1 \in 1 .. 15 /\ W[n] \in [1 .. n -> AesState]
        <5> HIDE DEF W
        <5>. QED BY <3>1
      <4> HIDE DEF W
      <4>. QED BY <1>7, <4>1
    <3>. QED BY <3>1
  <2>3. \A n \in 1 .. 15 : n \in D
    <3>1. 1 \in Nat /\ 15 \in Nat /\ 1 <= 15
      OBVIOUS
    <3> HIDE DEF D
    <3>. QED BY <2>1, <2>2, <3>1, Upwards
  <2> HIDE DEF W
  <2>. QED BY <2>3
<1>9. Rounds(S, schedule) = W[N_ROUNDS + 1][N_ROUNDS + 1]
  BY DEF Rounds
<1>10. W[15][15] \in AesState
  <2> HIDE DEF W
  <2>. QED BY <1>8
<1> HIDE DEF W
<1>. QED BY <1>0, <1>9, <1>10

AesBlocks == [1 .. 16 -> Octet]

(* Four words one behind the other.                                        *)
LEMMA Flattened ==
  ASSUME NEW C \in AesState
  PROVE  C[1] \o C[2] \o C[3] \o C[4] \in AesBlocks
<1>1. \A c \in 1 .. 4 : C[c] \in Seq(Octet) /\ Len(C[c]) = 4
  <2>1. \A c \in 1 .. 4 : C[c] \in Word
    BY QuadItems DEF AesState
  <2>. QED BY <2>1, QuadItems DEF Word
<1>2. /\ C[1] \in Seq(Octet) /\ Len(C[1]) = 4 /\ C[2] \in Seq(Octet) /\ Len(C[2]) = 4
      /\ C[3] \in Seq(Octet) /\ Len(C[3]) = 4 /\ C[4] \in Seq(Octet) /\ Len(C[4]) = 4
  BY <1>1
<1> DEFINE a == C[1]
           b == C[2]
           c == C[3]
           d == C[4]
           ab == a \o b
           abc == ab \o c
<1>3. ab \in Seq(Octet) /\ Len(ab) = Len(a) + Len(b)
  BY <1>2, Joined, Zenon
<1>4. abc \in Seq(Octet) /\ Len(abc) = Len(ab) + Len(c)
  <2> HIDE DEF ab
  <2>. QED BY <1>2, <1>3, Joined, Zenon
<1>5. abc \o d \in Seq(Octet) /\ Len(abc \o d) = Len(abc) + Len(d)
  <2> HIDE DEF abc
  <2>. QED BY <1>2, <1>4, Joined, Zenon
<1>6. C[1] \o C[2] \o C[3] \o C[4] = abc \o d
  OBVIOUS
<1>7. abc \o d \in Seq(Octet) /\ Len(abc \o d) = 16
  <2> HIDE DEF ab, abc
  <2>. QED BY <1>2, <1>3, <1>4, <1>5
<1> HIDE DEF abc, d
<1>8. abc \o d \in AesBlocks
  BY <1>7, LenProperties DEF AesBlocks
<1>. QED BY <1>6, <1>8

(* Every read of the state, of the key schedule and of the two tables is   *)
(* within its bounds, and a block is encrypted to a block.                 *)
THEOREM AesMakesBlocks ==
  ASSUME NEW plain_text \in AesBlocks, NEW schedule \in Schedule
  PROVE  aes_encryption(plain_text, schedule) \in AesBlocks
<1> DEFINE f == [c \in 1 .. 4 |-> SubSeq(plain_text, 4 * c - 3, 4 * c)]
           S == Four(f)
<1>1. ASSUME NEW c \in 1 .. 4 PROVE SubSeq(plain_text, 4 * c - 3, 4 * c) \in Word
  <2>1. /\ 4 * c - 4 \in Nat /\ (4 * c - 4) + 4 <= 16 /\ 16 \in Nat
        /\ (4 * c - 4) + 1 = 4 * c - 3 /\ (4 * c - 4) + 4 = 4 * c
    OBVIOUS
  <2>2. SubSeq(plain_text, (4 * c - 4) + 1, (4 * c - 4) + 4) \in Word
    BY <2>1, WordAt DEF AesBlocks
  <2>. QED BY <2>1, <2>2
<1>2. f[1] \in Word /\ f[2] \in Word /\ f[3] \in Word /\ f[4] \in Word
  BY <1>1
<1>3. S \in AesState
  <2> HIDE DEF f
  <2>. QED BY <1>2, FourType DEF AesState
<1>4. aes_encryption(plain_text, schedule)
        = Rounds(S, schedule)[1] \o Rounds(S, schedule)[2]
            \o Rounds(S, schedule)[3] \o Rounds(S, schedule)[4]
  BY DEF aes_encryption
<1> HIDE DEF S
<1>5. Rounds(S, schedule) \in AesState
  BY <1>3, RoundsType
<1>. QED BY <1>4, <1>5, Flattened

------------------------------------------------------------------------------
(* AES in counter mode *)

(* The program: the sizes of the code, aes_encryption as the cipher, and   *)
(* schedules that aes_key_expansion made.                                  *)
AesUsed ==
  /\ BLK_BYTES = 16 /\ ByteMod = 256
  /\ Key \subseteq {aes_key_expansion(k) : k \in SecretKey}
  /\ \A block \in AesBlocks, schedule \in Schedule :
       Cipher(block, schedule) = aes_encryption(block, schedule)

(* aes_ctr.c with aes.c: nothing is assumed of the cipher any more.        *)
THEOREM AesStreamIsOfWideCounter ==
  ASSUME AesUsed
  PROVE  Spec => [](TypeOK /\ OutputComplete /\ StreamOfWideCounter)
<1>1. CipherMakesBlocks
  <2>1. Block = AesBlocks
    BY DEF AesUsed, Block, Byte, AesBlocks, Octet
  <2>2. \A k \in Key : k \in Schedule
    BY KeyScheduleMade DEF AesUsed
  <2>. QED BY <2>1, <2>2, AesMakesBlocks DEF AesUsed, CipherMakesBlocks
<1>. QED BY <1>1, TypeCorrect, OutputIsComplete, StreamIsOfWideCounter, PTL
==============================================================================
