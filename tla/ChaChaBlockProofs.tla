-------------------------- MODULE ChaChaBlockProofs --------------------------
(***************************************************************************)
(* What holds of the three block functions for all words and operations:   *)
(* the vector code computes what the scalar code computes, lane by lane.   *)
(* Only the closure of the set of words is assumed of the operations; the  *)
(* last section shows it for the words of MCChaChaBlock.tla.               *)
(***************************************************************************)
EXTENDS MCChaChaBlock, TLAPS

(* Sums, exclusive ors and rotations of words are words.                   *)
WordsClosed ==
  \A v, w \in Word :
    /\ Add(v, w) \in Word
    /\ Xor(v, w) \in Word
    /\ \A n \in {7, 8, 12, 16} : Rotl(v, n) \in Word

Lanes128 == 0 .. 3
Lanes256 == 0 .. 7
Words == [Place -> Word]
Rows(L) == [1 .. 4 -> [L -> Word]]

------------------------------------------------------------------------------
(* The scalar rounds *)

(* A quarter round makes four words of four words.                         *)
LEMMA QuarterType ==
  ASSUME WordsClosed, NEW a \in Word, NEW b \in Word, NEW c \in Word, NEW d \in Word
  PROVE  /\ Quarter(a, b, c, d)[1] \in Word
         /\ Quarter(a, b, c, d)[2] \in Word
         /\ Quarter(a, b, c, d)[3] \in Word
         /\ Quarter(a, b, c, d)[4] \in Word
<1> DEFINE a1 == Add(a, b)     d1 == Rotl(Xor(d, a1), 16)
           c1 == Add(c, d1)    b1 == Rotl(Xor(b, c1), 12)
           a2 == Add(a1, b1)   d2 == Rotl(Xor(d1, a2), 8)
           c2 == Add(c1, d2)   b2 == Rotl(Xor(b1, c2), 7)
<1>1. a1 \in Word /\ d1 \in Word
  BY DEF WordsClosed
<1>2. c1 \in Word /\ b1 \in Word
  <2> HIDE DEF a1, d1
  <2> QED BY <1>1 DEF WordsClosed
<1>3. a2 \in Word /\ d2 \in Word
  <2> HIDE DEF a1, d1, c1, b1
  <2> QED BY <1>1, <1>2 DEF WordsClosed
<1>4. c2 \in Word /\ b2 \in Word
  <2> HIDE DEF a1, d1, c1, b1, a2, d2
  <2> QED BY <1>1, <1>2, <1>3 DEF WordsClosed
<1>5. Quarter(a, b, c, d) = <<a2, b2, c2, d2>>
  BY DEF Quarter
<1> HIDE DEF a1, d1, c1, b1, a2, d2, c2, b2
<1> QED BY <1>3, <1>4, <1>5

(* Matrix n is m with a quarter round made at places a, b, c and d.         *)
QuarterMade(n, m, a, b, c, d) ==
  /\ n \in Words
  /\ n[a] = Quarter(m[a], m[b], m[c], m[d])[1]
  /\ n[b] = Quarter(m[a], m[b], m[c], m[d])[2]
  /\ n[c] = Quarter(m[a], m[b], m[c], m[d])[3]
  /\ n[d] = Quarter(m[a], m[b], m[c], m[d])[4]
  /\ \A p \in Place \ {a, b, c, d} : n[p] = m[p]

(* A quarter round in the matrix replaces the four words at its places and *)
(* leaves the others.                                                      *)
LEMMA QuarterRound ==
  ASSUME WordsClosed, NEW m, m \in Words,
         NEW a \in Place, NEW b \in Place, NEW c \in Place, NEW d \in Place,
         a # b, a # c, a # d, b # c, b # d, c # d
  PROVE  QuarterMade(chacha_quarter_round(m, a, b, c, d), m, a, b, c, d)
<1> DEFINE q == Quarter(m[a], m[b], m[c], m[d])
<1>1. m[a] \in Word /\ m[b] \in Word /\ m[c] \in Word /\ m[d] \in Word
  BY DEF Words
<1>2. q[1] \in Word /\ q[2] \in Word /\ q[3] \in Word /\ q[4] \in Word
  BY <1>1, QuarterType
<1>3. chacha_quarter_round(m, a, b, c, d)
        = [m EXCEPT ![a] = q[1], ![b] = q[2], ![c] = q[3], ![d] = q[4]]
  BY DEF chacha_quarter_round
<1> DEFINE n == chacha_quarter_round(m, a, b, c, d)
<1> HIDE DEF q
<1>4. /\ n \in Words
      /\ n[a] = q[1] /\ n[b] = q[2] /\ n[c] = q[3] /\ n[d] = q[4]
      /\ \A p \in Place \ {a, b, c, d} : n[p] = m[p]
  BY <1>2, <1>3 DEF Words
<1> QED BY <1>4 DEF q, QuarterMade

(* Columns is four quarter rounds, each on the column of its words.        *)
LEMMA ColumnsRound ==
  ASSUME WordsClosed, NEW m \in Words
  PROVE  /\ Columns(m) \in Words
         /\ \A r \in 1 .. 4, l \in 0 .. 3 :
              Columns(m)[4 * (r - 1) + l]
                = Quarter(m[l], m[4 + l], m[8 + l], m[12 + l])[r]
<1> DEFINE m1 == chacha_quarter_round(m, 0, 4,  8, 12)
           m2 == chacha_quarter_round(m1, 1, 5,  9, 13)
           m3 == chacha_quarter_round(m2, 2, 6, 10, 14)
           m4 == chacha_quarter_round(m3, 3, 7, 11, 15)
           Q(l) == Quarter(m[l], m[4 + l], m[8 + l], m[12 + l])
<1> HIDE DEF m1, m2, m3, m4
<1>1. /\ m1 \in Words
      /\ m1[0] = Q(0)[1] /\ m1[4] = Q(0)[2] /\ m1[8] = Q(0)[3] /\ m1[12] = Q(0)[4]
      /\ \A p \in Place \ {0, 4, 8, 12} : m1[p] = m[p]
  <2> HIDE DEF Q
  <2>1. Q(0) = Quarter(m[0], m[4], m[8], m[12])
    BY DEF Q
  <2>2. QuarterMade(m1, m, 0, 4, 8, 12)
    <3>1. m \in Words /\ 0 \in Place /\ 4 \in Place /\ 8 \in Place /\ 12 \in Place
      BY DEF Place
    <3> QED BY <3>1, QuarterRound DEF m1
  <2> QED BY <2>1, <2>2 DEF QuarterMade
<1>2. /\ m2 \in Words
      /\ m2[1] = Q(1)[1] /\ m2[5] = Q(1)[2] /\ m2[9] = Q(1)[3] /\ m2[13] = Q(1)[4]
      /\ \A p \in Place \ {1, 5, 9, 13} : m2[p] = m1[p]
  <2> HIDE DEF Q
  <2>1. Q(1) = Quarter(m1[1], m1[5], m1[9], m1[13])
    BY <1>1 DEF Q, Place
  <2>2. QuarterMade(m2, m1, 1, 5, 9, 13)
    <3>1. m1 \in Words /\ 1 \in Place /\ 5 \in Place /\ 9 \in Place /\ 13 \in Place
      BY <1>1 DEF Place
    <3> QED BY <3>1, QuarterRound DEF m2
  <2> QED BY <2>1, <2>2 DEF QuarterMade
<1>3. /\ m3 \in Words
      /\ m3[2] = Q(2)[1] /\ m3[6] = Q(2)[2] /\ m3[10] = Q(2)[3] /\ m3[14] = Q(2)[4]
      /\ \A p \in Place \ {2, 6, 10, 14} : m3[p] = m2[p]
  <2> HIDE DEF Q
  <2>1. Q(2) = Quarter(m2[2], m2[6], m2[10], m2[14])
    BY <1>1, <1>2 DEF Q, Place
  <2>2. QuarterMade(m3, m2, 2, 6, 10, 14)
    <3>1. m2 \in Words /\ 2 \in Place /\ 6 \in Place /\ 10 \in Place /\ 14 \in Place
      BY <1>2 DEF Place
    <3> QED BY <3>1, QuarterRound DEF m3
  <2> QED BY <2>1, <2>2 DEF QuarterMade
<1>4. /\ m4 \in Words
      /\ m4[3] = Q(3)[1] /\ m4[7] = Q(3)[2] /\ m4[11] = Q(3)[3] /\ m4[15] = Q(3)[4]
      /\ \A p \in Place \ {3, 7, 11, 15} : m4[p] = m3[p]
  <2> HIDE DEF Q
  <2>1. Q(3) = Quarter(m3[3], m3[7], m3[11], m3[15])
    BY <1>1, <1>2, <1>3 DEF Q, Place
  <2>2. QuarterMade(m4, m3, 3, 7, 11, 15)
    <3>1. m3 \in Words /\ 3 \in Place /\ 7 \in Place /\ 11 \in Place /\ 15 \in Place
      BY <1>3 DEF Place
    <3> QED BY <3>1, QuarterRound DEF m4
  <2> QED BY <2>1, <2>2 DEF QuarterMade
<1>5. Columns(m) = m4
  BY DEF Columns, m1, m2, m3, m4
<1> HIDE DEF Q
<1>6. \A l \in 0 .. 3 : /\ m4[l] = Q(l)[1] /\ m4[4 + l] = Q(l)[2]
                        /\ m4[8 + l] = Q(l)[3] /\ m4[12 + l] = Q(l)[4]
  <2>1. 0 .. 3 = {0, 1, 2, 3}
    OBVIOUS
  <2>2. /\ m4[0] = Q(0)[1] /\ m4[4] = Q(0)[2] /\ m4[8] = Q(0)[3] /\ m4[12] = Q(0)[4]
        /\ m4[1] = Q(1)[1] /\ m4[5] = Q(1)[2] /\ m4[9] = Q(1)[3] /\ m4[13] = Q(1)[4]
    BY <1>1, <1>2, <1>3, <1>4 DEF Place
  <2>3. /\ m4[2] = Q(2)[1] /\ m4[6] = Q(2)[2] /\ m4[10] = Q(2)[3] /\ m4[14] = Q(2)[4]
        /\ m4[3] = Q(3)[1] /\ m4[7] = Q(3)[2] /\ m4[11] = Q(3)[3] /\ m4[15] = Q(3)[4]
    BY <1>3, <1>4 DEF Place
  <2> QED BY <2>1, <2>2, <2>3
<1>7. ASSUME NEW r \in 1 .. 4, NEW l \in 0 .. 3
      PROVE  m4[4 * (r - 1) + l] = Q(l)[r]
  <2>1. r = 1 \/ r = 2 \/ r = 3 \/ r = 4
    OBVIOUS
  <2> QED BY <1>6, <2>1
<1> QED BY <1>4, <1>5, <1>7 DEF Q

(* Diagonals is four quarter rounds, each on a diagonal: the word of row r *)
(* is r - 1 columns further on.                                            *)
LEMMA DiagonalsRound ==
  ASSUME WordsClosed, NEW m \in Words
  PROVE  /\ Diagonals(m) \in Words
         /\ \A r \in 1 .. 4, l \in 0 .. 3 :
              Diagonals(m)[4 * (r - 1) + ((l + r - 1) % 4)]
                = Quarter(m[l], m[4 + ((l + 1) % 4)], m[8 + ((l + 2) % 4)],
                          m[12 + ((l + 3) % 4)])[r]
<1> DEFINE m1 == chacha_quarter_round(m, 0, 5, 10, 15)
           m2 == chacha_quarter_round(m1, 1, 6, 11, 12)
           m3 == chacha_quarter_round(m2, 2, 7,  8, 13)
           m4 == chacha_quarter_round(m3, 3, 4, 9, 14)
           Q(l) == Quarter(m[l], m[4 + ((l + 1) % 4)], m[8 + ((l + 2) % 4)],
                           m[12 + ((l + 3) % 4)])
<1>0. /\ Q(0) = Quarter(m[0], m[5], m[10], m[15])
      /\ Q(1) = Quarter(m[1], m[6], m[11], m[12])
      /\ Q(2) = Quarter(m[2], m[7], m[8], m[13])
      /\ Q(3) = Quarter(m[3], m[4], m[9], m[14])
  OBVIOUS
<1> HIDE DEF m1, m2, m3, m4, Q
<1>1. /\ m1 \in Words
      /\ m1[0] = Q(0)[1] /\ m1[5] = Q(0)[2] /\ m1[10] = Q(0)[3] /\ m1[15] = Q(0)[4]
      /\ \A p \in Place \ {0, 5, 10, 15} : m1[p] = m[p]
  <2>1. Q(0) = Quarter(m[0], m[5], m[10], m[15])
    BY <1>0 DEF Place
  <2>2. QuarterMade(m1, m, 0, 5, 10, 15)
    <3>1. m \in Words /\ 0 \in Place /\ 5 \in Place /\ 10 \in Place /\ 15 \in Place
      BY DEF Place
    <3> QED BY <3>1, QuarterRound DEF m1
  <2> QED BY <2>1, <2>2 DEF QuarterMade
<1>2. /\ m2 \in Words
      /\ m2[1] = Q(1)[1] /\ m2[6] = Q(1)[2] /\ m2[11] = Q(1)[3] /\ m2[12] = Q(1)[4]
      /\ \A p \in Place \ {1, 6, 11, 12} : m2[p] = m1[p]
  <2>1. Q(1) = Quarter(m1[1], m1[6], m1[11], m1[12])
    BY <1>0, <1>1 DEF Place
  <2>2. QuarterMade(m2, m1, 1, 6, 11, 12)
    <3>1. m1 \in Words /\ 1 \in Place /\ 6 \in Place /\ 11 \in Place /\ 12 \in Place
      BY <1>1 DEF Place
    <3> QED BY <3>1, QuarterRound DEF m2
  <2> QED BY <2>1, <2>2 DEF QuarterMade
<1>3. /\ m3 \in Words
      /\ m3[2] = Q(2)[1] /\ m3[7] = Q(2)[2] /\ m3[8] = Q(2)[3] /\ m3[13] = Q(2)[4]
      /\ \A p \in Place \ {2, 7, 8, 13} : m3[p] = m2[p]
  <2>1. Q(2) = Quarter(m2[2], m2[7], m2[8], m2[13])
    BY <1>0, <1>1, <1>2 DEF Place
  <2>2. QuarterMade(m3, m2, 2, 7, 8, 13)
    <3>1. m2 \in Words /\ 2 \in Place /\ 7 \in Place /\ 8 \in Place /\ 13 \in Place
      BY <1>2 DEF Place
    <3> QED BY <3>1, QuarterRound DEF m3
  <2> QED BY <2>1, <2>2 DEF QuarterMade
<1>4. /\ m4 \in Words
      /\ m4[3] = Q(3)[1] /\ m4[4] = Q(3)[2] /\ m4[9] = Q(3)[3] /\ m4[14] = Q(3)[4]
      /\ \A p \in Place \ {3, 4, 9, 14} : m4[p] = m3[p]
  <2>1. Q(3) = Quarter(m3[3], m3[4], m3[9], m3[14])
    BY <1>0, <1>1, <1>2, <1>3 DEF Place
  <2>2. QuarterMade(m4, m3, 3, 4, 9, 14)
    <3>1. m3 \in Words /\ 3 \in Place /\ 4 \in Place /\ 9 \in Place /\ 14 \in Place
      BY <1>3 DEF Place
    <3> QED BY <3>1, QuarterRound DEF m4
  <2> QED BY <2>1, <2>2 DEF QuarterMade
<1>5. Diagonals(m) = m4
  BY DEF Diagonals, m1, m2, m3, m4
<1>6. /\ m4[0] = Q(0)[1] /\ m4[5] = Q(0)[2] /\ m4[10] = Q(0)[3] /\ m4[15] = Q(0)[4]
      /\ m4[1] = Q(1)[1] /\ m4[6] = Q(1)[2] /\ m4[11] = Q(1)[3] /\ m4[12] = Q(1)[4]
  BY <1>1, <1>2, <1>3, <1>4 DEF Place
<1>7. /\ m4[2] = Q(2)[1] /\ m4[7] = Q(2)[2] /\ m4[8] = Q(2)[3] /\ m4[13] = Q(2)[4]
      /\ m4[3] = Q(3)[1] /\ m4[4] = Q(3)[2] /\ m4[9] = Q(3)[3] /\ m4[14] = Q(3)[4]
  BY <1>3, <1>4 DEF Place
<1>8. ASSUME NEW r \in 1 .. 4, NEW l \in 0 .. 3
      PROVE  m4[4 * (r - 1) + ((l + r - 1) % 4)] = Q(l)[r]
  <2>1. r = 1 \/ r = 2 \/ r = 3 \/ r = 4
    OBVIOUS
  <2>2. l = 0 \/ l = 1 \/ l = 2 \/ l = 3
    OBVIOUS
  <2> QED BY <1>6, <1>7, <2>1, <2>2
<1> QED BY <1>4, <1>5, <1>8 DEF Q

------------------------------------------------------------------------------
(* The vector rounds *)

(* A vector round is a quarter round in every lane.                        *)
LEMMA VectorRoundIsQuarters ==
  ASSUME WordsClosed, NEW L, NEW v \in Rows(L)
  PROVE  /\ VectorRound(v) \in Rows(L)
         /\ \A r \in 1 .. 4, l \in L :
              VectorRound(v)[r][l] = Quarter(v[1][l], v[2][l], v[3][l], v[4][l])[r]
<1> DEFINE a1 == AddRow(v[1], v[2])   d1 == RotlRow(XorRow(v[4], a1), 16)
           c1 == AddRow(v[3], d1)     b1 == RotlRow(XorRow(v[2], c1), 12)
           a2 == AddRow(a1, b1)       d2 == RotlRow(XorRow(d1, a2), 8)
           c2 == AddRow(c1, d2)       b2 == RotlRow(XorRow(b1, c2), 7)
<1>1. /\ v[1] \in [L -> Word] /\ v[2] \in [L -> Word]
      /\ v[3] \in [L -> Word] /\ v[4] \in [L -> Word]
  BY DEF Rows
<1>2. a1 = [l \in L |-> Add(v[1][l], v[2][l])] /\ a1 \in [L -> Word]
  BY <1>1 DEF AddRow, WordsClosed
<1> HIDE DEF a1
<1>3. d1 = [l \in L |-> Rotl(Xor(v[4][l], a1[l]), 16)] /\ d1 \in [L -> Word]
  <2>1. XorRow(v[4], a1) = [l \in L |-> Xor(v[4][l], a1[l])]
    BY <1>1 DEF XorRow
  <2>2. XorRow(v[4], a1) \in [L -> Word]
    <3>1. \A l \in L : v[4][l] \in Word /\ a1[l] \in Word
      BY <1>1, <1>2
    <3>2. \A l \in L : Xor(v[4][l], a1[l]) \in Word
      BY <3>1 DEF WordsClosed
    <3> QED BY <2>1, <3>2
  <2> QED BY <2>1, <2>2 DEF RotlRow, WordsClosed
<1> HIDE DEF d1
<1>4. c1 = [l \in L |-> Add(v[3][l], d1[l])] /\ c1 \in [L -> Word]
  BY <1>1, <1>3 DEF AddRow, WordsClosed
<1> HIDE DEF c1
<1>5. b1 = [l \in L |-> Rotl(Xor(v[2][l], c1[l]), 12)] /\ b1 \in [L -> Word]
  BY <1>1, <1>4 DEF XorRow, RotlRow, WordsClosed
<1> HIDE DEF b1
<1>6. a2 = [l \in L |-> Add(a1[l], b1[l])] /\ a2 \in [L -> Word]
  BY <1>2, <1>5 DEF AddRow, WordsClosed
<1> HIDE DEF a2
<1>7. d2 = [l \in L |-> Rotl(Xor(d1[l], a2[l]), 8)] /\ d2 \in [L -> Word]
  BY <1>3, <1>6 DEF XorRow, RotlRow, WordsClosed
<1> HIDE DEF d2
<1>8. c2 = [l \in L |-> Add(c1[l], d2[l])] /\ c2 \in [L -> Word]
  BY <1>4, <1>7 DEF AddRow, WordsClosed
<1> HIDE DEF c2
<1>9. b2 = [l \in L |-> Rotl(Xor(b1[l], c2[l]), 7)] /\ b2 \in [L -> Word]
  BY <1>5, <1>8 DEF XorRow, RotlRow, WordsClosed
<1> HIDE DEF b2
<1>10. VectorRound(v) = <<a2, b2, c2, d2>>
  BY DEF VectorRound, a1, b1, c1, d1, a2, b2, c2, d2
<1>11. ASSUME NEW l \in L
       PROVE  Quarter(v[1][l], v[2][l], v[3][l], v[4][l])
                = <<a2[l], b2[l], c2[l], d2[l]>>
  BY <1>2, <1>3, <1>4, <1>5, <1>6, <1>7, <1>8, <1>9 DEF Quarter
<1>12. VectorRound(v) \in Rows(L)
  BY <1>6, <1>7, <1>8, <1>9, <1>10 DEF Rows
<1>13. ASSUME NEW r \in 1 .. 4, NEW l \in L
       PROVE  VectorRound(v)[r][l] = Quarter(v[1][l], v[2][l], v[3][l], v[4][l])[r]
  <2>1. r = 1 \/ r = 2 \/ r = 3 \/ r = 4
    OBVIOUS
  <2> QED BY <1>10, <1>11, <2>1
<1> QED BY <1>12, <1>13

(* Rotating the lanes keeps a lane in its half of the vector, that is with *)
(* its block, and moves its column on.                                     *)
LEMMA LaneArithmetic ==
  ASSUME NEW l \in Lanes256, NEW n \in 0 .. 4
  PROVE  /\ LaneFrom(l, n) \in Lanes256
         /\ l \in Lanes128 => LaneFrom(l, n) \in Lanes128
         /\ LaneFrom(l, n) \div 4 = l \div 4
         /\ LaneFrom(l, n) % 4 = ((l % 4) + n) % 4
         /\ l \div 4 \in Block
         /\ l % 4 \in 0 .. 3
  BY DEF LaneFrom, Lanes128, Lanes256, Block

(* The lane that each lane of each row takes its word from.                *)
LEMMA LanesMoved ==
  ASSUME NEW L \in {Lanes128, Lanes256}, NEW v \in Rows(L)
  PROVE  /\ ToDiagonals(v) \in Rows(L)
         /\ ToColumns(v) \in Rows(L)
         /\ \A r \in 1 .. 4, l \in L :
              /\ ToDiagonals(v)[r][l] = v[r][LaneFrom(l, r - 1)]
              /\ ToColumns(v)[r][l] = v[r][LaneFrom(l, 5 - r)]
<1>1. \A r \in 1 .. 4 : v[r] \in [L -> Word]
  BY DEF Rows
<1>2. \A l \in L, n \in 0 .. 4 : LaneFrom(l, n) \in L
  <2>1. Lanes128 \subseteq Lanes256
    BY DEF Lanes128, Lanes256
  <2> QED BY <2>1, LaneArithmetic
<1>3. ASSUME NEW r \in 1 .. 4, NEW n \in 0 .. 4
      PROVE  /\ RotrLanes(v[r], n) = [l \in L |-> v[r][LaneFrom(l, n)]]
             /\ RotrLanes(v[r], n) \in [L -> Word]
  BY <1>1, <1>2 DEF RotrLanes
<1>4. \A l \in L : LaneFrom(l, 0) = l /\ LaneFrom(l, 4) = l
  BY DEF LaneFrom, Lanes128, Lanes256
<1>5. /\ ToDiagonals(v) = <<v[1], RotrLanes(v[2], 1), RotrLanes(v[3], 2), RotrLanes(v[4], 3)>>
      /\ ToColumns(v) = <<v[1], RotrLanes(v[2], 3), RotrLanes(v[3], 2), RotrLanes(v[4], 1)>>
  BY DEF ToDiagonals, ToColumns, RotlLanes
<1>6. ToDiagonals(v) \in Rows(L) /\ ToColumns(v) \in Rows(L)
  BY <1>1, <1>3, <1>5 DEF Rows
<1>7. ASSUME NEW r \in 1 .. 4, NEW l \in L
      PROVE  /\ ToDiagonals(v)[r][l] = v[r][LaneFrom(l, r - 1)]
             /\ ToColumns(v)[r][l] = v[r][LaneFrom(l, 5 - r)]
  <2>1. CASE r = 1
    BY <1>4, <1>5, <2>1
  <2>2. CASE r = 2
    BY <1>3, <1>5, <2>2
  <2>3. CASE r = 3
    BY <1>3, <1>5, <2>3
  <2>4. CASE r = 4
    BY <1>3, <1>5, <2>4
  <2> QED BY <2>1, <2>2, <2>3, <2>4
<1> QED BY <1>6, <1>7

(* Lane l of row r holds the word in column l of row r of its block.       *)
InColumns(v, w, L) == \A r \in 1 .. 4, l \in L :
  v[r][l] = w[l \div 4][4 * (r - 1) + (l % 4)]

(* Lane l of row r holds the word of row r on the diagonal from column l.  *)
InDiagonals(v, w, L) == \A r \in 1 .. 4, l \in L :
  v[r][l] = w[l \div 4][4 * (r - 1) + (((l % 4) + r - 1) % 4)]

(* A vector round on columns, with the lanes then moved to diagonals, is a *)
(* column round of each block.                                             *)
LEMMA ColumnsAgree ==
  ASSUME WordsClosed, NEW L \in {Lanes128, Lanes256}, NEW v \in Rows(L),
         NEW w \in [Block -> Words], InColumns(v, w, L)
  PROVE  /\ ToDiagonals(VectorRound(v)) \in Rows(L)
         /\ InDiagonals(ToDiagonals(VectorRound(v)), [b \in Block |-> Columns(w[b])], L)
<1> DEFINE u == VectorRound(v)
<1>1. /\ u \in Rows(L)
      /\ \A r \in 1 .. 4, l \in L :
           u[r][l] = Quarter(v[1][l], v[2][l], v[3][l], v[4][l])[r]
  BY VectorRoundIsQuarters
<1> HIDE DEF u
<1>2. ToDiagonals(u) \in Rows(L)
  BY <1>1, LanesMoved
<1>3. ASSUME NEW r \in 1 .. 4, NEW l \in L
      PROVE  ToDiagonals(u)[r][l]
               = Columns(w[l \div 4])[4 * (r - 1) + (((l % 4) + r - 1) % 4)]
  <2> DEFINE k == LaneFrom(l, r - 1)
             b == l \div 4
             c == ((l % 4) + r - 1) % 4
  <2>1. l \in Lanes256 /\ r - 1 \in 0 .. 4 /\ (l % 4) + (r - 1) = (l % 4) + r - 1
    BY DEF Lanes128, Lanes256
  <2>2. k \in L /\ k \div 4 = b /\ k % 4 = c /\ b \in Block
    BY <2>1, LaneArithmetic
  <2> HIDE DEF k, b, c
  <2>3. c \in 0 .. 3
    <3>1. k \in Lanes256
      BY <2>2 DEF Lanes128, Lanes256
    <3> QED BY <2>2, <3>1, LaneArithmetic
  <2>4. ToDiagonals(u)[r][l] = u[r][k]
    BY <1>1, LanesMoved DEF k
  <2>5. u[r][k] = Quarter(v[1][k], v[2][k], v[3][k], v[4][k])[r]
    BY <1>1, <2>2
  <2>6. /\ v[1][k] = w[b][c] /\ v[2][k] = w[b][4 + c]
        /\ v[3][k] = w[b][8 + c] /\ v[4][k] = w[b][12 + c]
    <3>1. \A q \in 1 .. 4 : v[q][k] = w[b][4 * (q - 1) + c]
      BY <2>2 DEF InColumns
    <3> QED BY <2>3, <3>1
  <2>7. w[b] \in Words
    BY <2>2
  <2>8. Columns(w[b])[4 * (r - 1) + c]
          = Quarter(w[b][c], w[b][4 + c], w[b][8 + c], w[b][12 + c])[r]
    BY <2>3, <2>7, ColumnsRound
  <2>9. ToDiagonals(u)[r][l] = Columns(w[b])[4 * (r - 1) + c]
    BY <2>4, <2>5, <2>6, <2>8
  <2> QED BY <2>9 DEF b, c
<1>4. \A l \in L : l \div 4 \in Block
  BY DEF Lanes128, Lanes256, Block
<1>5. InDiagonals(ToDiagonals(u), [b \in Block |-> Columns(w[b])], L)
  BY <1>3, <1>4 DEF InDiagonals
<1> QED BY <1>2, <1>5 DEF u

(* A vector round on diagonals, with the lanes then moved back, is a       *)
(* diagonal round of each block.                                           *)
LEMMA DiagonalsAgree ==
  ASSUME WordsClosed, NEW L \in {Lanes128, Lanes256}, NEW v \in Rows(L),
         NEW w \in [Block -> Words], InDiagonals(v, w, L)
  PROVE  /\ ToColumns(VectorRound(v)) \in Rows(L)
         /\ InColumns(ToColumns(VectorRound(v)), [b \in Block |-> Diagonals(w[b])], L)
<1> DEFINE u == VectorRound(v)
<1>1. /\ u \in Rows(L)
      /\ \A r \in 1 .. 4, l \in L :
           u[r][l] = Quarter(v[1][l], v[2][l], v[3][l], v[4][l])[r]
  BY VectorRoundIsQuarters
<1> HIDE DEF u
<1>2. ToColumns(u) \in Rows(L)
  BY <1>1, LanesMoved
<1>3. ASSUME NEW r \in 1 .. 4, NEW l \in L
      PROVE  ToColumns(u)[r][l] = Diagonals(w[l \div 4])[4 * (r - 1) + (l % 4)]
  <2> DEFINE k == LaneFrom(l, 5 - r)
             b == l \div 4
             c == k % 4
  <2>1. l \in Lanes256 /\ 5 - r \in 0 .. 4
    BY DEF Lanes128, Lanes256
  <2>2. k \in L /\ k \div 4 = b /\ b \in Block /\ c = ((l % 4) + (5 - r)) % 4
    BY <2>1, LaneArithmetic
  <2>3. l % 4 \in 0 .. 3
    BY <2>1, LaneArithmetic
  <2> HIDE DEF k, b
  <2>4. c \in 0 .. 3 /\ (c + r - 1) % 4 = l % 4
    <3> HIDE DEF c
    <3>1. \A t \in 0 .. 3 :
            /\ (t + (5 - r)) % 4 \in 0 .. 3
            /\ (((t + (5 - r)) % 4) + r - 1) % 4 = t
      OBVIOUS
    <3> QED BY <2>2, <2>3, <3>1
  <2>5. ToColumns(u)[r][l] = u[r][k]
    BY <1>1, LanesMoved DEF k
  <2>6. u[r][k] = Quarter(v[1][k], v[2][k], v[3][k], v[4][k])[r]
    BY <1>1, <2>2
  <2>7. /\ v[1][k] = w[b][c] /\ v[2][k] = w[b][4 + ((c + 1) % 4)]
        /\ v[3][k] = w[b][8 + ((c + 2) % 4)] /\ v[4][k] = w[b][12 + ((c + 3) % 4)]
    <3>1. \A q \in 1 .. 4 : v[q][k] = w[b][4 * (q - 1) + ((c + q - 1) % 4)]
      BY <2>2 DEF InDiagonals
    <3> HIDE DEF c
    <3>2. /\ v[1][k] = w[b][4 * (1 - 1) + ((c + 1 - 1) % 4)]
          /\ v[2][k] = w[b][4 * (2 - 1) + ((c + 2 - 1) % 4)]
          /\ v[3][k] = w[b][4 * (3 - 1) + ((c + 3 - 1) % 4)]
          /\ v[4][k] = w[b][4 * (4 - 1) + ((c + 4 - 1) % 4)]
      BY <3>1
    <3>3. /\ 4 * (1 - 1) + ((c + 1 - 1) % 4) = c
          /\ 4 * (2 - 1) + ((c + 2 - 1) % 4) = 4 + ((c + 1) % 4)
          /\ 4 * (3 - 1) + ((c + 3 - 1) % 4) = 8 + ((c + 2) % 4)
          /\ 4 * (4 - 1) + ((c + 4 - 1) % 4) = 12 + ((c + 3) % 4)
      BY <2>4
    <3> QED BY <3>2, <3>3
  <2>8. w[b] \in Words
    BY <2>2
  <2> HIDE DEF c
  <2>9. Diagonals(w[b])[4 * (r - 1) + ((c + r - 1) % 4)]
          = Quarter(w[b][c], w[b][4 + ((c + 1) % 4)], w[b][8 + ((c + 2) % 4)],
                    w[b][12 + ((c + 3) % 4)])[r]
    BY <2>4, <2>8, DiagonalsRound
  <2>10. ToColumns(u)[r][l] = Diagonals(w[b])[4 * (r - 1) + (l % 4)]
    BY <2>4, <2>5, <2>6, <2>7, <2>9
  <2> QED BY <2>10 DEF b
<1>4. \A l \in L : l \div 4 \in Block
  BY DEF Lanes128, Lanes256, Block
<1>5. InColumns(ToColumns(u), [b \in Block |-> Diagonals(w[b])], L)
  BY <1>3, <1>4 DEF InColumns
<1> QED BY <1>2, <1>5 DEF u

------------------------------------------------------------------------------
(* Type correctness *)

(* The loop variable is even, and below the end inside a double round.     *)
TypeInv ==
  /\ TypeOK
  /\ i % 2 = 0
  /\ pc = "diagonals" => i < N_ROUNDS

(* A matrix of words, laid out for each version, is of words.              *)
LEMMA MatrixType ==
  ASSUME WordsClosed, NEW key \in Key, NEW input \in Input
  PROVE  LET m == Matrix(key, input)
         IN  /\ m \in Words /\ NextCounter(m) \in Words
             /\ Rows128(m) \in Rows(Lanes128) /\ Rows256(m) \in Rows(Lanes256)
<1> DEFINE m == Matrix(key, input)
<1>1. key \in [0 .. 7 -> Word] /\ input \in [0 .. 3 -> Word] /\ One \in Word
  BY InputAssumption
<1>2. m \in Words
  <2>1. ASSUME NEW p \in Place
        PROVE  (IF p < 4 THEN Sigma[p] ELSE IF p < 12 THEN key[p - 4] ELSE input[p - 12])
                 \in Word
    <3>1. CASE p < 4
      BY <3>1, InputAssumption DEF Place
    <3>2. CASE p >= 4 /\ p < 12
      BY <1>1, <3>2 DEF Place
    <3>3. CASE p >= 12
      BY <1>1, <3>3 DEF Place
    <3> QED BY <3>1, <3>2, <3>3 DEF Place
  <2> QED BY <2>1 DEF Matrix, Words
<1> HIDE DEF m
<1>3. Add(m[12], One) \in Word
  <2>1. m[12] \in Word
    BY <1>2 DEF Words, Place
  <2> QED BY <1>1, <2>1 DEF WordsClosed
<1>4. NextCounter(m) \in Words
  BY <1>2, <1>3 DEF NextCounter, Words
<1>5. Rows128(m) \in Rows(Lanes128)
  <2>1. \A r \in 1 .. 4, l \in 0 .. 3 : m[4 * (r - 1) + l] \in Word
    BY <1>2 DEF Words, Place
  <2> QED BY <2>1 DEF Rows128, Rows, Lanes128
<1>6. Rows256(m) \in Rows(Lanes256)
  <2>1. ASSUME NEW r \in 1 .. 4, NEW l \in 0 .. 7
        PROVE  m[4 * (r - 1) + (l % 4)] \in Word
    <3>1. 4 * (r - 1) + (l % 4) \in Place
      BY DEF Place
    <3> QED BY <1>2, <3>1 DEF Words
  <2> QED BY <1>3, <2>1 DEF Rows256, Rows, Lanes256
<1> QED BY <1>2, <1>4, <1>5, <1>6 DEF m

(* A lane-wise sum of rows of words is a row of words.                     *)
LEMMA AddRowType ==
  ASSUME WordsClosed, NEW L, NEW v \in [L -> Word], NEW w \in [L -> Word]
  PROVE  /\ AddRow(v, w) \in [L -> Word]
         /\ \A l \in L : AddRow(v, w)[l] = Add(v[l], w[l])
<1>1. AddRow(v, w) = [l \in L |-> Add(v[l], w[l])]
  BY DEF AddRow
<1>2. \A l \in L : Add(v[l], w[l]) \in Word
  BY DEF WordsClosed
<1> QED BY <1>1, <1>2

LEMMA TypeInit == WordsClosed /\ Init => TypeInv
<1> SUFFICES ASSUME WordsClosed, Init PROVE TypeInv
  OBVIOUS
<1>1. PICK key \in Key, input \in Input :
        LET m == Matrix(key, input) IN
        /\ x = [b \in Block |-> IF b = 0 THEN m ELSE NextCounter(m)]
        /\ x128 = Rows128(m)
        /\ x256 = Rows256(m)
        /\ z = x /\ z128 = x128 /\ z256 = x256
  BY DEF Init
<1>2. x \in [Block -> Words] /\ x128 \in Rows(Lanes128) /\ x256 \in Rows(Lanes256)
  BY <1>1, MatrixType
<1>3. z = x /\ z128 = x128 /\ z256 = x256 /\ i = 0 /\ pc = "columns"
  BY DEF Init
<1> QED BY <1>2, <1>3 DEF TypeInv, TypeOK, N_ROUNDS, Words, Rows, Lanes128, Lanes256

LEMMA TypeStep == WordsClosed /\ TypeInv /\ [Next]_vars => TypeInv'
<1> SUFFICES ASSUME WordsClosed, TypeInv, [Next]_vars PROVE TypeInv'
  OBVIOUS
<1>1. /\ x \in [Block -> Words] /\ z \in [Block -> Words]
      /\ x128 \in Rows(Lanes128) /\ z128 \in Rows(Lanes128)
      /\ x256 \in Rows(Lanes256) /\ z256 \in Rows(Lanes256)
  BY DEF TypeInv, TypeOK, Words, Rows, Lanes128, Lanes256
<1>2. i \in 0 .. 20 /\ i % 2 = 0 /\ (pc = "diagonals" => i < 20)
  BY DEF TypeInv, TypeOK, N_ROUNDS
<1>3. /\ VectorRound(z128) \in Rows(Lanes128)
      /\ VectorRound(z256) \in Rows(Lanes256)
  BY <1>1, VectorRoundIsQuarters
<1>4. CASE ColumnRound
  <2>1. z' \in [Block -> Words]
    BY <1>1, <1>4, ColumnsRound DEF ColumnRound
  <2>2. z128' \in Rows(Lanes128) /\ z256' \in Rows(Lanes256)
    BY <1>3, <1>4, LanesMoved DEF ColumnRound
  <2>3. x' = x /\ x128' = x128 /\ x256' = x256
    BY <1>4 DEF ColumnRound, inputs
  <2>4. i' = i /\ i < 20 /\ pc' = "diagonals"
    BY <1>4 DEF ColumnRound, N_ROUNDS
  <2> QED BY <1>1, <1>2, <2>1, <2>2, <2>3, <2>4
       DEF TypeInv, TypeOK, N_ROUNDS, Words, Rows, Lanes128, Lanes256
<1>5. CASE DiagonalRound
  <2>1. z' \in [Block -> Words]
    BY <1>1, <1>5, DiagonalsRound DEF DiagonalRound
  <2>2. z128' \in Rows(Lanes128) /\ z256' \in Rows(Lanes256)
    BY <1>3, <1>5, LanesMoved DEF DiagonalRound
  <2>3. x' = x /\ x128' = x128 /\ x256' = x256
    BY <1>5 DEF DiagonalRound, inputs
  <2>4. i' = i + 2 /\ pc = "diagonals" /\ pc' = "columns"
    BY <1>5 DEF DiagonalRound
  <2>5. i' \in 0 .. 20 /\ i' % 2 = 0
    BY <1>2, <2>4
  <2> QED BY <1>1, <2>1, <2>2, <2>3, <2>4, <2>5
       DEF TypeInv, TypeOK, N_ROUNDS, Words, Rows, Lanes128, Lanes256
<1>6. CASE Store
  <2>1. /\ x' = x /\ x128' = x128 /\ x256' = x256 /\ i' = i /\ pc' = "done"
        /\ z' = [b \in Block |-> AddRow(z[b], x[b])]
        /\ z128' = [r \in 1 .. 4 |-> AddRow(z128[r], x128[r])]
        /\ z256' = [r \in 1 .. 4 |-> AddRow(z256[r], x256[r])]
        /\ y' = z'
        /\ y128' = [p \in Place |-> z128'[(p \div 4) + 1][p % 4]]
        /\ y256' = [p \in 0 .. 31 |->
             z256'[((p % 16) \div 4) + 1][4 * (p \div 16) + (p % 4)]]
    BY <1>6 DEF Store, inputs
  <2>2. z' \in [Block -> Words]
    <3>1. \A b \in Block : AddRow(z[b], x[b]) \in Words
      BY <1>1, AddRowType DEF Words
    <3> QED BY <2>1, <3>1
  <2>3. z128' \in Rows(Lanes128) /\ z256' \in Rows(Lanes256)
    <3>1. \A r \in 1 .. 4 : /\ AddRow(z128[r], x128[r]) \in [Lanes128 -> Word]
                            /\ AddRow(z256[r], x256[r]) \in [Lanes256 -> Word]
      BY <1>1, AddRowType DEF Rows
    <3> QED BY <2>1, <3>1 DEF Rows
  <2>4. y128' \in Words
    <3>1. \A p \in Place : (p \div 4) + 1 \in 1 .. 4 /\ p % 4 \in Lanes128
      BY DEF Place, Lanes128
    <3> QED BY <2>1, <2>3, <3>1 DEF Rows, Words
  <2>5. y256' \in [0 .. 31 -> Word]
    <3>1. ASSUME NEW p \in 0 .. 31
          PROVE  ((p % 16) \div 4) + 1 \in 1 .. 4 /\ 4 * (p \div 16) + (p % 4) \in Lanes256
      BY DEF Lanes256
    <3> QED BY <2>1, <2>3, <3>1 DEF Rows
  <2> QED BY <1>1, <1>2, <2>1, <2>2, <2>3, <2>4, <2>5
       DEF TypeInv, TypeOK, N_ROUNDS, Words, Rows, Lanes128, Lanes256
<1>7. CASE UNCHANGED vars
  BY <1>7 DEF TypeInv, TypeOK, vars, inputs
<1> QED BY <1>4, <1>5, <1>6, <1>7 DEF Next

(* Type correctness of the three block functions, for any set of words     *)
(* that the operations do not leave: the lanes stay 4 and 8, and the loop, *)
(* which counts by two, ends at exactly twenty.                            *)
THEOREM TypeCorrect == ASSUME WordsClosed PROVE Spec => []TypeOK
<1>1. Init => TypeInv
  BY TypeInit
<1>2. TypeInv /\ [Next]_vars => TypeInv'
  BY TypeStep
<1>3. TypeInv => TypeOK
  BY DEF TypeInv
<1> QED BY <1>1, <1>2, <1>3, PTL DEF Spec

------------------------------------------------------------------------------
(* Agreement *)

(* The vector states hold the words of the scalar states, in columns or on *)
(* diagonals as the round begins; the inputs always in columns.            *)
Agree ==
  /\ InColumns(x128, x, Lanes128) /\ InColumns(x256, x, Lanes256)
  /\ pc # "diagonals" =>
       InColumns(z128, z, Lanes128) /\ InColumns(z256, z, Lanes256)
  /\ pc = "diagonals" =>
       InDiagonals(z128, z, Lanes128) /\ InDiagonals(z256, z, Lanes256)
  /\ pc = "done" =>
       /\ y128 = y[0]
       /\ \A b \in Block, p \in Place : y256[16 * b + p] = y[b][p]

(* The sums of rows that agree with matrices agree with the sums of these. *)
LEMMA SumsAgree ==
  ASSUME WordsClosed, NEW L \in {Lanes128, Lanes256},
         NEW v \in Rows(L), NEW v0 \in Rows(L),
         NEW w \in [Block -> Words], NEW w0 \in [Block -> Words],
         InColumns(v, w, L), InColumns(v0, w0, L)
  PROVE  InColumns([r \in 1 .. 4 |-> AddRow(v[r], v0[r])],
                   [b \in Block |-> AddRow(w[b], w0[b])], L)
<1> SUFFICES ASSUME NEW r \in 1 .. 4, NEW l \in L
             PROVE  AddRow(v[r], v0[r])[l]
                      = [b \in Block |-> AddRow(w[b], w0[b])][l \div 4][4 * (r - 1) + (l % 4)]
  BY DEF InColumns
<1> DEFINE b0 == l \div 4
           p == 4 * (r - 1) + (l % 4)
<1>1. b0 \in Block /\ p \in Place
  <2>1. l \in Lanes256
    BY DEF Lanes128, Lanes256
  <2>2. l % 4 \in 0 .. 3 /\ b0 \in Block
    BY <2>1, LaneArithmetic
  <2> QED BY <2>2 DEF Place
<1>2. v[r][l] = w[b0][p] /\ v0[r][l] = w0[b0][p]
  BY DEF InColumns
<1> HIDE DEF b0, p
<1>3. AddRow(v[r], v0[r])[l] = Add(v[r][l], v0[r][l])
  BY AddRowType DEF Rows
<1>4. AddRow(w[b0], w0[b0])[p] = Add(w[b0][p], w0[b0][p])
  BY <1>1, AddRowType DEF Words
<1>5. AddRow(v[r], v0[r])[l] = [b \in Block |-> AddRow(w[b], w0[b])][b0][p]
  BY <1>1, <1>2, <1>3, <1>4
<1> QED BY <1>5 DEF b0, p

LEMMA AgreeInit == WordsClosed /\ Init => Agree
<1> SUFFICES ASSUME WordsClosed, Init PROVE Agree
  OBVIOUS
<1>1. PICK key \in Key, input \in Input :
        LET m == Matrix(key, input) IN
        /\ x = [b \in Block |-> IF b = 0 THEN m ELSE NextCounter(m)]
        /\ x128 = Rows128(m)
        /\ x256 = Rows256(m)
  BY DEF Init
<1> DEFINE m == Matrix(key, input)
<1>2. m \in Words
  BY MatrixType
<1>3. /\ x = [b \in Block |-> IF b = 0 THEN m ELSE NextCounter(m)]
      /\ x128 = Rows128(m) /\ x256 = Rows256(m)
  BY <1>1
<1> HIDE DEF m
<1>4. x[0] = m /\ x[1] = NextCounter(m)
  BY <1>3 DEF Block
<1>5. \A p \in Place : NextCounter(m)[p] = IF p = 12 THEN Add(m[12], One) ELSE m[p]
  BY <1>2 DEF NextCounter, Words
<1>6. InColumns(x128, x, Lanes128)
  <2> SUFFICES ASSUME NEW r \in 1 .. 4, NEW l \in Lanes128
               PROVE  x128[r][l] = x[l \div 4][4 * (r - 1) + (l % 4)]
    BY DEF InColumns
  <2>1. l \div 4 = 0 /\ l % 4 = l
    BY DEF Lanes128
  <2>2. x128[r][l] = m[4 * (r - 1) + l]
    BY <1>3 DEF Rows128, Lanes128
  <2> QED BY <1>4, <2>1, <2>2
<1>7. InColumns(x256, x, Lanes256)
  <2> SUFFICES ASSUME NEW r \in 1 .. 4, NEW l \in Lanes256
               PROVE  x256[r][l] = x[l \div 4][4 * (r - 1) + (l % 4)]
    BY DEF InColumns
  <2>1. x256[r][l] = IF r = 4 /\ l = 4 THEN Add(m[12], One) ELSE m[4 * (r - 1) + (l % 4)]
    BY <1>3 DEF Rows256, Lanes256
  <2>2. l % 4 \in 0 .. 3
    BY LaneArithmetic
  <2>3. CASE l < 4
    <3>1. l \div 4 = 0
      BY <2>3 DEF Lanes256
    <3> QED BY <1>4, <2>1, <2>3, <3>1 DEF Lanes256
  <2>4. CASE l >= 4
    <3>1. l \div 4 = 1 /\ l % 4 = l - 4
      BY <2>4 DEF Lanes256
    <3>2. 4 * (r - 1) + (l - 4) \in Place
      BY <2>2, <3>1 DEF Place
    <3>3. (4 * (r - 1) + (l - 4) = 12) <=> (r = 4 /\ l = 4)
      BY <2>4 DEF Lanes256
    <3>4. x[l \div 4][4 * (r - 1) + (l % 4)]
            = IF 4 * (r - 1) + (l - 4) = 12 THEN Add(m[12], One) ELSE m[4 * (r - 1) + (l - 4)]
      BY <1>4, <1>5, <3>1, <3>2
    <3> QED BY <2>1, <3>1, <3>3, <3>4
  <2> QED BY <2>3, <2>4 DEF Lanes256
<1>8. z = x /\ z128 = x128 /\ z256 = x256 /\ pc = "columns"
  BY DEF Init
<1> QED BY <1>6, <1>7, <1>8 DEF Agree

LEMMA AgreeStep == WordsClosed /\ TypeInv /\ Agree /\ [Next]_vars => Agree'
<1> SUFFICES ASSUME WordsClosed, TypeInv, Agree, [Next]_vars PROVE Agree'
  OBVIOUS
<1>1. /\ x \in [Block -> Words] /\ z \in [Block -> Words]
      /\ x128 \in Rows(Lanes128) /\ z128 \in Rows(Lanes128)
      /\ x256 \in Rows(Lanes256) /\ z256 \in Rows(Lanes256)
  BY DEF TypeInv, TypeOK, Words, Rows, Lanes128, Lanes256
<1>2. InColumns(x128, x, Lanes128) /\ InColumns(x256, x, Lanes256)
  BY DEF Agree
<1>3. CASE ColumnRound
  <2>1. /\ z' = [b \in Block |-> Columns(z[b])]
        /\ z128' = ToDiagonals(VectorRound(z128))
        /\ z256' = ToDiagonals(VectorRound(z256))
        /\ pc = "columns" /\ pc' = "diagonals"
        /\ x' = x /\ x128' = x128 /\ x256' = x256
    BY <1>3 DEF ColumnRound, inputs
  <2>2. InColumns(z128, z, Lanes128) /\ InColumns(z256, z, Lanes256)
    BY <2>1 DEF Agree
  <2>3. InDiagonals(z128', z', Lanes128) /\ InDiagonals(z256', z', Lanes256)
    BY <1>1, <2>1, <2>2, ColumnsAgree
  <2> QED BY <1>2, <2>1, <2>3 DEF Agree, InColumns, InDiagonals
<1>4. CASE DiagonalRound
  <2>1. /\ z' = [b \in Block |-> Diagonals(z[b])]
        /\ z128' = ToColumns(VectorRound(z128))
        /\ z256' = ToColumns(VectorRound(z256))
        /\ pc = "diagonals" /\ pc' = "columns"
        /\ x' = x /\ x128' = x128 /\ x256' = x256
    BY <1>4 DEF DiagonalRound, inputs
  <2>2. InDiagonals(z128, z, Lanes128) /\ InDiagonals(z256, z, Lanes256)
    BY <2>1 DEF Agree
  <2>3. InColumns(z128', z', Lanes128) /\ InColumns(z256', z', Lanes256)
    BY <1>1, <2>1, <2>2, DiagonalsAgree
  <2> QED BY <1>2, <2>1, <2>3 DEF Agree, InColumns, InDiagonals
<1>5. CASE Store
  <2>1. /\ x' = x /\ x128' = x128 /\ x256' = x256 /\ pc = "columns" /\ pc' = "done"
        /\ z' = [b \in Block |-> AddRow(z[b], x[b])]
        /\ z128' = [r \in 1 .. 4 |-> AddRow(z128[r], x128[r])]
        /\ z256' = [r \in 1 .. 4 |-> AddRow(z256[r], x256[r])]
        /\ y' = z'
        /\ y128' = [p \in Place |-> z128'[(p \div 4) + 1][p % 4]]
        /\ y256' = [p \in 0 .. 31 |->
             z256'[((p % 16) \div 4) + 1][4 * (p \div 16) + (p % 4)]]
    BY <1>5 DEF Store, inputs
  <2>2. InColumns(z128, z, Lanes128) /\ InColumns(z256, z, Lanes256)
    BY <2>1 DEF Agree
  <2>3. InColumns(z128', z', Lanes128) /\ InColumns(z256', z', Lanes256)
    BY <1>1, <1>2, <2>1, <2>2, SumsAgree
  <2>4. z' \in [Block -> Words]
    <3>1. \A b \in Block : AddRow(z[b], x[b]) \in Words
      BY <1>1, AddRowType DEF Words
    <3> QED BY <2>1, <3>1
  <2>5. y128' = y'[0]
    <3>1. ASSUME NEW p \in Place
          PROVE  z128'[(p \div 4) + 1][p % 4] = z'[0][p]
      <4> DEFINE r == (p \div 4) + 1
                 l == p % 4
      <4>1. /\ r \in 1 .. 4 /\ l \in Lanes128 /\ l \div 4 = 0
            /\ 4 * (r - 1) + (l % 4) = p
        BY DEF Place, Lanes128
      <4> HIDE DEF r, l
      <4>2. z128'[r][l] = z'[l \div 4][4 * (r - 1) + (l % 4)]
        BY <2>3, <4>1 DEF InColumns
      <4>3. z128'[r][l] = z'[0][p]
        BY <4>1, <4>2
      <4> QED BY <4>3 DEF r, l
    <3>2. z'[0] = [p \in Place |-> z'[0][p]]
      BY <2>4 DEF Block, Words
    <3> QED BY <2>1, <3>1, <3>2
  <2>6. ASSUME NEW b \in Block, NEW p \in Place
        PROVE  y256'[16 * b + p] = y'[b][p]
    <3> DEFINE q == 16 * b + p
               r == ((q % 16) \div 4) + 1
               l == 4 * (q \div 16) + (q % 4)
    <3>1. q \in 0 .. 31 /\ q % 16 = p /\ q \div 16 = b /\ q % 4 = p % 4
      BY DEF Place, Block
    <3>2. r = (p \div 4) + 1 /\ l = 4 * b + (p % 4)
      BY <3>1
    <3> HIDE DEF q, r, l
    <3>3. /\ r \in 1 .. 4 /\ l \in Lanes256 /\ l \div 4 = b
          /\ 4 * (r - 1) + (l % 4) = p
      BY <3>2 DEF Place, Block, Lanes256
    <3>4. z256'[r][l] = z'[b][p]
      <4>1. z256'[r][l] = z'[l \div 4][4 * (r - 1) + (l % 4)]
        BY <2>3, <3>3 DEF InColumns
      <4> QED BY <3>3, <4>1
    <3>5. y256'[q] = z256'[r][l]
      BY <2>1, <3>1 DEF r, l
    <3> QED BY <2>1, <3>4, <3>5 DEF q
  <2> QED BY <1>2, <2>1, <2>3, <2>5, <2>6 DEF Agree, InColumns, InDiagonals
<1>6. CASE UNCHANGED vars
  BY <1>6 DEF Agree, InColumns, InDiagonals, vars, inputs
<1> QED BY <1>3, <1>4, <1>5, <1>6 DEF Next

LEMMA AgreeAlways == ASSUME WordsClosed PROVE Spec => []Agree
<1>1. Init => TypeInv /\ Agree
  BY TypeInit, AgreeInit
<1>2. (TypeInv /\ Agree) /\ [Next]_vars => (TypeInv /\ Agree)'
  BY TypeStep, AgreeStep
<1> QED BY <1>1, <1>2, PTL DEF Spec

(* The block of chacha20_sse.c is the block of chacha20.c, whatever the    *)
(* operations on words are: the lane rotations bring every word to the     *)
(* quarter round it belongs to, in all twenty rounds.                      *)
THEOREM SseIsScalar == ASSUME WordsClosed PROVE Spec => []SseAgrees
<1>1. Agree => SseAgrees
  <2> SUFFICES ASSUME Agree PROVE SseAgrees
    OBVIOUS
  <2>1. ASSUME NEW r \in 1 .. 4, NEW l \in 0 .. 3
        PROVE  z128[r][l] = z[0][PlaceOf(r, l)]
    <3>1. l \in Lanes128 /\ l \div 4 = 0 /\ l % 4 = l
      BY DEF Lanes128
    <3>2. CASE pc = "diagonals"
      BY <3>1, <3>2 DEF Agree, InDiagonals, PlaceOf
    <3>3. CASE pc # "diagonals"
      BY <3>1, <3>3 DEF Agree, InColumns, PlaceOf
    <3> QED BY <3>2, <3>3
  <2> QED BY <2>1 DEF Agree, SseAgrees
<1> QED BY <1>1, AgreeAlways, PTL

(* The two blocks of chacha20_avx.c are those of chacha20.c for the        *)
(* counter and for the next one, whatever the operations on words are.     *)
THEOREM AvxIsScalarTwice == ASSUME WordsClosed PROVE Spec => []AvxAgrees
<1>1. Agree => AvxAgrees
  <2> SUFFICES ASSUME Agree PROVE AvxAgrees
    OBVIOUS
  <2>1. ASSUME NEW r \in 1 .. 4, NEW l \in 0 .. 7
        PROVE  z256[r][l] = z[l \div 4][PlaceOf(r, l % 4)]
    <3>1. l \in Lanes256
      BY DEF Lanes256
    <3>2. CASE pc = "diagonals"
      BY <3>1, <3>2 DEF Agree, InDiagonals, PlaceOf
    <3>3. CASE pc # "diagonals"
      BY <3>1, <3>3 DEF Agree, InColumns, PlaceOf
    <3> QED BY <3>2, <3>3
  <2> QED BY <2>1 DEF Agree, AvxAgrees
<1> QED BY <1>1, AgreeAlways, PTL

------------------------------------------------------------------------------
(* The words of 32 bits *)

LEMMA MachineXor8 ==
  ASSUME NEW a \in Octet, NEW b \in Octet
  PROVE  Xor8(a, b) \in Octet
<1>1. ASSUME NEW c \in 0 .. 15, NEW d \in 0 .. 15
      PROVE  XorHalf[c][d] \in 0 .. 15
  <2>1. ASSUME NEW p \in {1, 2, 4, 8}
        PROVE  (Bit(c, p) + Bit(d, p)) % 2 \in {0, 1}
    <3>1. Bit(c, p) \in {0, 1} /\ Bit(d, p) \in {0, 1}
      BY DEF Bit
    <3>. QED BY <3>1
  <2>2. XorHalf[c][d]
          = 8 * ((Bit(c, 8) + Bit(d, 8)) % 2) + 4 * ((Bit(c, 4) + Bit(d, 4)) % 2)
            + 2 * ((Bit(c, 2) + Bit(d, 2)) % 2) + 1 * ((Bit(c, 1) + Bit(d, 1)) % 2)
    BY DEF XorHalf
  <2>3. /\ 8 * ((Bit(c, 8) + Bit(d, 8)) % 2) \in {0, 8}
        /\ 4 * ((Bit(c, 4) + Bit(d, 4)) % 2) \in {0, 4}
        /\ 2 * ((Bit(c, 2) + Bit(d, 2)) % 2) \in {0, 2}
        /\ 1 * ((Bit(c, 1) + Bit(d, 1)) % 2) \in {0, 1}
    BY <2>1
  <2>. QED BY <2>2, <2>3
<1>2. /\ a \div 16 \in 0 .. 15 /\ b \div 16 \in 0 .. 15
      /\ a % 16 \in 0 .. 15 /\ b % 16 \in 0 .. 15
  BY DEF Octet
<1>3. XorHalf[a \div 16][b \div 16] \in 0 .. 15 /\ XorHalf[a % 16][b % 16] \in 0 .. 15
  BY <1>1, <1>2
<1>. QED BY <1>3 DEF Xor8, Octet

(* Half is an interval of 2^16 numbers.                                    *)
LEMMA HalfBounds ==
  ASSUME NEW h
  PROVE  h \in Half <=> h \in Int /\ 0 <= h /\ h < 65536
<1>1. ASSUME NEW n \in Int PROVE h \in 0 .. n <=> h \in Int /\ 0 <= h /\ h <= n
  BY SMT
<1>2. HalfMod - 1 \in Int /\ HalfMod - 1 = 65535
  BY DEF HalfMod
<1>3. h \in Half <=> h \in Int /\ 0 <= h /\ h <= HalfMod - 1
  BY <1>1, <1>2 DEF Half
<1>4. ASSUME h \in Int PROVE h <= HalfMod - 1 <=> h < 65536
  <2> DEFINE m == HalfMod - 1
  <2>1. m \in Int /\ m = 65535
    BY <1>2
  <2> HIDE DEF m
  <2>2. h <= m <=> h < 65536
    BY <1>4, <2>1
  <2>. QED BY <2>2 DEF m
<1>5. h \in Half => h \in Int /\ 0 <= h /\ h < 65536
  BY <1>3, <1>4
<1>6. h \in Int /\ 0 <= h /\ h < 65536 => h \in Half
  BY <1>3, <1>4
<1>. QED BY <1>5, <1>6

(* What the bits of a half are cut into.                                   *)
LEMMA HalfParts ==
  ASSUME NEW h \in Int, 0 <= h, h < 65536
  PROVE  /\ h \div 256 \in Int /\ 0 <= h \div 256 /\ h \div 256 <= 255
         /\ h \div 512 \in Int /\ 0 <= h \div 512 /\ h \div 512 <= 127
         /\ h \div 16 \in Int /\ 0 <= h \div 16 /\ h \div 16 <= 4095
         /\ h % 256 \in Int /\ 0 <= h % 256 /\ h % 256 <= 255
         /\ h % 512 \in Int /\ 0 <= h % 512 /\ h % 512 <= 511
         /\ h % 16 \in Int /\ 0 <= h % 16 /\ h % 16 <= 15
<1>1. h \div 256 \in Int /\ 0 <= h \div 256 /\ h \div 256 <= 255
  BY SMT
<1>2. h \div 512 \in Int /\ 0 <= h \div 512 /\ h \div 512 <= 127
  BY SMT
<1>3. h \div 16 \in Int /\ 0 <= h \div 16 /\ h \div 16 <= 4095
  BY SMT
<1>4. h % 256 \in Int /\ 0 <= h % 256 /\ h % 256 <= 255
  BY SMT
<1>5. h % 512 \in Int /\ 0 <= h % 512 /\ h % 512 <= 511
  BY SMT
<1>6. h % 16 \in Int /\ 0 <= h % 16 /\ h % 16 <= 15
  BY SMT
<1>. QED BY <1>1, <1>2, <1>3, <1>4, <1>5, <1>6, SMT

LEMMA ShiftedParts ==
  ASSUME NEW h \in Int, 0 <= h, h < 65536
  PROVE  /\ (h * 128) % 65536 = 128 * (h % 512)
         /\ (h * 256) % 65536 = 256 * (h % 256)
         /\ (h * 4096) % 65536 = 4096 * (h % 16)
<1>1. (h * 128) % 65536 = 128 * (h % 512)
  BY SMT
<1>2. (h * 256) % 65536 = 256 * (h % 256)
  BY SMT
<1>3. (h * 4096) % 65536 = 4096 * (h % 16)
  BY SMT
<1>. QED BY <1>1, <1>2, <1>3, SMT

LEMMA MachineXor16 ==
  ASSUME NEW m \in Half, NEW n \in Half
  PROVE  Xor16(m, n) \in Half
<1>1. ASSUME NEW h \in Half PROVE h \div 256 \in Octet /\ h % 256 \in Octet
  <2>1. h \in Int /\ 0 <= h /\ h < 65536
    BY HalfBounds
  <2>2. /\ h \div 256 \in Int /\ 0 <= h \div 256 /\ h \div 256 <= 255
        /\ h % 256 \in Int /\ 0 <= h % 256 /\ h % 256 <= 255
    BY <2>1, HalfParts
  <2>. QED BY <2>2 DEF Octet
<1>2. Xor8(m \div 256, n \div 256) \in Octet /\ Xor8(m % 256, n % 256) \in Octet
  BY <1>1, MachineXor8
<1>3. ASSUME NEW c \in Octet, NEW d \in Octet PROVE 256 * c + d \in Half
  <2>1. 256 * c + d \in Int /\ 0 <= 256 * c + d /\ 256 * c + d < 65536
    BY DEF Octet
  <2>. QED BY <2>1, HalfBounds
<1>. QED BY <1>2, <1>3 DEF Xor16

(* What is shifted out of one half fits where the other was shifted.       *)
LEMMA ShiftedHalf ==
  ASSUME NEW h \in Half, NEW g \in Half
  PROVE  /\ ((h * 128) % HalfMod) + (g \div 512) \in Half
         /\ ((h * 256) % HalfMod) + (g \div 256) \in Half
         /\ ((h * 4096) % HalfMod) + (g \div 16) \in Half
<1>1. h \in Int /\ 0 <= h /\ h < 65536 /\ g \in Int /\ 0 <= g /\ g < 65536
  BY HalfBounds
<1>2. /\ (h * 128) % HalfMod = 128 * (h % 512)
      /\ (h * 256) % HalfMod = 256 * (h % 256)
      /\ (h * 4096) % HalfMod = 4096 * (h % 16)
  BY <1>1, ShiftedParts DEF HalfMod
<1> DEFINE a == h % 512
           b == h % 256
           c == h % 16
           d == g \div 512
           e == g \div 256
           f == g \div 16
<1>3. /\ d \in Int /\ 0 <= d /\ d <= 127 /\ a \in Int /\ 0 <= a /\ a <= 511
      /\ e \in Int /\ 0 <= e /\ e <= 255 /\ b \in Int /\ 0 <= b /\ b <= 255
      /\ f \in Int /\ 0 <= f /\ f <= 4095 /\ c \in Int /\ 0 <= c /\ c <= 15
  BY <1>1, HalfParts
<1> HIDE DEF a, b, c, d, e, f
<1>4. 128 * a + d \in Half
  BY <1>3, HalfBounds
<1>5. 256 * b + e \in Half
  BY <1>3, HalfBounds
<1>6. 4096 * c + f \in Half
  BY <1>3, HalfBounds
<1>. QED BY <1>2, <1>4, <1>5, <1>6 DEF a, b, c, d, e, f

LEMMA ReducedSum ==
  ASSUME NEW t \in Int, 0 <= t, t < 131072
  PROVE  t \div HalfMod \in {0, 1} /\ t % HalfMod \in Half
<1>1. t \div 65536 \in {0, 1}
  BY SMT
<1>2. t % 65536 \in Int /\ 0 <= t % 65536 /\ t % 65536 < 65536
  BY SMT
<1>. QED BY <1>1, <1>2, HalfBounds DEF HalfMod

LEMMA MachineWords ==
  ASSUME NEW v \in MCWord, NEW w \in MCWord
  PROVE  /\ MCAdd(v, w) \in MCWord
         /\ MCXor(v, w) \in MCWord
         /\ \A n \in {7, 8, 12, 16} : MCRotl(v, n) \in MCWord
<1>1. v[1] \in Half /\ v[2] \in Half /\ w[1] \in Half /\ w[2] \in Half
  BY DEF MCWord
<1>2. ASSUME NEW a \in Half, NEW b \in Half PROVE <<a, b>> \in MCWord
  BY DEF MCWord
<1>3. MCAdd(v, w) \in MCWord
  <2>1. v[2] + w[2] \in Int /\ 0 <= v[2] + w[2] /\ v[2] + w[2] < 131071
    BY <1>1, HalfBounds
  <2>2. (v[2] + w[2]) \div HalfMod \in {0, 1} /\ (v[2] + w[2]) % HalfMod \in Half
    BY <2>1, ReducedSum
  <2> DEFINE c == (v[2] + w[2]) \div HalfMod
             t == v[1] + w[1] + c
  <2>3. t \in Int /\ 0 <= t /\ t < 131072
    <3> HIDE DEF c
    <3>. QED BY <1>1, <2>2, HalfBounds DEF c
  <2>4. t % HalfMod \in Half
    <3> HIDE DEF t
    <3>. QED BY <2>3, ReducedSum
  <2>5. MCAdd(v, w) = <<t % HalfMod, (v[2] + w[2]) % HalfMod>>
    BY DEF MCAdd, Carry
  <2> HIDE DEF t
  <2>. QED BY <1>2, <2>2, <2>4, <2>5
<1>4. MCXor(v, w) \in MCWord
  BY <1>1, <1>2, MachineXor16 DEF MCXor
<1>5. ASSUME NEW n \in {7, 8, 12, 16} PROVE MCRotl(v, n) \in MCWord
  <2>1. CASE n = 16
    BY <1>1, <1>2, <2>1 DEF MCRotl
  <2>2. CASE n # 16
    <3>1. /\ 2^7 = 128 /\ 2^(16 - 7) = 512 /\ 2^8 = 256 /\ 2^(16 - 8) = 256
          /\ 2^12 = 4096 /\ 2^(16 - 12) = 16
      OBVIOUS
    <3>2. /\ ((v[1] * 2^n) % HalfMod) + (v[2] \div 2^(16 - n)) \in Half
          /\ ((v[2] * 2^n) % HalfMod) + (v[1] \div 2^(16 - n)) \in Half
      <4>1. CASE n = 7
        BY <1>1, <3>1, <4>1, ShiftedHalf
      <4>2. CASE n = 8
        BY <1>1, <3>1, <4>2, ShiftedHalf
      <4>3. CASE n = 12
        BY <1>1, <3>1, <4>3, ShiftedHalf
      <4>. QED BY <2>2, <4>1, <4>2, <4>3
    <3>. QED BY <1>2, <2>2, <3>2 DEF MCRotl
  <2>. QED BY <2>1, <2>2
<1>. QED BY <1>3, <1>4, <1>5

(* The operations are those on 32 bits, in halves.                         *)
MachineUsed ==
  /\ Word = MCWord
  /\ \A v, w \in MCWord :
       /\ Add(v, w) = MCAdd(v, w)
       /\ Xor(v, w) = MCXor(v, w)
       /\ \A n \in {7, 8, 12, 16} : Rotl(v, n) = MCRotl(v, n)

(* On 32-bit words, for every key, nonce and counter, the three versions   *)
(* of the block function agree: nothing is assumed of the operations.      *)
THEOREM MachineVectorsAgree ==
  ASSUME MachineUsed
  PROVE  Spec => [](TypeOK /\ SseAgrees /\ AvxAgrees)
<1>1. ASSUME NEW v \in Word, NEW w \in Word
      PROVE  /\ Add(v, w) \in Word
             /\ Xor(v, w) \in Word
             /\ \A n \in {7, 8, 12, 16} : Rotl(v, n) \in Word
  <2>1. Word = MCWord
    BY MachineUsed DEF MachineUsed
  <2>2. v \in MCWord /\ w \in MCWord
    BY <2>1
  <2>3. /\ Add(v, w) = MCAdd(v, w)
        /\ Xor(v, w) = MCXor(v, w)
        /\ \A n \in {7, 8, 12, 16} : Rotl(v, n) = MCRotl(v, n)
    BY <2>2, MachineUsed DEF MachineUsed
  <2>4. /\ MCAdd(v, w) \in MCWord
        /\ MCXor(v, w) \in MCWord
        /\ \A n \in {7, 8, 12, 16} : MCRotl(v, n) \in MCWord
    BY <2>2, MachineWords
  <2>. QED BY <2>1, <2>3, <2>4, Zenon
<1>2. WordsClosed
  BY <1>1 DEF WordsClosed
<1>. QED BY <1>2, TypeCorrect, SseIsScalar, AvxIsScalarTwice, PTL
==============================================================================
