------------------------------ MODULE ChaChaBlock ------------------------------
(***************************************************************************)
(* The ChaCha20 block function as it is written three times: on 16 words   *)
(* (ciphers/chacha20/chacha20.c), on four vectors of four lanes            *)
(* (chacha20_sse.c) and on four vectors of eight lanes that hold two       *)
(* blocks (chacha20_avx.c).  The three run side by side here, round by     *)
(* round, so that they can be compared after each; the first is run for    *)
(* both blocks of the last, z[0] and z[1].                                 *)
(*                                                                         *)
(* The operations on words are parameters.  Nothing is assumed of them, so *)
(* the vector code agrees with the scalar code only if it applies the same *)
(* operations to the same words in the same order.  Keys, nonces and       *)
(* outputs are taken as words: loads and stores are all little-endian.     *)
(***************************************************************************)
EXTENDS Integers, Sequences

CONSTANTS
  Word,        \* the 32-bit words
  Add(_, _),   \* their sum, modulo 2^32
  Xor(_, _),
  Rotl(_, _),  \* a word rotated to the left by a number of bits
  One,         \* the word 1
  Sigma,       \* the four words of "expand 32-byte k"
  Key,         \* the keys that are tried, eight words each
  Input        \* counters with nonces, four words each

(* Mutant of N_ROUNDS: the loop counts double rounds.                      *)
N_ROUNDS_DOUBLE == 40

N_ROUNDS == 20

Place == 0 .. 15      \* of a word in the matrix
Block == 0 .. 1       \* of the two blocks

ASSUME InputAssumption ==
  /\ One \in Word
  /\ Sigma \in [0 .. 3 -> Word]
  /\ Key \subseteq [0 .. 7 -> Word]
  /\ Input \subseteq [0 .. 3 -> Word]

VARIABLES
  x, z, y,            \* input matrix, working state and output: scalar
  x128, z128, y128,   \* the same for chacha20_sse.c
  x256, z256, y256,   \* the same for chacha20_avx.c
  i,                  \* the loop variable, which counts rounds by two
  pc                  \* columns, diagonals: the half of a double round; done

inputs == <<x, x128, x256>>
vars == <<inputs, z, z128, z256, y, y128, y256, i, pc>>

------------------------------------------------------------------------------
(* Setting up the state *)

(* chacha20_expansion: constants, key, then the counter with the nonce.    *)
Matrix(key, input) == [p \in Place |->
  IF p < 4 THEN Sigma[p] ELSE IF p < 12 THEN key[p - 4] ELSE input[p - 12]]

NextCounter(m) == [m EXCEPT ![12] = Add(@, One)]

(* Four words of the matrix in each vector.                                *)
Rows128(m) == [r \in 1 .. 4 |-> [l \in 0 .. 3 |-> m[4 * (r - 1) + l]]]

(* Mutant of Rows256: the second block has the counter of the first.       *)
Rows256Twice(m) == [r \in 1 .. 4 |-> [l \in 0 .. 7 |-> m[4 * (r - 1) + (l % 4)]]]

(* chacha20_expansion_256: each four words twice, and the second counter   *)
(* incremented.                                                            *)
Rows256(m) == [r \in 1 .. 4 |-> [l \in 0 .. 7 |->
  IF r = 4 /\ l = 4 THEN Add(m[12], One) ELSE m[4 * (r - 1) + (l % 4)]]]

Init ==
  \E key \in Key, input \in Input :
    LET m == Matrix(key, input) IN
    /\ x = [b \in Block |-> IF b = 0 THEN m ELSE NextCounter(m)]
    /\ x128 = Rows128(m)
    /\ x256 = Rows256(m)
    /\ z = x /\ z128 = x128 /\ z256 = x256
    /\ y = <<>> /\ y128 = <<>> /\ y256 = <<>>
    /\ i = 0
    /\ pc = "columns"

------------------------------------------------------------------------------
(* One word at a time *)

(* What a quarter round makes of its four words.                           *)
Quarter(a, b, c, d) ==
  LET a1 == Add(a, b)     d1 == Rotl(Xor(d, a1), 16)
      c1 == Add(c, d1)    b1 == Rotl(Xor(b, c1), 12)
      a2 == Add(a1, b1)   d2 == Rotl(Xor(d1, a2), 8)
      c2 == Add(c1, d2)   b2 == Rotl(Xor(b1, c2), 7)
  IN  <<a2, b2, c2, d2>>

chacha_quarter_round(m, a, b, c, d) ==
  LET q == Quarter(m[a], m[b], m[c], m[d])
  IN  [m EXCEPT ![a] = q[1], ![b] = q[2], ![c] = q[3], ![d] = q[4]]

Columns(m0) ==
  LET m1 == chacha_quarter_round(m0, 0, 4,  8, 12)
      m2 == chacha_quarter_round(m1, 1, 5,  9, 13)
      m3 == chacha_quarter_round(m2, 2, 6, 10, 14)
  IN  chacha_quarter_round(m3, 3, 7, 11, 15)

Diagonals(m0) ==
  LET m1 == chacha_quarter_round(m0, 0, 5, 10, 15)
      m2 == chacha_quarter_round(m1, 1, 6, 11, 12)
      m3 == chacha_quarter_round(m2, 2, 7,  8, 13)
  IN  chacha_quarter_round(m3, 3, 4, 9, 14)

------------------------------------------------------------------------------
(* One vector at a time, of four lanes or of twice four *)

AddRow(v, w)  == [l \in DOMAIN v |-> Add(v[l], w[l])]
XorRow(v, w)  == [l \in DOMAIN v |-> Xor(v[l], w[l])]
RotlRow(v, n) == [l \in DOMAIN v |-> Rotl(v[l], n)]

(* The statements that both halves of chacha20_double_round_128 and _256   *)
(* begin with.                                                             *)
VectorRound(v) ==
  LET a1 == AddRow(v[1], v[2])   d1 == RotlRow(XorRow(v[4], a1), 16)
      c1 == AddRow(v[3], d1)     b1 == RotlRow(XorRow(v[2], c1), 12)
      a2 == AddRow(a1, b1)       d2 == RotlRow(XorRow(d1, a2), 8)
      c2 == AddRow(c1, d2)       b2 == RotlRow(XorRow(b1, c2), 7)
  IN  <<a2, b2, c2, d2>>

(* The lane that moves to lane l when each 128 bits of a vector rotate     *)
(* right by n words.                                                       *)
LaneFrom(l, n) == 4 * (l \div 4) + ((l + n) % 4)

(* _mm_rotr_128(v, 32 n), _mm_rotr_256 and their counterparts to the left. *)
RotrLanes(v, n) == [l \in DOMAIN v |-> v[LaneFrom(l, n)]]
RotlLanes(v, n) == RotrLanes(v, 4 - n)

ToDiagonals(v) ==
  <<v[1], RotrLanes(v[2], 1), RotrLanes(v[3], 2), RotrLanes(v[4], 3)>>

(* Mutant of ToColumns: the lanes go on in the direction they went.        *)
ToColumnsOnwards(v) ==
  <<v[1], RotrLanes(v[2], 1), RotrLanes(v[3], 2), RotrLanes(v[4], 3)>>

ToColumns(v) ==
  <<v[1], RotlLanes(v[2], 1), RotlLanes(v[3], 2), RotlLanes(v[4], 3)>>

------------------------------------------------------------------------------

(* Mutant of ColumnRound: the loop takes a round too many.                 *)
ColumnRoundTooMany ==
  /\ pc = "columns"
  /\ i <= N_ROUNDS
  /\ z' = [b \in Block |-> Columns(z[b])]
  /\ z128' = ToDiagonals(VectorRound(z128))
  /\ z256' = ToDiagonals(VectorRound(z256))
  /\ pc' = "diagonals"
  /\ UNCHANGED <<inputs, y, y128, y256, i>>

ColumnRound ==
  /\ pc = "columns"
  /\ i < N_ROUNDS
  /\ z' = [b \in Block |-> Columns(z[b])]
  /\ z128' = ToDiagonals(VectorRound(z128))
  /\ z256' = ToDiagonals(VectorRound(z256))
  /\ pc' = "diagonals"
  /\ UNCHANGED <<inputs, y, y128, y256, i>>

DiagonalRound ==
  /\ pc = "diagonals"
  /\ z' = [b \in Block |-> Diagonals(z[b])]
  /\ z128' = ToColumns(VectorRound(z128))
  /\ z256' = ToColumns(VectorRound(z256))
  /\ i' = i + 2
  /\ pc' = "columns"
  /\ UNCHANGED <<inputs, y, y128, y256>>

(* The input is added, and the sums are stored: lane l of row r at word    *)
(* 4 (r - 1) + l, and lanes 4 to 7 with the second block.                  *)
Store ==
  /\ pc = "columns"
  /\ i = N_ROUNDS
  /\ z' = [b \in Block |-> AddRow(z[b], x[b])]
  /\ z128' = [r \in 1 .. 4 |-> AddRow(z128[r], x128[r])]
  /\ z256' = [r \in 1 .. 4 |-> AddRow(z256[r], x256[r])]
  /\ y' = z'
  /\ y128' = [p \in Place |-> z128'[(p \div 4) + 1][p % 4]]
  /\ y256' = [p \in 0 .. 31 |->
       z256'[((p % 16) \div 4) + 1][4 * (p \div 16) + (p % 4)]]
  /\ pc' = "done"
  /\ UNCHANGED <<inputs, i>>

Next == ColumnRound \/ DiagonalRound \/ Store

Spec == Init /\ [][Next]_vars

------------------------------------------------------------------------------
(* Properties *)

(* The vectors keep their lanes, everything in them stays a word, and the  *)
(* loop ends after twenty rounds.                                          *)
TypeOK ==
  /\ x \in [Block -> [Place -> Word]] /\ z \in [Block -> [Place -> Word]]
  /\ x128 \in [1 .. 4 -> [0 .. 3 -> Word]] /\ z128 \in [1 .. 4 -> [0 .. 3 -> Word]]
  /\ x256 \in [1 .. 4 -> [0 .. 7 -> Word]] /\ z256 \in [1 .. 4 -> [0 .. 7 -> Word]]
  /\ i \in 0 .. N_ROUNDS
  /\ pc \in {"columns", "diagonals", "done"}
  /\ pc = "done" =>
       /\ y \in [Block -> [Place -> Word]]
       /\ y128 \in [Place -> Word]
       /\ y256 \in [0 .. 31 -> Word]

(* The word of the matrix that lane l, 0 to 3, of row r holds: between a   *)
(* column and a diagonal round the rows are rotated.                       *)
PlaceOf(r, l) ==
  4 * (r - 1) + (IF pc = "diagonals" THEN (l + r - 1) % 4 ELSE l)

(* After every round the four vectors of chacha20_sse.c hold the words     *)
(* that chacha20.c has at the places of their lanes, and in the end both   *)
(* have written the same block.                                            *)
SseAgrees ==
  /\ \A r \in 1 .. 4, l \in 0 .. 3 : z128[r][l] = z[0][PlaceOf(r, l)]
  /\ pc = "done" => y128 = y[0]

(* The eight lanes of chacha20_avx.c hold what chacha20.c has for the      *)
(* counter and for the next one, and the two blocks are written one behind *)
(* the other.                                                              *)
AvxAgrees ==
  /\ \A r \in 1 .. 4, l \in 0 .. 7 :
       z256[r][l] = z[l \div 4][PlaceOf(r, l % 4)]
  /\ pc = "done" =>
       \A b \in Block, p \in Place : y256[16 * b + p] = y[b][p]
==============================================================================
