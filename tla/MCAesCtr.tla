------------------------------- MODULE MCAesCtr -------------------------------
(***************************************************************************)
(* AesCtr.tla around the block cipher of AesBlock.tla, with the keys and   *)
(* counters of the repository's tests and arrays that are about to carry.  *)
(***************************************************************************)
EXTENDS AesCtr, AesBlock

(* The secret keys of tests/test_aes.c:27 and tests/test_aes_ctr.c:23.     *)
FipsKey == [j \in 1 .. 32 |-> j - 1]
NistKey == << 
  96, 61, 235, 16, 21, 202, 113, 190, 43, 115, 174, 240, 133, 125, 119, 129,
  31, 53, 44, 7, 59, 97, 8, 215, 45, 152, 16, 163, 9, 20, 223, 244>>

FipsSchedule == aes_key_expansion(FipsKey)
NistSchedule == aes_key_expansion(NistKey)
Keys == {FipsSchedule, NistSchedule}

(* Bytes 0 to 16 of the array; what the tests leave undefined behind the   *)
(* block is 0.                                                             *)
FipsText == [j \in 0 .. 16 |-> IF j < 16 THEN 17 * j ELSE 0]
NistCounter == [j \in 0 .. 16 |-> IF j < 16 THEN 240 + j ELSE 0]

(* One, two and all carries away from the increments that follow.          *)
Filled(from, last) ==
  [j \in 0 .. 16 |-> IF j = 16 THEN last ELSE IF j >= from THEN 255 ELSE 7]

Starts == {FipsText, NistCounter, Filled(16, 254), Filled(15, 255),
           Filled(14, 254), Filled(0, 255)}

Lengths == {0, 1, 16, 17, 32, 47}

------------------------------------------------------------------------------
(* The tables against the arithmetic of FIPS 197, section 4.2 and 5.1.1 *)

(* Multiplication by x, modulo x^8 + x^4 + x^3 + x + 1.                    *)
Xtime(b) == IF b < 128 THEN 2 * b ELSE Xor8(2 * b - 256, 27)

RECURSIVE Product(_, _)
Product(a, b) ==
  IF b = 0 THEN 0
  ELSE Xor8(IF b % 2 = 1 THEN a ELSE 0, Product(Xtime(a), b \div 2))

RECURSIVE Power(_, _)
Power(b, n) ==
  IF n = 0 THEN 1
  ELSE Product(IF n % 2 = 1 THEN b ELSE 1, Power(Product(b, b), n \div 2))

(* The field has 255 elements besides 0, so that b^255 = 1.                *)
Inverse(b) == Power(b, 254)

RotateByte(b, n) == ((b * 2^n) % 256) + (b \div 2^(8 - n))

Affine(b) == Xor8(99, Xor8(Xor8(b, RotateByte(b, 1)),
                  Xor8(RotateByte(b, 2), Xor8(RotateByte(b, 3), RotateByte(b, 4)))))

(* Every entry of s_box is the inverse of its index under the affine map   *)
(* of the standard, and every entry of gf_8_mult the product it stands     *)
(* for; the test vectors of tests/ do not reach all of them.               *)
TablesRight ==
  \A b \in Octet :
    /\ b # 0 => Product(b, Inverse(b)) = 1
    /\ Substitute(b) = Affine(Inverse(b))
    /\ GF_8(2, b) = Product(2, b)
    /\ GF_8(3, b) = Product(3, b)

------------------------------------------------------------------------------
(* Known answers *)

(* What tests/test_aes.c:43 expects of the first block, and the first      *)
(* block of tests/test_aes_ctr.c:47 combined with its text.                *)
FipsAnswer == <<142, 162, 183, 202, 81, 103, 69, 191, 234, 252, 73, 144, 75, 73, 96, 137>>
NistAnswer == <<
  11, 223, 125, 241, 89, 23, 22, 51, 94, 154, 139, 21, 200, 96, 197, 2>>

(* aes.c computes AES-256: the first block of keystream is the one that    *)
(* the repository's tests expect and, as their vectors do not reach every  *)
(* entry of s_box and gf_8_mult, each entry is what FIPS 197 defines.      *)
CipherRight ==
  /\ TablesRight
  /\ base = 0 /\ Len(out) >= BLK_BYTES =>
       /\ key_schedule = FipsSchedule /\ origin = FipsText
            => SubSeq(out, 1, BLK_BYTES) = FipsAnswer
       /\ key_schedule = NistSchedule /\ origin = NistCounter
            => SubSeq(out, 1, BLK_BYTES) = NistAnswer
==============================================================================
