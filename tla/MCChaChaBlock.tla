--------------------------- MODULE MCChaChaBlock ---------------------------
(* Instance of ChaChaBlock for TLC.  A word of 32 bits is a pair of halves *)
(* of 16 bits, high and low: TLC's integers have 32 bits with the sign.    *)
EXTENDS ChaChaBlock, Bytes

HalfMod == 65536
Half == 0 .. HalfMod - 1
MCWord == Half \X Half

Carry(m) == m \div HalfMod
MCAdd(v, w) ==
  LET low == v[2] + w[2]
  IN  <<(v[1] + w[1] + Carry(low)) % HalfMod, low % HalfMod>>

Xor16(m, n) == 256 * Xor8(m \div 256, n \div 256) + Xor8(m % 256, n % 256)
MCXor(v, w) == <<Xor16(v[1], w[1]), Xor16(v[2], w[2])>>

MCRotl(v, n) ==
  IF n = 16 THEN <<v[2], v[1]>>
  ELSE <<((v[1] * 2^n) % HalfMod) + (v[2] \div 2^(16 - n)),
         ((v[2] * 2^n) % HalfMod) + (v[1] \div 2^(16 - n))>>

MCOne == <<0, 1>>

From0(s) == [p \in 0 .. Len(s) - 1 |-> s[p + 1]]

MCSigma == From0(<< <<24944, 30821>>, <<13088, 25710>>,
                    <<31074, 11570>>, <<27424, 25972>> >>)

(* The key of tests/test_chacha20.c, and one of high bits.                 *)
TestKey == From0(
  << <<770, 256>>, <<1798, 1284>>, <<2826, 2312>>, <<3854, 3340>>,
     <<4882, 4368>>, <<5910, 5396>>, <<6938, 6424>>, <<7966, 7452>> >>)
MCKey == {TestKey, [k \in 0 .. 7 |-> <<65535 - k, 65280>>]}

(* The nonce of the test with counters around a carry and the wrap to 0.   *)
TestInput(counter) == From0(<<counter, <<0, 0>>, <<18944, 0>>, <<0, 0>> >>)
MCInput == {TestInput(c) : c \in {<<0, 1>>, <<0, 65535>>, <<65535, 65535>>}}

(* The first words of the key stream that tests/test_chacha20.c expects,   *)
(* its plain text xor its expected cipher text, for counters 1 and 2.      *)
TestBlock1 == From0(
  << <<62289, 20258>>, <<57817,  6976>>, <<28455, 56879>>, <<60701, 25528>>,
     <<33311,  5004>>, <<57862, 11325>>, <<60618, 20350>>, <<30927, 62366>>,
     <<41738, 15242>>, <<37386, 24690>>, <<52596, 31157>>, <<13459, 11245>>,
     <<16570, 19577>>, <<52532, 16070>>, <<19500,  8682>>, <<46913, 32240>> >>)
TestBlock2 == From0(
  << <<40820, 42601>>, <<16655, 25407>>, <<10494, 51746>>, <<32452, 19948>>,
     <<27956, 54310>>, <<29580, 47472>>, <<15045, 59891>>, <<17753,  3268>>,
     <<55918, 35641>>, <<35116, 33562>>, <<52714, 26561>>, <<11134,  7568>> >>)

(* With the key, nonce and counter of the test the block function makes    *)
(* the key stream of the test in both blocks: twenty rounds of its quarter *)
(* rounds over columns and over diagonals, and the input added, are        *)
(* ChaCha20 and not another permutation that all three versions share.     *)
KnownAnswer ==
  pc = "done" /\ x[0] = Matrix(TestKey, TestInput(MCOne)) =>
    /\ y[0] = TestBlock1
    /\ \A p \in DOMAIN TestBlock2 : y[1][p] = TestBlock2[p]
==============================================================================
