------------------------------ MODULE ChaChaCtr ------------------------------
(***************************************************************************)
(* The counter-mode loops of the three ChaCha20 encryptions: "base" is     *)
(* ciphers/chacha20/chacha20.c, "sse" is chacha20_sse.c, whose loop has    *)
(* the same text around another block function, and "avx" is               *)
(* chacha20_avx.c, which makes two blocks at a time.                       *)
(*                                                                         *)
(* out records, for each byte of output, which byte of keystream the input *)
(* byte was combined with.  A word is stored and loaded in the same byte   *)
(* order, so the counter half of iv is the number it stands for; only the  *)
(* avx code writes to one of its bytes.                                    *)
(***************************************************************************)
EXTENDS CounterMode

CONSTANTS
  ByteMod,   \* values of a byte: 256 in the code; it divides WordMod
  MaxLen     \* bound: the longest input that is tried

ASSUME ByteAssumption ==
  /\ ByteMod \in Nat \ {0}
  /\ WordMod % ByteMod = 0
  /\ MaxLen \in Nat

VARIABLES
  impl,    \* the encryption that was called
  c,       \* its counter argument
  inlen,   \* its length argument
  pc,      \* where it is: blocks, rest, or done
  i,       \* the loop variable of the block loop
  count,   \* the counter variable of base and sse
  iv,      \* the counter at the start of iv
  out      \* the keystream bytes used so far; its length is off

args == <<impl, c, inlen>>
vars == <<args, pc, i, count, iv, out>>

Init ==
  /\ impl \in {"base", "sse", "avx"}
  /\ c \in Counter
  /\ inlen \in 0 .. MaxLen
  /\ pc = "blocks"
  /\ i = 0
  /\ count = c
  /\ iv = c
  /\ out = <<>>

------------------------------------------------------------------------------
(* chacha20_encryption and chacha20_encryption_128 *)

Encrypt(keystream) == out' = out \o keystream

(* The first n bytes of a keystream.                                       *)
First(n, keystream) == SubSeq(keystream, 1, n)

(* Mutant of WholeBlock: a counter that does not wrap at 32 bits.          *)
WholeBlockWide ==
  /\ impl \in {"base", "sse"}
  /\ pc = "blocks"
  /\ i < inlen \div BlockBytes
  /\ Encrypt(Block(iv))
  /\ count' = count + 1
  /\ iv' = count'
  /\ i' = i + 1
  /\ UNCHANGED <<args, pc>>

(* Mutant of WholeBlock: the counter is not carried over into iv.          *)
WholeBlockKeepingIv ==
  /\ impl \in {"base", "sse"}
  /\ pc = "blocks"
  /\ i < inlen \div BlockBytes
  /\ Encrypt(Block(iv))
  /\ count' = (count + 1) % WordMod
  /\ i' = i + 1
  /\ UNCHANGED <<args, pc, iv>>

WholeBlock ==
  /\ impl \in {"base", "sse"}
  /\ pc = "blocks"
  /\ i < inlen \div BlockBytes
  /\ Encrypt(Block(iv))
  /\ count' = (count + 1) % WordMod
  /\ iv' = count'
  /\ i' = i + 1
  /\ UNCHANGED <<args, pc>>

EndOfBlocks ==
  /\ impl \in {"base", "sse"}
  /\ pc = "blocks"
  /\ i = inlen \div BlockBytes
  /\ pc' = "rest"
  /\ UNCHANGED <<args, i, count, iv, out>>

(* Mutant of LastBytes: a whole block, whatever is left.                   *)
LastBytesRoundedUp ==
  /\ impl \in {"base", "sse"}
  /\ pc = "rest"
  /\ pc' = "done"
  /\ IF inlen % BlockBytes > 0 THEN Encrypt(Block(iv)) ELSE UNCHANGED out
  /\ UNCHANGED <<args, i, count, iv>>

LastBytes ==
  /\ impl \in {"base", "sse"}
  /\ pc = "rest"
  /\ pc' = "done"
  /\ Encrypt(First(inlen % BlockBytes, Block(iv)))
  /\ UNCHANGED <<args, i, count, iv>>

------------------------------------------------------------------------------
(* chacha20_encryption_256 *)

(* Mutant of DoubleBlock: the second state keeps the counter of the first. *)
DoubleBlockTwice(v) == Block(v) \o Block(v)

(* chacha20_expansion_256: the second block has the next counter, as a     *)
(* word; iv moves on by one as well, in its lowest byte only.              *)
DoubleBlock(v) == Block(v) \o Block((v + 1) % WordMod)

IncrementLowByte == iv' = iv - (iv % ByteMod) + (((iv % ByteMod) + 1) % ByteMod)

WholeDoubleBlock ==
  /\ impl = "avx"
  /\ pc = "blocks"
  /\ i < inlen \div (2 * BlockBytes)
  /\ Encrypt(DoubleBlock(iv))
  /\ IncrementLowByte
  /\ i' = i + 1
  /\ UNCHANGED <<args, pc, count>>

EndOfDoubleBlocks ==
  /\ impl = "avx"
  /\ pc = "blocks"
  /\ i = inlen \div (2 * BlockBytes)
  /\ pc' = "rest"
  /\ UNCHANGED <<args, i, count, iv, out>>

LastBytes256 ==
  /\ impl = "avx"
  /\ pc = "rest"
  /\ pc' = "done"
  /\ Encrypt(First(inlen % (2 * BlockBytes), DoubleBlock(iv)))
  /\ IF inlen % (2 * BlockBytes) > 0 THEN IncrementLowByte ELSE UNCHANGED iv
  /\ UNCHANGED <<args, i, count>>

------------------------------------------------------------------------------

Next ==
  \/ WholeBlock \/ EndOfBlocks \/ LastBytes
  \/ WholeDoubleBlock \/ EndOfDoubleBlocks \/ LastBytes256

Spec == Init /\ [][Next]_vars

------------------------------------------------------------------------------
(* Properties *)

(* The counters stay 32-bit words through the increments of the word and   *)
(* of its lowest byte.                                                     *)
TypeOK ==
  /\ impl \in {"base", "sse", "avx"}
  /\ c \in Counter
  /\ inlen \in Nat
  /\ pc \in {"blocks", "rest", "done"}
  /\ i \in Nat
  /\ count \in Counter
  /\ iv \in Counter
  /\ out \in Seq(Counter \X (0 .. BlockBytes - 1))

(* Every output byte is combined with its own byte of the keystream, for   *)
(* every length and every initial counter, also where the counter wraps    *)
(* and where whole blocks give way to the rest of the input.               *)
KeystreamRight == impl \in {"base", "sse"} => IsStream(c, out)

(* n added to the lowest byte of v, without a carry.                       *)
LowBytePlus(v, n) == v - (v % ByteMod) + (((v % ByteMod) + n) % ByteMod)

(* The keystream that the avx code computes, for every length: a double    *)
(* block is right for the counter it starts from, which for double block d *)
(* is the initial one with d added to its lowest byte only.                *)
AvxStream ==
  impl = "avx" =>
    \A p \in 1 .. Len(out) :
      out[p] = StreamByte(LowBytePlus(c, (p - 1) \div (2 * BlockBytes)),
                          (p - 1) % (2 * BlockBytes))

(* So it is the right one for inputs that fit one double block.            *)
ShortInputsRight == impl = "avx" /\ inlen <= 2 * BlockBytes => IsStream(c, out)

(* Exactly inlen bytes are written, never one beyond them.                 *)
OutputComplete == Len(out) <= inlen /\ (pc = "done" => Len(out) = inlen)

(* "This implementation passes all test vectors specified in RFC-8439"     *)
(* (ciphers/chacha20/chacha20_avx.c:17), one of which has 375 bytes.       *)
AvxKeystreamRight == impl = "avx" => IsStream(c, out)
==============================================================================
