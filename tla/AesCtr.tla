-------------------------------- MODULE AesCtr --------------------------------
(***************************************************************************)
(* AES-256 in counter mode: aes_ctr_encryption and increment_count of      *)
(* ciphers/rijndael/aes_ctr.c, called again and again with the same        *)
(* counter array, which belongs to the caller and is left as each call     *)
(* leaves it.                                                              *)
(*                                                                         *)
(* increment_count starts at index BLK_BYTES, one past the block that is   *)
(* encrypted, so the array is modelled with that byte.  out is the         *)
(* keystream the text of the current call was combined with.               *)
(***************************************************************************)
EXTENDS Integers, Sequences

CONSTANTS
  BLK_BYTES,         \* bytes in a block: 16 in the code
  ByteMod,           \* values of a byte: 256 in the code
  Cipher(_, _),      \* aes_encryption: a block, under a key schedule
  Key,               \* the key schedules that are tried
  Start,             \* the contents of the caller's array that are tried
  MaxBlocks,         \* bound: whole blocks encrypted in all calls together
  PtLength           \* the lengths that are tried

Byte  == 0 .. ByteMod - 1
Array == [0 .. BLK_BYTES -> Byte]
Block == [1 .. BLK_BYTES -> Byte]

(* A block cipher makes blocks of blocks.                                  *)
CipherMakesBlocks ==
  \A block \in Block, k \in Key : Cipher(block, k) \in Block

ASSUME AesCtrAssumption ==
  /\ BLK_BYTES \in Nat \ {0}
  /\ ByteMod \in Nat \ {0, 1}
  /\ Start \subseteq Array
  /\ PtLength \subseteq Nat
  /\ MaxBlocks \in Nat

VARIABLES
  key_schedule,
  counter,     \* the caller's array
  pt_length,   \* the length argument of the current call
  pc,          \* where that call is: blocks, rest, or done
  i,           \* its loop variable
  out,         \* its keystream
  origin,      \* the array before the first call
  base         \* whole blocks encrypted by the calls before this one

history == <<origin, base>>
vars == <<key_schedule, counter, pt_length, pc, i, out, history>>

Init ==
  /\ key_schedule \in Key
  /\ counter \in Start
  /\ pt_length \in PtLength
  /\ pt_length \div BLK_BYTES <= MaxBlocks
  /\ pc = "blocks"
  /\ i = 0
  /\ out = <<>>
  /\ origin = counter
  /\ base = 0

------------------------------------------------------------------------------

(* Mutant of IncrementCount: a byte that does not wrap.                    *)
IncrementCountUnwrapped(a) == [a EXCEPT ![BLK_BYTES] = @ + 1]

(* Mutant of IncrementCount: no carry.                                     *)
IncrementCountLastByte(a) == [a EXCEPT ![BLK_BYTES] = (@ + 1) % ByteMod]

(* increment_count: from index BLK_BYTES downwards, a byte is incremented  *)
(* if all those behind it have become 0.  Index 0 is never reached.        *)
IncrementCount(a) == [j \in 0 .. BLK_BYTES |->
  IF j > 0 /\ \A l \in j + 1 .. BLK_BYTES : a[l] = ByteMod - 1
  THEN (a[j] + 1) % ByteMod
  ELSE a[j]]

(* The block is the array without its last byte.                           *)
BlockOf(a) == [j \in 1 .. BLK_BYTES |-> a[j - 1]]

(* The first n bytes of the keystream that an array gives.                 *)
KeyStream(a, k, n) == SubSeq(Cipher(BlockOf(a), k), 1, n)

Encrypt(n) == out' = out \o KeyStream(counter, key_schedule, n)

WholeBlock ==
  /\ pc = "blocks"
  /\ i < pt_length \div BLK_BYTES
  /\ Encrypt(BLK_BYTES)
  /\ counter' = IncrementCount(counter)
  /\ i' = i + 1
  /\ UNCHANGED <<key_schedule, pt_length, pc, history>>

EndOfBlocks ==
  /\ pc = "blocks"
  /\ i = pt_length \div BLK_BYTES
  /\ pc' = "rest"
  /\ UNCHANGED <<key_schedule, counter, pt_length, i, out, history>>

(* Mutant of LastBytes: a whole block, whatever is left.                   *)
LastBytesRoundedUp ==
  /\ pc = "rest"
  /\ Encrypt(IF pt_length % BLK_BYTES > 0 THEN BLK_BYTES ELSE 0)
  /\ pc' = "done"
  /\ UNCHANGED <<key_schedule, counter, pt_length, i, history>>

(* The counter does not move after the rest of the text.                   *)
LastBytes ==
  /\ pc = "rest"
  /\ Encrypt(pt_length % BLK_BYTES)
  /\ pc' = "done"
  /\ UNCHANGED <<key_schedule, counter, pt_length, i, history>>

(* aes_ctr_encryption is called again with the same array and key.         *)
CallAgain(n) ==
  /\ pc = "done"
  /\ base + i + n \div BLK_BYTES <= MaxBlocks
  /\ pt_length' = n
  /\ pc' = "blocks"
  /\ i' = 0
  /\ out' = <<>>
  /\ base' = base + i
  /\ UNCHANGED <<key_schedule, counter, origin>>

Next ==
  \/ WholeBlock
  \/ EndOfBlocks
  \/ LastBytes
  \/ \E n \in PtLength : CallAgain(n)

Spec == Init /\ [][Next]_vars

------------------------------------------------------------------------------
(* Properties *)

(* Everything the calls read and write stays within its type; the array    *)
(* keeps its length through the carries of increment_count.                *)
TypeOK ==
  /\ key_schedule \in Key
  /\ counter \in Array
  /\ pt_length \in PtLength
  /\ pc \in {"blocks", "rest", "done"}
  /\ i \in Nat
  /\ out \in Seq(Byte)
  /\ origin \in Array
  /\ base \in Nat

(* Exactly pt_length bytes are written, in whole blocks and a rest.        *)
OutputComplete ==
  /\ Len(out) <= pt_length
  /\ pc = "done" => Len(out) = pt_length

(* The big-endian number in bytes from..to of an array, plus n: bytes      *)
(* outside stay, the carry out of byte from is lost.                       *)
Advance(a, from, to, n) ==
  LET carry[j \in from - 1 .. to] ==
        IF j = to THEN n ELSE (a[j + 1] + carry[j + 1]) \div ByteMod
  IN  [j \in DOMAIN a |->
         IF j \in from .. to THEN (a[j] + carry[j]) % ByteMod ELSE a[j]]

(* s is the start of the keystream of which block b is made from at[b].    *)
IsStream(s, at) ==
  \A b \in 0 .. Len(s) \div BLK_BYTES :
    LET n == IF Len(s) - b * BLK_BYTES < BLK_BYTES
             THEN Len(s) - b * BLK_BYTES ELSE BLK_BYTES
    IN  SubSeq(s, b * BLK_BYTES + 1, b * BLK_BYTES + n)
          = KeyStream(at[b], key_schedule, n)

(* Until the counter has moved the keystream is that of the caller's       *)
(* block: a first call of at most one block is right.                      *)
OneBlockRight ==
  base = 0 /\ pt_length <= BLK_BYTES =>
    out = KeyStream(origin, key_schedule, Len(out))

(* What the code computes, through any number of calls: block b of all     *)
(* text comes from the big-endian number in bytes 1 to 16 of the array,    *)
(* plus b, without its last byte.  A rest does not count as a block.       *)
StreamOfWideCounter ==
  IsStream(out, [b \in Nat |-> Advance(origin, 1, BLK_BYTES, base + b)])

(* "increment counter" (ciphers/rijndael/aes_ctr.c:81), between blocks     *)
(* that are to be encrypted "in order" (line 71): block b of a first call  *)
(* comes from the caller's block plus b.                                   *)
BlockCounterIncremented ==
  base = 0 =>
    IsStream(out, [b \in Nat |-> Advance(origin, 0, BLK_BYTES - 1, b)])
==============================================================================
