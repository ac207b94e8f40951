------------------------------ MODULE CounterMode ------------------------------
(***************************************************************************)
(* Counter mode with a 32-bit block counter, as RFC 8439 and the headers   *)
(* of ciphers/chacha20 describe it: keystream block number b is the block  *)
(* function of the counter c + b, and position p of the text is combined   *)
(* with byte p of the keystream.                                           *)
(*                                                                         *)
(* The block function is abstract: byte j of its output for the counter v  *)
(* is the pair <<v, j>>, so two bytes of keystream are the same exactly    *)
(* when they come from the same place of the same block.                   *)
(***************************************************************************)
EXTENDS Integers, Sequences

CONSTANTS
  BlockBytes,   \* bytes in a block: 64 in the code
  WordMod       \* values of the counter: 2^32 in the code

ASSUME SizeAssumption == BlockBytes \in Nat \ {0} /\ WordMod \in Nat \ {0}

Counter == 0 .. WordMod - 1

(* What the block function makes of one counter.                           *)
Block(v) == [j \in 1 .. BlockBytes |-> <<v, j - 1>>]

(* The keystream byte that belongs to position p, counted from 0.          *)
StreamByte(c, p) == <<(c + p \div BlockBytes) % WordMod, p % BlockBytes>>

(* s is the start of the keystream for the initial counter c.              *)
IsStream(c, s) == \A p \in 1 .. Len(s) : s[p] = StreamByte(c, p - 1)
==============================================================================
