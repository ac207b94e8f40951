-------------------------------- MODULE Bytes --------------------------------
(***************************************************************************)
(* Bytes as the machine combines them, for the concrete instances.         *)
(***************************************************************************)
EXTENDS Integers

Octet == 0 .. 255

(* The bit of n that counts p.                                             *)
Bit(n, p) == (n \div p) % 2

(* Exclusive or of two half bytes, in a table: bits are added, but carry   *)
(* nothing.                                                                *)
XorHalf == [a \in 0 .. 15 |-> [b \in 0 .. 15 |->
  LET Sum(p) == p * ((Bit(a, p) + Bit(b, p)) % 2)
  IN  Sum(8) + Sum(4) + Sum(2) + Sum(1)]]

Xor8(a, b) == 16 * XorHalf[a \div 16][b \div 16] + XorHalf[a % 16][b % 16]
==============================================================================
