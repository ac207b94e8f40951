------------------------------- MODULE MCQueue -------------------------------
(***************************************************************************)
(* Bounded instances of Queue.tla.  Addresses and items are model values;  *)
(* Node bounds the length of the queue and Buf, one larger, leaves a job   *)
(* in a caller's hand while the queue is full.                             *)
(***************************************************************************)
EXTENDS Queue, TLC

(* No operation looks inside an address or an item.                        *)
Symmetry == Permutations(Node) \cup Permutations(Buf) \cup Permutations(Msg)
==============================================================================
