------------------------------ MODULE MCMailBox ------------------------------
(***************************************************************************)
(* Bounded instances of MailBox.tla.                                       *)
(***************************************************************************)
EXTENDS MailBox, TLC

(* Threads of one kind run the same code, and no code looks at an item.    *)
Symmetry == Permutations(Sender) \cup Permutations(Receiver) \cup Permutations(Msg)
==============================================================================
