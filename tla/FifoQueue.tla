------------------------------ MODULE FifoQueue ------------------------------
(***************************************************************************)
(* What bench/src/queue.h promises to a caller, without pointers or        *)
(* memory: a first-in first-out queue of copied items.  An enqueue may     *)
(* fail, and then changes nothing; a dequeue returns the oldest item, and  *)
(* NULL exactly when there is none.                                        *)
(*                                                                         *)
(* Queue.tla is shown to implement Spec, and MailBox.tla is built on the   *)
(* operators of this module.                                               *)
(***************************************************************************)
EXTENDS Integers, Sequences

CONSTANTS
  Msg,    \* the items: the structs the benchmark passes around
  NULL    \* the null pointer

VARIABLES
  items,   \* the queued items, oldest first
  open,    \* new_queue returned a queue that was not freed since
  result   \* the last call and what it returned

vars == <<items, open, result>>

Succeeded == 0
Failed    == -1

Return(op, ret) == result' = [op |-> op, ret |-> ret]

Init ==
  /\ items = <<>>
  /\ open = FALSE
  /\ result = [op |-> "none", ret |-> NULL]

(* new_queue: a queue that starts empty, or NULL and no queue at all.      *)
Create ==
  /\ ~open
  /\ \/ open' = TRUE /\ Return("new_queue", Succeeded)
     \/ open' = FALSE /\ Return("new_queue", NULL)
  /\ UNCHANGED items

Put(m) ==
  /\ open
  /\ items' = Append(items, m)
  /\ Return("enqueue", Succeeded)
  /\ UNCHANGED open

PutFails ==
  /\ open
  /\ Return("enqueue", Failed)
  /\ UNCHANGED <<items, open>>

Take ==
  /\ open
  /\ items # <<>>
  /\ items' = Tail(items)
  /\ Return("dequeue", Head(items))
  /\ UNCHANGED open

TakeNothing ==
  /\ open
  /\ items = <<>>
  /\ Return("dequeue", NULL)
  /\ UNCHANGED <<items, open>>

AskEmpty ==
  /\ open
  /\ Return("empty", items = <<>>)
  /\ UNCHANGED <<items, open>>

(* free_queue: whatever was still queued is gone.  From two items on the   *)
(* call does not get to its end (Queue.tla), and there is no next one.     *)
Destroy ==
  /\ open
  /\ open' = FALSE
  /\ items' = <<>>
  /\ Return("free_queue", NULL)

Next ==
  \/ Create
  \/ \E m \in Msg : Put(m)
  \/ PutFails
  \/ Take
  \/ TakeNothing
  \/ AskEmpty
  \/ Destroy

Spec == Init /\ [][Next]_vars
==============================================================================
