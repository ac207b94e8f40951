------------------------------- MODULE Channel -------------------------------
(***************************************************************************)
(* What a mailbox promises to the threads that share it, without lock,     *)
(* condition variable or waiting: a send and a receive each take effect    *)
(* in one step between their call and their return.  Items leave in the    *)
(* order in which the sends took effect, each to one receiver; a receive   *)
(* takes effect only when there is an item, so it never returns NULL.      *)
(* Nothing is promised once a mailbox was closed on more than one item.    *)
(*                                                                         *)
(* MailBox.tla is shown to implement Spec.                                 *)
(***************************************************************************)
EXTENDS Integers, Sequences

CONSTANTS
  Thread,  \* the threads that call
  Msg,     \* what they send
  NULL     \* the null pointer

VARIABLES
  open,    \* the mailbox is initialised
  items,   \* what was sent and not yet received, oldest first
  stage,   \* of each thread's call: idle, sending, sent, receiving, received
  msg,     \* of each thread, the item it sends or received
  status   \* of each thread, what its last send returned

vars == <<open, items, stage, msg, status>>

Succeeded == 0
Failed    == -1

Init ==
  /\ open = FALSE
  /\ items = <<>>
  /\ stage = [t \in Thread |-> "idle"]
  /\ msg = [t \in Thread |-> NULL]
  /\ status = [t \in Thread |-> Succeeded]

Move(t, from, to) ==
  /\ stage[t] = from
  /\ stage' = [stage EXCEPT ![t] = to]

Undefined == ~open /\ items # <<>>

Open ==
  /\ ~open /\ ~Undefined
  /\ open' = TRUE
  /\ UNCHANGED <<items, stage, msg, status>>

(* An item that was not received is gone; with more of them what happens   *)
(* is undefined, and the channel is not used again.                        *)
Close ==
  /\ open
  /\ \A t \in Thread : stage[t] = "idle"
  /\ open' = FALSE
  /\ items' = IF Len(items) > 1 THEN items ELSE <<>>
  /\ UNCHANGED <<stage, msg, status>>

CallSend(t, m) ==
  /\ open
  /\ Move(t, "idle", "sending")
  /\ msg' = [msg EXCEPT ![t] = m]
  /\ UNCHANGED <<open, items, status>>

Send(t) ==
  /\ Move(t, "sending", "sent")
  /\ items' = Append(items, msg[t])
  /\ status' = [status EXCEPT ![t] = Succeeded]
  /\ UNCHANGED <<open, msg>>

SendFails(t) ==
  /\ Move(t, "sending", "sent")
  /\ status' = [status EXCEPT ![t] = Failed]
  /\ UNCHANGED <<open, items, msg>>

CallReceive(t) ==
  /\ open
  /\ Move(t, "idle", "receiving")
  /\ msg' = [msg EXCEPT ![t] = NULL]
  /\ UNCHANGED <<open, items, status>>

Receive(t) ==
  /\ items # <<>>
  /\ Move(t, "receiving", "received")
  /\ msg' = [msg EXCEPT ![t] = Head(items)]
  /\ items' = Tail(items)
  /\ UNCHANGED <<open, status>>

Return(t) ==
  /\ Move(t, "sent", "idle") \/ Move(t, "received", "idle")
  /\ UNCHANGED <<open, items, msg, status>>

Next ==
  \/ Open
  \/ Close
  \/ \E t \in Thread :
       \/ \E m \in Msg : CallSend(t, m)
       \/ Send(t)
       \/ SendFails(t)
       \/ CallReceive(t)
       \/ Receive(t)
       \/ Return(t)

Spec == Init /\ [][Next]_vars

------------------------------------------------------------------------------

(* Every call is at one of its stages, and only items are sent.            *)
TypeOK ==
  /\ open \in BOOLEAN
  /\ items \in Seq(Msg)
  /\ stage \in [Thread -> {"idle", "sending", "sent", "receiving", "received"}]
  /\ msg \in [Thread -> Msg \cup {NULL}]
  /\ status \in [Thread -> {Succeeded, Failed}]
==============================================================================
