------------------------------- MODULE MailBox -------------------------------
(***************************************************************************)
(* The mailbox of bench/src/mailbox.h: a queue, a mutex and a condition    *)
(* variable, shared by threads that send and threads that receive.  Each   *)
(* step is one call that send_msg or recv_msg makes, so the steps of       *)
(* different threads interleave wherever the code lets them.               *)
(*                                                                         *)
(* The queue is the one FifoQueue specifies and Queue.tla implements; that *)
(* a queue operation can be one step here is what MutualExclusion is for.  *)
(* The mutex and the condition variable are POSIX's: waiting releases the  *)
(* mutex in the same step, a signal wakes a waiter if there is one, and a  *)
(* waiter may wake for no reason.                                          *)
(***************************************************************************)
EXTENDS Integers, Sequences, FiniteSets

CONSTANTS
  Sender, Receiver,   \* the threads that send, the threads that receive
  Msg,                \* what they send
  NULL,               \* the null pointer
  NoThread,           \* the owner of a free mutex
  Capacity            \* how many items there is memory for

Thread == Sender \cup Receiver

ASSUME ThreadAssumption ==
  /\ IsFiniteSet(Thread)
  /\ NoThread \notin Thread
  /\ NULL \notin Msg

ASSUME CapacityAssumption == Capacity \in Nat

VARIABLES
  open,     \* init_mail_box succeeded, destroy_mail_box was not called since
  items,    \* the queue, oldest item first; also the one free_queue broke down on
  lock,     \* the owner of the mutex
  waiters,  \* the threads blocked on the condition variable
  pc,       \* what each thread does next in send_msg or recv_msg
  msg,      \* of each thread, the argument of send_msg or the local of recv_msg
  status    \* of each thread, the local variable of send_msg

vars == <<open, items, lock, waiters, pc, msg, status>>

Succeeded == 0
Failed    == -1

Init ==
  /\ open = FALSE
  /\ items = <<>>
  /\ lock = NoThread
  /\ waiters = {}
  /\ pc = [t \in Thread |-> "out"]
  /\ msg = [t \in Thread |-> NULL]
  /\ status = [t \in Thread |-> Succeeded]

Goto(t, from, to) ==
  /\ pc[t] = from
  /\ pc' = [pc EXCEPT ![t] = to]

Acquire(t) ==
  /\ lock = NoThread
  /\ lock' = t

------------------------------------------------------------------------------
(* init_mail_box and destroy_mail_box *)

(* free_nodes has read a node that it freed: destroy_mail_box did not      *)
(* return in a defined way, and what follows is not modelled.              *)
Undefined == ~open /\ items # <<>>

InitMailBox ==
  /\ ~open /\ ~Undefined
  /\ open' = TRUE
  /\ items' = <<>>
  /\ lock' = NoThread
  /\ waiters' = {}
  /\ UNCHANGED <<pc, msg, status>>

(* Only the queue is freed; neither the mutex nor a waiter is looked at.   *)
(* free_queue is defined up to one item (FreeSafeUpToOneItem of Queue).    *)
DestroyMailBox ==
  /\ open
  /\ open' = FALSE
  /\ items' = IF Len(items) > 1 THEN items ELSE <<>>
  /\ UNCHANGED <<lock, waiters, pc, msg, status>>

(* No thread is inside a call: when a caller may destroy the mailbox.      *)
Quiescent == \A t \in Thread : pc[t] = "out"

------------------------------------------------------------------------------
(* send_msg *)

SendCall(t, m) ==
  /\ open
  /\ Goto(t, "out", "s_lock")
  /\ msg' = [msg EXCEPT ![t] = m]
  /\ UNCHANGED <<open, items, lock, waiters, status>>

SendLock(t) ==
  /\ Goto(t, "s_lock", "s_enqueue")
  /\ Acquire(t)
  /\ UNCHANGED <<open, items, waiters, msg, status>>

(* Mutant of SendEnqueue: the node is queued before the item is copied.    *)
SendEnqueueTooEarly(t) ==
  /\ Goto(t, "s_enqueue", "s_signal")
  /\ Len(items) < Capacity
  /\ items' = Append(items, NULL)
  /\ status' = [status EXCEPT ![t] = Succeeded]
  /\ UNCHANGED <<open, lock, waiters, msg>>

(* Mutant of SendEnqueue: a failure returns without unlocking.             *)
SendEnqueueReturning(t) ==
  \/ /\ Goto(t, "s_enqueue", "s_signal")
     /\ Len(items) < Capacity
     /\ items' = Append(items, msg[t])
     /\ status' = [status EXCEPT ![t] = Succeeded]
     /\ UNCHANGED <<open, lock, waiters, msg>>
  \/ /\ Goto(t, "s_enqueue", "out")
     /\ status' = [status EXCEPT ![t] = Failed]
     /\ UNCHANGED <<open, items, lock, waiters, msg>>

(* Mutant of SendEnqueue: what enqueue returned is not passed on.          *)
SendEnqueueUnreported(t) ==
  /\ \/ /\ Goto(t, "s_enqueue", "s_signal")
        /\ Len(items) < Capacity
        /\ items' = Append(items, msg[t])
     \/ Goto(t, "s_enqueue", "s_unlock") /\ UNCHANGED items
  /\ status' = [status EXCEPT ![t] = Succeeded]
  /\ UNCHANGED <<open, lock, waiters, msg>>

(* enqueue copies the item, or fails for want of memory; then there is     *)
(* nothing to signal.                                                      *)
SendEnqueue(t) ==
  \/ /\ Goto(t, "s_enqueue", "s_signal")
     /\ Len(items) < Capacity
     /\ items' = Append(items, msg[t])
     /\ status' = [status EXCEPT ![t] = Succeeded]
     /\ UNCHANGED <<open, lock, waiters, msg>>
  \/ /\ Goto(t, "s_enqueue", "s_unlock")
     /\ status' = [status EXCEPT ![t] = Failed]
     /\ UNCHANGED <<open, items, lock, waiters, msg>>

(* Mutant of SendSignal: only the item that ends an empty queue is         *)
(* signalled, as if one receiver's wakeup served them all.                 *)
SendSignalFirstItem(t) ==
  /\ pc[t] = "s_signal"
  /\ \/ /\ waiters = {} \/ Len(items) # 1
        /\ pc' = [pc EXCEPT ![t] = "s_unlock"]
        /\ UNCHANGED waiters
     \/ \E w \in waiters :
          /\ Len(items) = 1
          /\ pc' = [pc EXCEPT ![t] = "s_unlock", ![w] = "r_relock"]
          /\ waiters' = waiters \ {w}
  /\ UNCHANGED <<open, items, lock, msg, status>>

SendSignal(t) ==
  /\ pc[t] = "s_signal"
  /\ \/ /\ waiters = {}
        /\ pc' = [pc EXCEPT ![t] = "s_unlock"]
        /\ UNCHANGED waiters
     \/ \E w \in waiters :
          /\ pc' = [pc EXCEPT ![t] = "s_unlock", ![w] = "r_relock"]
          /\ waiters' = waiters \ {w}
  /\ UNCHANGED <<open, items, lock, msg, status>>

SendUnlock(t) ==
  /\ Goto(t, "s_unlock", "out")
  /\ lock' = NoThread
  /\ UNCHANGED <<open, items, waiters, msg, status>>

------------------------------------------------------------------------------
(* recv_msg *)

RecvCall(t) ==
  /\ open
  /\ Goto(t, "out", "r_lock")
  /\ msg' = [msg EXCEPT ![t] = NULL]
  /\ UNCHANGED <<open, items, lock, waiters, status>>

RecvLock(t) ==
  /\ Goto(t, "r_lock", "r_test")
  /\ Acquire(t)
  /\ UNCHANGED <<open, items, waiters, msg, status>>

(* The condition of the while loop.                                        *)
RecvTest(t) ==
  /\ \/ items = <<>> /\ Goto(t, "r_test", "r_wait")
     \/ items # <<>> /\ Goto(t, "r_test", "r_dequeue")
  /\ UNCHANGED <<open, items, lock, waiters, msg, status>>

(* Mutant of RecvWait: the loop polls the queue with the mutex held.       *)
RecvPoll(t) ==
  /\ Goto(t, "r_wait", "r_test")
  /\ UNCHANGED <<open, items, lock, waiters, msg, status>>

(* pthread_cond_wait, up to where it blocks ...                            *)
RecvWait(t) ==
  /\ Goto(t, "r_wait", "r_blocked")
  /\ waiters' = waiters \cup {t}
  /\ lock' = NoThread
  /\ UNCHANGED <<open, items, msg, status>>

(* ... where nothing but a signal should end it ...                        *)
SpuriousWakeup(t) ==
  /\ Goto(t, "r_blocked", "r_relock")
  /\ waiters' = waiters \ {t}
  /\ UNCHANGED <<open, items, lock, msg, status>>

(* Mutant of RecvRelock: an if in place of the while.                      *)
RecvRelockOnce(t) ==
  /\ Goto(t, "r_relock", "r_dequeue")
  /\ Acquire(t)
  /\ UNCHANGED <<open, items, waiters, msg, status>>

(* ... and from there back to the condition of the loop.                   *)
RecvRelock(t) ==
  /\ Goto(t, "r_relock", "r_test")
  /\ Acquire(t)
  /\ UNCHANGED <<open, items, waiters, msg, status>>

RecvDequeue(t) ==
  /\ Goto(t, "r_dequeue", "r_unlock")
  /\ msg' = [msg EXCEPT ![t] = IF items = <<>> THEN NULL ELSE Head(items)]
  /\ items' = IF items = <<>> THEN <<>> ELSE Tail(items)
  /\ UNCHANGED <<open, lock, waiters, status>>

RecvUnlock(t) ==
  /\ Goto(t, "r_unlock", "out")
  /\ lock' = NoThread
  /\ UNCHANGED <<open, items, waiters, msg, status>>

------------------------------------------------------------------------------

SendStep(t) == SendLock(t) \/ SendEnqueue(t) \/ SendSignal(t) \/ SendUnlock(t)

RecvStep(t) ==
  \/ RecvLock(t) \/ RecvTest(t) \/ RecvWait(t) \/ RecvRelock(t)
  \/ RecvDequeue(t) \/ RecvUnlock(t)

Next ==
  \/ InitMailBox
  \/ Quiescent /\ DestroyMailBox
  \/ Undefined /\ UNCHANGED vars
  \/ \E t \in Sender : (\E m \in Msg : SendCall(t, m)) \/ SendStep(t)
  \/ \E t \in Receiver : RecvCall(t) \/ RecvStep(t) \/ SpuriousWakeup(t)

Spec == Init /\ [][Next]_vars

------------------------------------------------------------------------------
(* Safety *)

SendPc == {"s_lock", "s_enqueue", "s_signal", "s_unlock"}
RecvPc == {"r_lock", "r_test", "r_wait", "r_blocked", "r_relock", "r_dequeue", "r_unlock"}

(* Where a thread is between pthread_mutex_lock and the unlock or wait.    *)
Critical == {"s_enqueue", "s_signal", "s_unlock", "r_test", "r_wait", "r_dequeue", "r_unlock"}

TypeOK ==
  /\ open \in BOOLEAN
  /\ items \in Seq(Msg)
  /\ lock \in Thread \cup {NoThread}
  /\ waiters \in SUBSET Thread
  /\ pc \in [Thread -> {"out"} \cup SendPc \cup RecvPc]
  /\ msg \in [Thread -> Msg \cup {NULL}]
  /\ status \in [Thread -> {Succeeded, Failed}]

(* Whoever is about to touch the queue owns the mutex, and its owner is    *)
(* on the way to release it: no two threads are in the queue's code, and   *)
(* no path out of send_msg or recv_msg (a failed enqueue, a wait, a        *)
(* wakeup) keeps the mutex or gives it up twice.                           *)
MutualExclusion == \A t \in Thread : pc[t] \in Critical <=> lock = t

(* Receivers that will still look at the queue before they block.          *)
Takers == {t \in Thread : pc[t] \in {"r_lock", "r_relock", "r_test", "r_dequeue"}}

(* Sends that have enqueued and not signalled yet.                         *)
Signallers == {t \in Thread : pc[t] = "s_signal"}

(* No lost wakeup, counted: while a thread is blocked, every queued item   *)
(* has a receiver under way to it or a signal about to be sent.  This is   *)
(* what makes one pthread_cond_signal per item enough, though signals are  *)
(* lost when nobody waits and a woken thread may find its item gone.       *)
NoLostWakeup ==
  waiters # {} => Len(items) <= Cardinality(Takers) + Cardinality(Signallers)

(* recv_msg returns an item: when it gets to its dequeue the queue is not  *)
(* empty, however it was woken and whoever ran before it.                  *)
RecvReturnsItem ==
  \A t \in Thread : /\ pc[t] = "r_dequeue" => items # <<>>
                    /\ pc[t] = "r_unlock" => msg[t] \in Msg

------------------------------------------------------------------------------
(* Refinement *)

(* How far a call is for its caller.                                       *)
Stage(t) ==
  CASE pc[t] \in {"s_lock", "s_enqueue"}  -> "sending"
    [] pc[t] \in {"s_signal", "s_unlock"} -> "sent"
    [] pc[t] = "r_unlock"                 -> "received"
    [] pc[t] \in RecvPc \ {"r_unlock"}    -> "receiving"
    [] OTHER                              -> "idle"

Stages == [t \in Thread |-> Stage(t)]

Chan == INSTANCE Channel WITH stage <- Stages

(* The threads that share the mailbox see a queue whose operations are     *)
(* atomic: no item is lost, duplicated, reordered or made up.              *)
ImplementsChannel == Chan!Spec

------------------------------------------------------------------------------
(* Liveness *)

(* Every thread that can run is run.                                       *)
ThreadsRun ==
  /\ \A t \in Sender : WF_vars(SendStep(t))
  /\ \A t \in Receiver : WF_vars(RecvStep(t))

(* A pthread mutex may let one thread overtake another for ever.  Nobody   *)
(* overtakes for ever if there are finitely many sends and finitely many   *)
(* spurious wakeups: every other way to the mutex needs one of them.       *)
FinitelyManySends == <>[][~ \E t \in Sender, m \in Msg : SendCall(t, m)]_vars
FinitelyManySpuriousWakeups == <>[][~ \E t \in Receiver : SpuriousWakeup(t)]_vars

FairSpec ==
  Spec /\ ThreadsRun /\ FinitelyManySends /\ FinitelyManySpuriousWakeups

(* A send returns, with or without memory.                                 *)
SendReturns == \A t \in Sender : (pc[t] \in SendPc) ~> (pc[t] = "out")

(* A receiver does not stay in recv_msg while there is something for it:   *)
(* in the end every receiver has returned, or there is nothing to receive. *)
ItemsAreReceived ==
  <>[](items = <<>> \/ \A t \in Receiver : pc[t] \notin RecvPc)
==============================================================================
