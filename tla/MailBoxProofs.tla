---------------------------- MODULE MailBoxProofs ----------------------------
(***************************************************************************)
(* Proofs about MailBox.tla, for any finite sets of threads, any items and *)
(* any amount of memory.                                                   *)
(*                                                                         *)
(* LockInv is inductive: who holds the mutex, who is blocked, and what the *)
(* holder has learnt of the queue.  NoLostWakeup is a count of threads on  *)
(* top of it; ImplementsChannel follows from LockInv alone.                *)
(***************************************************************************)
EXTENDS MailBox, FiniteSetTheorems, TLAPS

(* The wait set of the condition variable is the set of blocked threads.   *)
WaitersBlocked == waiters = {t \in Thread : pc[t] = "r_blocked"}

(* A thread that decided to wait holds the mutex, so nobody has enqueued   *)
(* since it looked.                                                        *)
EmptyAtWait == \A t \in Thread : pc[t] = "r_wait" => items = <<>>

(* Before init_mail_box and after destroy_mail_box nothing goes on, and a  *)
(* thread that is to send has an item.                                     *)
ClosedIsQuiet == ~open => Quiescent

SendersHaveItems ==
  \A t \in Thread : pc[t] \in {"s_lock", "s_enqueue"} => msg[t] \in Msg

LockInv ==
  /\ TypeOK
  /\ MutualExclusion
  /\ WaitersBlocked
  /\ EmptyAtWait
  /\ ClosedIsQuiet
  /\ SendersHaveItems
  /\ RecvReturnsItem

------------------------------------------------------------------------------
(* The lock. *)

LEMMA LockInit == Init => LockInv
<1> SUFFICES ASSUME Init
             PROVE  LockInv
  OBVIOUS
<1>1. TypeOK
  <2>1. pc \in [Thread -> {"out"} \cup SendPc \cup RecvPc]
    BY DEF Init
  <2>2. msg \in [Thread -> Msg \cup {NULL}]
    BY DEF Init
  <2>3. status \in [Thread -> {Succeeded, Failed}]
    BY DEF Init
  <2>4. open \in BOOLEAN
    BY Zenon DEF Init
  <2>5. items \in Seq(Msg) /\ lock \in Thread \cup {NoThread} /\ waiters \in SUBSET Thread
    BY DEF Init
  <2>. QED BY <2>1, <2>2, <2>3, <2>4, <2>5 DEF TypeOK
<1>2. MutualExclusion /\ WaitersBlocked
  BY ThreadAssumption DEF Init, MutualExclusion, WaitersBlocked, Critical
<1>3. EmptyAtWait /\ ClosedIsQuiet /\ SendersHaveItems /\ RecvReturnsItem
  BY DEF Init, EmptyAtWait, ClosedIsQuiet, SendersHaveItems, RecvReturnsItem, Quiescent
<1>. QED BY <1>1, <1>2, <1>3 DEF LockInv

LEMMA LockOpen ==
  ASSUME LockInv, InitMailBox \/ (Quiescent /\ DestroyMailBox)
  PROVE  LockInv'
<1>1. Quiescent /\ Quiescent' /\ UNCHANGED <<pc, msg, status>>
  BY DEF LockInv, ClosedIsQuiet, Quiescent, InitMailBox, DestroyMailBox
<1>2. lock = NoThread /\ waiters = {}
  BY <1>1, ThreadAssumption
  DEF LockInv, TypeOK, MutualExclusion, WaitersBlocked, Quiescent, Critical
<1>3. open' \in BOOLEAN /\ (items' = items \/ items' = <<>>) /\ lock' = lock /\ waiters' = waiters
  BY <1>2 DEF InitMailBox, DestroyMailBox
<1>4. TypeOK' /\ MutualExclusion' /\ WaitersBlocked'
  <2>1. items' \in Seq(Msg)
    <3>1. items \in Seq(Msg) /\ <<>> \in Seq(Msg)
      BY DEF LockInv, TypeOK
    <3>. QED BY <1>3, <3>1
  <2>. QED BY <1>1, <1>3, <2>1 DEF LockInv, TypeOK, MutualExclusion, WaitersBlocked
<1>. QED
  BY <1>1, <1>3, <1>4
  DEF LockInv, EmptyAtWait, ClosedIsQuiet, SendersHaveItems, RecvReturnsItem, Quiescent

LEMMA LockSend ==
  ASSUME NEW t \in Thread, LockInv, SendStep(t) \/ \E m \in Msg : SendCall(t, m)
  PROVE  LockInv'
<1> USE ThreadAssumption
    DEF LockInv, TypeOK, MutualExclusion, WaitersBlocked, EmptyAtWait, ClosedIsQuiet,
        SendersHaveItems, RecvReturnsItem, Quiescent, Critical, SendPc, RecvPc,
        Succeeded, Failed
<1>1. ASSUME NEW m \in Msg, SendCall(t, m)
      PROVE  LockInv'
  BY <1>1 DEF SendCall, Goto
<1>2. CASE SendLock(t)
  BY <1>2 DEF SendLock, Goto, Acquire
<1>3. CASE SendEnqueue(t)
  <2>1. /\ lock = t /\ lock' = t /\ waiters' = waiters /\ open' = open /\ msg' = msg
        /\ pc[t] = "s_enqueue" /\ status' \in [Thread -> {Succeeded, Failed}]
        /\ pc' \in [Thread -> {"out"} \cup SendPc \cup RecvPc]
        /\ \A u \in Thread : u # t => pc'[u] = pc[u] /\ pc'[u] \notin Critical
        /\ pc'[t] \in {"s_signal", "s_unlock"}
    BY <1>3 DEF SendEnqueue, Goto
  <2>2. items' \in Seq(Msg)
    <3>1. msg[t] \in Msg
      BY <2>1
    <3>. QED BY <1>3, <3>1 DEF SendEnqueue
  <2>3. TypeOK'
    BY <2>1, <2>2
  <2>4. MutualExclusion' /\ WaitersBlocked' /\ EmptyAtWait' /\ ClosedIsQuiet'
    BY <2>1
  <2>5. SendersHaveItems' /\ RecvReturnsItem'
    BY <2>1
  <2>. QED BY <2>3, <2>4, <2>5
<1>4. CASE SendSignal(t)
  BY <1>4 DEF SendSignal
<1>5. CASE SendUnlock(t)
  BY <1>5 DEF SendUnlock, Goto
<1>. QED BY <1>1, <1>2, <1>3, <1>4, <1>5 DEF SendStep

LEMMA LockRecv ==
  ASSUME NEW t \in Thread, LockInv, RecvStep(t) \/ RecvCall(t) \/ SpuriousWakeup(t)
  PROVE  LockInv'
<1> USE ThreadAssumption
    DEF LockInv, TypeOK, MutualExclusion, WaitersBlocked, EmptyAtWait, ClosedIsQuiet,
        SendersHaveItems, RecvReturnsItem, Quiescent, Critical, SendPc, RecvPc,
        Succeeded, Failed
<1>1. CASE RecvCall(t)
  BY <1>1 DEF RecvCall, Goto
<1>2. CASE RecvLock(t)
  BY <1>2 DEF RecvLock, Goto, Acquire
<1>3. CASE RecvTest(t)
  BY <1>3 DEF RecvTest, Goto
<1>4. CASE RecvWait(t)
  BY <1>4 DEF RecvWait, Goto
<1>5. CASE SpuriousWakeup(t)
  BY <1>5 DEF SpuriousWakeup, Goto
<1>6. CASE RecvRelock(t)
  BY <1>6 DEF RecvRelock, Goto, Acquire
<1>7. CASE RecvDequeue(t)
  BY <1>7 DEF RecvDequeue, Goto
<1>8. CASE RecvUnlock(t)
  BY <1>8 DEF RecvUnlock, Goto
<1>. QED BY <1>1, <1>2, <1>3, <1>4, <1>5, <1>6, <1>7, <1>8 DEF RecvStep

LEMMA LockNext == LockInv /\ [Next]_vars => LockInv'
<1> SUFFICES ASSUME LockInv, [Next]_vars
             PROVE  LockInv'
  OBVIOUS
<1>1. CASE InitMailBox \/ (Quiescent /\ DestroyMailBox)
  BY <1>1, LockOpen
<1>2. CASE \E t \in Sender : (\E m \in Msg : SendCall(t, m)) \/ SendStep(t)
  BY <1>2, LockSend DEF Thread
<1>3. CASE \E t \in Receiver : RecvCall(t) \/ RecvStep(t) \/ SpuriousWakeup(t)
  BY <1>3, LockRecv DEF Thread
<1>4. CASE UNCHANGED vars
  BY <1>4 DEF vars, LockInv, TypeOK, MutualExclusion, WaitersBlocked, EmptyAtWait,
              ClosedIsQuiet, SendersHaveItems, RecvReturnsItem, Quiescent
<1>. QED BY <1>1, <1>2, <1>3, <1>4 DEF Next

LEMMA LockInvariance == Spec => []LockInv
BY LockInit, LockNext, PTL DEF Spec

(* The mailbox and the threads' locals keep values of their C types.       *)
THEOREM TypeCorrect == Spec => []TypeOK
<1>1. LockInv => TypeOK
  BY DEF LockInv
<1>. QED BY <1>1, LockInvariance, PTL

(* Only the owner of the mutex is inside the queue's code, on every path.  *)
THEOREM QueueIsProtected == Spec => []MutualExclusion
<1>1. LockInv => MutualExclusion
  BY DEF LockInv
<1>. QED BY <1>1, LockInvariance, PTL

(* recv_msg never returns NULL, with any number of receivers.              *)
THEOREM ReceiveReturnsItem == Spec => []RecvReturnsItem
<1>1. LockInv => RecvReturnsItem
  BY DEF LockInv
<1>. QED BY <1>1, LockInvariance, PTL

------------------------------------------------------------------------------
(* The count of wakeups. *)

LEMMA ThreadsAreFinite ==
  ASSUME NEW S \in SUBSET Thread
  PROVE  IsFiniteSet(S) /\ Cardinality(S) \in Nat
BY ThreadAssumption, FS_Subset, FS_CardinalityType

(* A step of one thread within its own calls moves at most that thread in  *)
(* or out of the two sets that are counted.                                *)
LEMMA OneThreadMoves ==
  ASSUME NEW t \in Thread, NEW from, NEW to, TypeOK, Goto(t, from, to)
  PROVE  /\ Takers' = IF to \in {"r_lock", "r_relock", "r_test", "r_dequeue"}
                        THEN Takers \cup {t} ELSE Takers \ {t}
         /\ Signallers' = IF to = "s_signal"
                            THEN Signallers \cup {t} ELSE Signallers \ {t}
BY DEF Goto, TypeOK, Takers, Signallers

LEMMA WakeupSend ==
  ASSUME NEW t \in Thread, LockInv, LockInv', NoLostWakeup,
         SendStep(t) \/ \E m \in Msg : SendCall(t, m)
  PROVE  NoLostWakeup'
<1> USE DEF LockInv
<1>1. /\ IsFiniteSet(Takers) /\ Cardinality(Takers) \in Nat
      /\ IsFiniteSet(Signallers) /\ Cardinality(Signallers) \in Nat
      /\ Len(items) \in Nat
  BY ThreadsAreFinite DEF Takers, Signallers, TypeOK
<1>2. ASSUME UNCHANGED <<items, waiters, Takers, Signallers>>
      PROVE  NoLostWakeup'
  BY <1>2 DEF NoLostWakeup
<1>3. ASSUME NEW m \in Msg, SendCall(t, m)
      PROVE  NoLostWakeup'
  <2>1. Goto(t, "out", "s_lock") /\ t \notin Takers /\ t \notin Signallers
    BY <1>3 DEF SendCall, Goto, Takers, Signallers
  <2>2. Takers' = Takers /\ Signallers' = Signallers
    BY <2>1, OneThreadMoves
  <2>. QED BY <1>2, <1>3, <2>2 DEF SendCall
<1>4. CASE SendLock(t)
  <2>1. Goto(t, "s_lock", "s_enqueue") /\ t \notin Takers /\ t \notin Signallers
    BY <1>4 DEF SendLock, Goto, Takers, Signallers
  <2>2. Takers' = Takers /\ Signallers' = Signallers
    BY <2>1, OneThreadMoves
  <2>. QED BY <1>2, <1>4, <2>2 DEF SendLock
<1>5. CASE SendEnqueue(t)
  <2>1. t \notin Takers /\ t \notin Signallers /\ pc[t] = "s_enqueue"
    BY <1>5 DEF SendEnqueue, Goto, Takers, Signallers
  <2>2. CASE Goto(t, "s_enqueue", "s_unlock") /\ UNCHANGED <<items, waiters>>
    <3>1. Takers' = Takers /\ Signallers' = Signallers
      BY <2>1, <2>2, OneThreadMoves
    <3>. QED BY <1>2, <2>2, <3>1
  <2>3. CASE /\ Goto(t, "s_enqueue", "s_signal")
             /\ items' = Append(items, msg[t])
             /\ waiters' = waiters
    <3>1. Takers' = Takers /\ Signallers' = Signallers \cup {t}
      BY <2>1, <2>3 DEF Goto, TypeOK, Takers, Signallers
    <3>2. Cardinality(Signallers') = Cardinality(Signallers) + 1
      BY <1>1, <2>1, <3>1, FS_AddElement
    <3>3. Len(items') = Len(items) + 1
      BY <2>1, <2>3 DEF TypeOK, SendersHaveItems
    <3>. QED BY <1>1, <2>3, <3>1, <3>2, <3>3 DEF NoLostWakeup
  <2>. QED BY <1>5, <2>2, <2>3 DEF SendEnqueue
<1>6. CASE SendSignal(t)
  <2>1. CASE waiters' = {}
    BY <2>1 DEF NoLostWakeup
  <2>2. ASSUME NEW w \in waiters,
               pc' = [pc EXCEPT ![t] = "s_unlock", ![w] = "r_relock"]
        PROVE  NoLostWakeup'
    <3>1. w \in Thread /\ pc[w] = "r_blocked" /\ pc[t] = "s_signal" /\ w # t
      BY <1>6, <2>2 DEF SendSignal, WaitersBlocked
    <3>2. /\ Takers' = Takers \cup {w} /\ w \notin Takers
          /\ Signallers' = Signallers \ {t} /\ t \in Signallers
      BY <2>2, <3>1 DEF TypeOK, Takers, Signallers
    <3>3. /\ Cardinality(Takers') = Cardinality(Takers) + 1
          /\ Cardinality(Signallers') = Cardinality(Signallers) - 1
      BY <1>1, <3>2, FS_AddElement, FS_RemoveElement
    <3>4. items' = items /\ waiters # {}
      BY <1>6, <2>2 DEF SendSignal
    <3>. QED BY <1>1, <3>3, <3>4 DEF NoLostWakeup
  <2>. QED BY <1>6, <2>1, <2>2 DEF SendSignal
<1>7. CASE SendUnlock(t)
  <2>1. Goto(t, "s_unlock", "out") /\ t \notin Takers /\ t \notin Signallers
    BY <1>7 DEF SendUnlock, Goto, Takers, Signallers
  <2>2. Takers' = Takers /\ Signallers' = Signallers
    BY <2>1, OneThreadMoves
  <2>. QED BY <1>2, <1>7, <2>2 DEF SendUnlock
<1>. QED BY <1>3, <1>4, <1>5, <1>6, <1>7 DEF SendStep

LEMMA WakeupRecv ==
  ASSUME NEW t \in Thread, LockInv, LockInv', NoLostWakeup,
         RecvStep(t) \/ RecvCall(t) \/ SpuriousWakeup(t)
  PROVE  NoLostWakeup'
<1> USE DEF LockInv
<1>1. /\ IsFiniteSet(Takers) /\ Cardinality(Takers) \in Nat
      /\ IsFiniteSet(Signallers) /\ Cardinality(Signallers) \in Nat
      /\ Len(items) \in Nat
  BY ThreadsAreFinite DEF Takers, Signallers, TypeOK
<1>2. ASSUME UNCHANGED <<items, waiters, Takers, Signallers>>
      PROVE  NoLostWakeup'
  BY <1>2 DEF NoLostWakeup
(* A call and a wakeup add a receiver that will look at the queue.         *)
<1>3. CASE RecvCall(t) \/ SpuriousWakeup(t)
  <2>1. /\ \E from \in {"out", "r_blocked"} :
             /\ pc[t] = from
             /\ Goto(t, from, "r_lock") \/ Goto(t, from, "r_relock")
        /\ items' = items /\ waiters' \subseteq waiters
    BY <1>3 DEF RecvCall, SpuriousWakeup, Goto
  <2>2. t \notin Takers /\ t \notin Signallers
    BY <2>1 DEF Takers, Signallers
  <2>3. Takers' = Takers \cup {t} /\ Signallers' = Signallers
    BY <2>1, <2>2, OneThreadMoves
  <2>4. Cardinality(Takers') = Cardinality(Takers) + 1
    BY <1>1, <2>2, <2>3, FS_AddElement
  <2>. QED BY <1>1, <2>1, <2>3, <2>4 DEF NoLostWakeup
<1>4. CASE RecvLock(t) \/ RecvRelock(t)
  <2>1. /\ \E from \in {"r_lock", "r_relock"} : pc[t] = from /\ Goto(t, from, "r_test")
        /\ UNCHANGED <<items, waiters>>
    BY <1>4 DEF RecvLock, RecvRelock, Goto
  <2>2. t \in Takers /\ t \notin Signallers
    BY <2>1 DEF Takers, Signallers
  <2>3. Takers' = Takers /\ Signallers' = Signallers
    BY <2>1, <2>2, OneThreadMoves
  <2>. QED BY <1>2, <2>1, <2>3
<1>5. CASE RecvTest(t)
  <2>1. CASE items = <<>>
    <3>1. /\ Len(items') = 0
          /\ Cardinality(Takers') \in Nat /\ Cardinality(Signallers') \in Nat
      BY <1>5, <2>1, ThreadsAreFinite DEF RecvTest, Takers, Signallers
    <3>. QED BY <3>1 DEF NoLostWakeup
  <2>2. CASE items # <<>>
    <3>1. Goto(t, "r_test", "r_dequeue") /\ t \in Takers /\ t \notin Signallers
      BY <1>5, <2>2 DEF RecvTest, Goto, Takers, Signallers
    <3>2. Takers' = Takers /\ Signallers' = Signallers
      BY <3>1, OneThreadMoves
    <3>. QED BY <1>2, <1>5, <3>2 DEF RecvTest
  <2>. QED BY <2>1, <2>2
(* A thread only joins the waiters of an empty queue.                      *)
<1>6. CASE RecvWait(t)
  <2>1. Len(items') = 0
    BY <1>6 DEF RecvWait, Goto, EmptyAtWait
  <2>2. Cardinality(Takers') \in Nat /\ Cardinality(Signallers') \in Nat
    BY ThreadsAreFinite DEF Takers, Signallers
  <2>. QED BY <2>1, <2>2 DEF NoLostWakeup
<1>7. CASE RecvDequeue(t)
  <2>1. /\ Goto(t, "r_dequeue", "r_unlock") /\ t \in Takers /\ t \notin Signallers
        /\ items # <<>> /\ items' = Tail(items) /\ waiters' = waiters
    BY <1>7 DEF RecvDequeue, Goto, Takers, Signallers, RecvReturnsItem
  <2>2. Takers' = Takers \ {t} /\ Signallers' = Signallers
    BY <2>1 DEF Goto, TypeOK, Takers, Signallers
  <2>3. Cardinality(Takers') = Cardinality(Takers) - 1
    BY <1>1, <2>1, <2>2, FS_RemoveElement
  <2>4. Len(items') = Len(items) - 1
    BY <2>1 DEF TypeOK
  <2>5. Cardinality(Takers') \in Int
    BY <1>1, <2>3
  <2>. QED BY <1>1, <2>1, <2>2, <2>3, <2>4, <2>5 DEF NoLostWakeup
<1>8. CASE RecvUnlock(t)
  <2>1. Goto(t, "r_unlock", "out") /\ t \notin Takers /\ t \notin Signallers
    BY <1>8 DEF RecvUnlock, Goto, Takers, Signallers
  <2>2. Takers' = Takers /\ Signallers' = Signallers
    BY <2>1, OneThreadMoves
  <2>. QED BY <1>2, <1>8, <2>2 DEF RecvUnlock
<1>. QED BY <1>3, <1>4, <1>5, <1>6, <1>7, <1>8 DEF RecvStep

(* While a receiver is blocked, every queued item has another receiver     *)
(* under way to it or a signal that will be sent: no wakeup is lost.       *)
THEOREM WakeupsAreNotLost == Spec => []NoLostWakeup
<1>1. Init => NoLostWakeup
  BY DEF Init, NoLostWakeup
<1>2. LockInv /\ LockInv' /\ NoLostWakeup /\ [Next]_vars => NoLostWakeup'
  <2> SUFFICES ASSUME LockInv, LockInv', NoLostWakeup, [Next]_vars
               PROVE  NoLostWakeup'
    OBVIOUS
  <2>1. CASE InitMailBox \/ (Quiescent /\ DestroyMailBox)
    <3>1. waiters' = {}
      BY <2>1 DEF InitMailBox, DestroyMailBox, Quiescent, LockInv, WaitersBlocked
    <3>. QED BY <3>1 DEF NoLostWakeup
  <2>2. CASE \E t \in Sender : (\E m \in Msg : SendCall(t, m)) \/ SendStep(t)
    BY <2>2, WakeupSend DEF Thread
  <2>3. CASE \E t \in Receiver : RecvCall(t) \/ RecvStep(t) \/ SpuriousWakeup(t)
    BY <2>3, WakeupRecv DEF Thread
  <2>4. CASE UNCHANGED vars
    BY <2>4 DEF vars, NoLostWakeup, Takers, Signallers
  <2>. QED BY <2>1, <2>2, <2>3, <2>4 DEF Next
<1>. QED BY <1>1, <1>2, LockInvariance, PTL DEF Spec

------------------------------------------------------------------------------
(* The mailbox implements Channel. *)

(* A step of one thread within its own calls, as the callers see it.       *)
LEMMA StageMoves ==
  ASSUME NEW t \in Thread, NEW from, NEW to, TypeOK, Goto(t, from, to)
  PROVE  /\ Stages[t] = Stage(t)
         /\ Stages' = [Stages EXCEPT ![t] = Stage(t)']
<1>1. \A u \in Thread : u # t => Stage(u)' = Stage(u)
  BY DEF Goto, TypeOK, Stage
<1>. QED BY <1>1 DEF Stages

(* Taking the mutex, waiting and waking up are invisible.                  *)
LEMMA HiddenStep ==
  ASSUME NEW t \in Thread, NEW from, NEW to, TypeOK, Goto(t, from, to),
         \/ from = "s_lock" /\ to = "s_enqueue"
         \/ from = "s_signal" /\ to = "s_unlock"
         \/ {from, to} \subseteq RecvPc \ {"r_unlock"}
  PROVE  Stages' = Stages
<1>1. Stage(t)' = Stage(t)
  BY DEF Goto, TypeOK, Stage, RecvPc
<1>. QED BY <1>1, StageMoves DEF Stages

LEMMA SendRefines ==
  ASSUME NEW t \in Thread, LockInv, SendStep(t) \/ \E m \in Msg : SendCall(t, m)
  PROVE  [Chan!Next]_(Chan!vars)
<1> USE DEF LockInv
<1>1. ASSUME NEW m \in Msg, SendCall(t, m)
      PROVE  Chan!CallSend(t, m)
  <2>1. Stage(t) = "idle" /\ Stage(t)' = "sending"
    BY <1>1 DEF SendCall, Goto, TypeOK, Stage, RecvPc
  <2>. QED BY <1>1, <2>1, StageMoves DEF SendCall, Chan!CallSend, Chan!Move
<1>2. CASE SendLock(t)
  <2>1. Stages' = Stages
    BY <1>2, HiddenStep DEF SendLock
  <2>. QED BY <1>2, <2>1 DEF SendLock, Chan!vars
<1>3. CASE SendEnqueue(t)
  <2>1. PICK to \in {"s_signal", "s_unlock"} : Goto(t, "s_enqueue", to)
    BY <1>3 DEF SendEnqueue
  <2>2. Stage(t) = "sending" /\ Stage(t)' = "sent"
    BY <2>1 DEF Goto, TypeOK, Stage, RecvPc
  <2>3. Chan!Move(t, "sending", "sent")
    BY <2>1, <2>2, StageMoves DEF Chan!Move
  <2>. QED BY <1>3, <2>3
       DEF SendEnqueue, Succeeded, Failed, Chan!Next, Chan!Send, Chan!SendFails,
           Chan!Succeeded, Chan!Failed
<1>4. CASE SendSignal(t)
  <2>1. \A u \in Thread : Stage(u)' = Stage(u)
    BY <1>4 DEF SendSignal, TypeOK, WaitersBlocked, Stage, RecvPc
  <2>. QED BY <1>4, <2>1 DEF SendSignal, Stages, Chan!vars
<1>5. CASE SendUnlock(t)
  <2>1. Stage(t) = "sent" /\ Stage(t)' = "idle"
    BY <1>5 DEF SendUnlock, Goto, TypeOK, Stage, RecvPc
  <2>. QED BY <1>5, <2>1, StageMoves DEF SendUnlock, Chan!Next, Chan!Return, Chan!Move
<1>. QED BY <1>1, <1>2, <1>3, <1>4, <1>5 DEF SendStep, Chan!Next

LEMMA RecvRefines ==
  ASSUME NEW t \in Thread, LockInv, RecvStep(t) \/ RecvCall(t) \/ SpuriousWakeup(t)
  PROVE  [Chan!Next]_(Chan!vars)
<1> USE DEF LockInv
<1>1. CASE RecvCall(t)
  <2>1. Stage(t) = "idle" /\ Stage(t)' = "receiving"
    BY <1>1 DEF RecvCall, Goto, TypeOK, Stage, RecvPc
  <2>. QED BY <1>1, <2>1, StageMoves DEF RecvCall, Chan!Next, Chan!CallReceive, Chan!Move
<1>2. CASE RecvLock(t) \/ RecvTest(t) \/ RecvWait(t) \/ RecvRelock(t) \/ SpuriousWakeup(t)
  <2> DEFINE Hidden == {"r_lock", "r_test", "r_wait", "r_blocked", "r_relock", "r_dequeue"}
  <2>1. PICK from \in Hidden, to \in Hidden : Goto(t, from, to)
    BY <1>2 DEF RecvLock, RecvTest, RecvWait, RecvRelock, SpuriousWakeup
  <2>2. Stages' = Stages
    <3>1. {from, to} \subseteq RecvPc \ {"r_unlock"}
      BY DEF RecvPc
    <3>. QED BY <2>1, <3>1, HiddenStep
  <2>. QED BY <1>2, <2>2
       DEF RecvLock, RecvTest, RecvWait, RecvRelock, SpuriousWakeup, Chan!vars
<1>3. CASE RecvDequeue(t)
  <2>1. Goto(t, "r_dequeue", "r_unlock") /\ items # <<>>
    BY <1>3 DEF RecvDequeue, Goto, RecvReturnsItem
  <2>2. Stage(t) = "receiving" /\ Stage(t)' = "received"
    BY <2>1 DEF Goto, TypeOK, Stage, RecvPc
  <2>3. Chan!Move(t, "receiving", "received")
    BY <2>1, <2>2, StageMoves DEF Chan!Move
  <2>. QED BY <1>3, <2>1, <2>3 DEF RecvDequeue, Chan!Next, Chan!Receive
<1>4. CASE RecvUnlock(t)
  <2>1. Stage(t) = "received" /\ Stage(t)' = "idle"
    BY <1>4 DEF RecvUnlock, Goto, TypeOK, Stage, RecvPc
  <2>. QED BY <1>4, <2>1, StageMoves DEF RecvUnlock, Chan!Next, Chan!Return, Chan!Move
<1>. QED BY <1>1, <1>2, <1>3, <1>4 DEF RecvStep

LEMMA StepRefines == LockInv /\ [Next]_vars => [Chan!Next]_(Chan!vars)
<1> SUFFICES ASSUME LockInv, [Next]_vars
             PROVE  [Chan!Next]_(Chan!vars)
  OBVIOUS
<1>1. CASE InitMailBox
  <2>1. /\ ~open /\ items = <<>> /\ items' = <<>> /\ Stages' = Stages
        /\ open' = TRUE /\ UNCHANGED <<msg, status>>
    BY <1>1 DEF InitMailBox, Undefined, Stages, Stage
  <2>. QED BY <2>1 DEF Chan!Next, Chan!Open, Chan!Undefined
<1>2. CASE Quiescent /\ DestroyMailBox
  <2>1. \A t \in Thread : Stages[t] = "idle"
    BY <1>2 DEF Quiescent, Stages, Stage, RecvPc
  <2>2. Stages' = Stages
    BY <1>2 DEF DestroyMailBox, Stages, Stage
  <2>. QED BY <1>2, <2>1, <2>2 DEF DestroyMailBox, Chan!Next, Chan!Close
<1>3. CASE \E t \in Sender : (\E m \in Msg : SendCall(t, m)) \/ SendStep(t)
  BY <1>3, SendRefines DEF Thread
<1>4. CASE \E t \in Receiver : RecvCall(t) \/ RecvStep(t) \/ SpuriousWakeup(t)
  BY <1>4, RecvRefines DEF Thread
<1>5. CASE UNCHANGED vars
  BY <1>5 DEF vars, Stages, Stage, Chan!vars
<1>. QED BY <1>1, <1>2, <1>3, <1>4, <1>5 DEF Next

(* Threads that share the mailbox see operations that take effect at once: *)
(* no item is lost, duplicated, reordered or made up.                      *)
THEOREM MailBoxImplementsChannel == Spec => ImplementsChannel
<1>1. Init => Chan!Init
  BY DEF Init, Stages, Stage, RecvPc, Succeeded, Chan!Init, Chan!Succeeded
<1>. QED BY <1>1, StepRefines, LockInvariance, PTL
     DEF Spec, ImplementsChannel, Chan!Spec
==============================================================================
