----------------------------- MODULE QueueProofs -----------------------------
(***************************************************************************)
(* Proofs about Queue.tla, for any sets of addresses and items.            *)
(*                                                                         *)
(* ListShape and Ownership are not inductive by themselves: they say       *)
(* nothing while free_nodes runs.  Custody and Freeing carry through that  *)
(* phase what the next call to new_queue relies on.                        *)
(***************************************************************************)
EXTENDS Queue, SequenceTheorems, TLAPS

(* Allocated buffers hold items, and callers only hold allocated ones.     *)
Custody ==
  /\ held \subseteq bufs
  /\ \A b \in bufs : content[b] \in Msg

(* Between the iterations of free_nodes: before the first, the cursor is   *)
(* the head of the list, and the only node if nothing follows it; after    *)
(* it, only a list of several nodes has kept the loop going.               *)
Freeing ==
  phase = "freeing" =>
    IF cursor \in live
      THEN /\ job[cursor] \in Buf \ held
           /\ IF next[cursor] = NULL
                THEN /\ live = {cursor}
                     /\ bufs = held \cup {job[cursor]}
                ELSE q_size >= 2
      ELSE q_size >= 2

ChainOnlyWhenOpen == phase # "open" => chain = <<>>

IInv ==
  /\ TypeOK
  /\ ListShape
  /\ Ownership
  /\ Custody
  /\ Freeing
  /\ ChainOnlyWhenOpen
  /\ FreeSafeUpToOneItem

------------------------------------------------------------------------------
(* The auxiliary chain at its two ends. *)

(* Appending a node adds it to the nodes of the chain.                     *)
LEMMA AppendNodes ==
  ASSUME NEW c \in Seq(Node), NEW n \in Node
  PROVE  /\ Append(c, n) \in Seq(Node)
         /\ Len(Append(c, n)) = Len(c) + 1
         /\ \A i \in 1 .. Len(c) : Append(c, n)[i] = c[i]
         /\ Append(c, n)[Len(c) + 1] = n
         /\ {Append(c, n)[i] : i \in 1 .. Len(Append(c, n))}
              = {c[i] : i \in 1 .. Len(c)} \cup {n}
<1>1. /\ Append(c, n) \in Seq(Node)
      /\ Len(Append(c, n)) = Len(c) + 1
      /\ \A i \in 1 .. Len(c) : Append(c, n)[i] = c[i]
      /\ Append(c, n)[Len(c) + 1] = n
  OBVIOUS
<1>2. Len(c) \in Nat
  OBVIOUS
<1>. QED BY <1>1, <1>2

(* Dropping the first of several different nodes removes just that one.    *)
LEMMA TailNodes ==
  ASSUME NEW c \in Seq(Node), c # <<>>,
         \A i, j \in 1 .. Len(c) : c[i] = c[j] => i = j
  PROVE  /\ Tail(c) \in Seq(Node)
         /\ Len(Tail(c)) = Len(c) - 1
         /\ \A i \in 1 .. Len(c) - 1 : Tail(c)[i] = c[i + 1]
         /\ {Tail(c)[i] : i \in 1 .. Len(Tail(c))}
              = {c[i] : i \in 1 .. Len(c)} \ {c[1]}
<1>1. /\ Tail(c) \in Seq(Node)
      /\ Len(Tail(c)) = Len(c) - 1
      /\ \A i \in 1 .. Len(c) - 1 : Tail(c)[i] = c[i + 1]
      /\ Len(c) \in Nat \ {0}
  OBVIOUS
<1>2. \A i \in 1 .. Len(c) : i # 1 => i - 1 \in 1 .. Len(c) - 1
  BY <1>1
<1>3. \A i \in 1 .. Len(c) : i # 1 => Tail(c)[i - 1] = c[i]
  BY <1>1, <1>2
<1>4. \A x : x \in {Tail(c)[i] : i \in 1 .. Len(Tail(c))}
              => x \in {c[i] : i \in 1 .. Len(c)} \ {c[1]}
  BY <1>1
<1>5. \A x : x \in {c[i] : i \in 1 .. Len(c)} \ {c[1]}
              => x \in {Tail(c)[i] : i \in 1 .. Len(Tail(c))}
  BY <1>1, <1>2, <1>3
<1>. QED BY <1>1, <1>4, <1>5

------------------------------------------------------------------------------
(* The inductive invariant, one lemma for each operation that writes. *)

LEMMA InitIInv == Init => IInv
BY AddressAssumption
   DEF Init, IInv, TypeOK, ListShape, Ownership, Custody, Freeing,
       ChainOnlyWhenOpen, FreeSafeUpToOneItem, Nodes

LEMMA NewQueueIInv == IInv /\ NewQueue => IInv'
BY AddressAssumption
   DEF IInv, TypeOK, ListShape, Ownership, Custody, Freeing, ChainOnlyWhenOpen,
       FreeSafeUpToOneItem, Nodes, NewQueue, heapVars

(* Any step that leaves the queue and its heap alone.                      *)
LEMMA QuietIInv == IInv /\ UNCHANGED <<queueVars, heapVars, held>> => IInv'
BY DEF IInv, TypeOK, ListShape, Ownership, Custody, Freeing, ChainOnlyWhenOpen,
       FreeSafeUpToOneItem, Nodes, queueVars, heapVars

LEMMA EnqueueFailsIInv == IInv /\ EnqueueFails => IInv'
<1> SUFFICES ASSUME IInv, EnqueueFails
             PROVE  IInv'
  OBVIOUS
<1>1. CASE UNCHANGED heapVars
  BY <1>1, QuietIInv DEF EnqueueFails
<1>2. ASSUME NEW n \in Node \ live,
             live' = (live \cup {n}) \ {n},
             job' = [job EXCEPT ![n] = Junk], next' = [next EXCEPT ![n] = Junk],
             UNCHANGED <<bufs, content>>
      PROVE  IInv'
  <2>1. live' = live
    BY <1>2
  <2>2. phase = "open" /\ n \notin Nodes
    BY <1>2 DEF IInv, Ownership, EnqueueFails
  <2>3. \A x \in Node : x # n => job'[x] = job[x] /\ next'[x] = next[x]
    BY <1>2 DEF IInv, TypeOK
  <2>4. \A i \in 1 .. Len(chain) : chain[i] \in Node /\ chain[i] # n
    BY <2>2 DEF IInv, TypeOK, Nodes
  <2>5. Nodes' = Nodes
    BY DEF EnqueueFails, queueVars, Nodes
  <2>6. \A x \in Nodes : x \in Node /\ job'[x] = job[x] /\ next'[x] = next[x]
    BY <2>3, <2>4 DEF Nodes
  <2>7. TypeOK'
    BY <1>2, <2>1 DEF IInv, TypeOK, EnqueueFails, queueVars
  <2>8. ListShape'
    BY <2>3, <2>4 DEF IInv, TypeOK, ListShape, EnqueueFails, queueVars
  <2>9. Ownership'
    BY <1>2, <2>1, <2>5, <2>6 DEF IInv, Ownership, EnqueueFails, queueVars
  <2>. QED
    BY <1>2, <2>2, <2>7, <2>8, <2>9
    DEF IInv, Custody, Freeing, ChainOnlyWhenOpen, FreeSafeUpToOneItem,
        EnqueueFails, queueVars
<1>. QED BY <1>1, <1>2 DEF EnqueueFails, NewNodeFails

LEMMA EnqueueIInv == ASSUME NEW m \in Msg PROVE IInv /\ Enqueue(m) => IInv'
<1> SUFFICES ASSUME IInv,
                    phase = "open",
                    NEW n \in Node \ live, NEW b \in Buf \ bufs,
                    NewNode(n, b, m), LinkAtTail(n, b),
                    UNCHANGED <<phase, cursor, held>>
             PROVE  IInv'
  BY DEF Enqueue
<1> USE DEF IInv
<1>1. /\ chain \in Seq(Node) /\ Len(chain) \in Nat /\ q_size = Len(chain)
      /\ chain' = Append(chain, n) /\ q_size' = q_size + 1 /\ tail' = n
  BY DEF TypeOK, ListShape, LinkAtTail
<1>2. /\ Len(chain') = q_size + 1 /\ chain' \in Seq(Node)
      /\ \A i \in 1 .. q_size : chain'[i] = chain[i]
      /\ chain'[q_size + 1] = n
      /\ Nodes' = Nodes \cup {n}
  BY <1>1, AppendNodes DEF Nodes
<1>3. \A i \in 1 .. q_size : chain[i] \in Nodes /\ chain[i] \in Node
  BY <1>1 DEF Nodes
<1>4. n \notin Nodes /\ Nodes \subseteq Node
  BY <1>3 DEF Ownership, TypeOK
<1>5. q_size # 0 => tail = chain[q_size] /\ tail \in Nodes
  BY <1>1, <1>3 DEF ListShape
(* What the two writes leave in the nodes.                                 *)
<1>6. /\ job' \in [Node -> Buf \cup {NULL, Junk}]
      /\ next' \in [Node -> Node \cup {NULL, Junk}]
      /\ job'[n] = b /\ next'[n] = NULL
      /\ \A x \in Nodes : job'[x] = job[x]
      /\ \A x \in Nodes : x # tail => next'[x] = next[x]
      /\ q_size # 0 => next'[tail] = n
  <2>1. CASE q_size = 0
    BY <1>1, <1>4, <2>1 DEF TypeOK, LinkAtTail, Nodes
  <2>2. CASE q_size # 0
    BY <1>4, <1>5, <2>2 DEF TypeOK, LinkAtTail
  <2>. QED BY <2>1, <2>2
<1>7. TypeOK'
  BY <1>1, <1>2, <1>6, AddressAssumption DEF TypeOK, NewNode, LinkAtTail
<1>8. ListShape'
  <2>1. head' = chain'[1]
    BY <1>1, <1>2 DEF ListShape, LinkAtTail
  <2>2. ASSUME NEW i \in 1 .. q_size + 1
        PROVE  next'[chain'[i]] = IF i = q_size + 1 THEN NULL ELSE chain'[i + 1]
    <3>1. CASE i = q_size + 1
      BY <1>2, <1>6, <3>1
    <3>2. CASE i = q_size
      BY <1>1, <1>2, <1>5, <1>6, <3>2
    <3>3. CASE i < q_size
      <4>1. i \in 1 .. q_size /\ i + 1 \in 1 .. q_size /\ q_size \in 1 .. q_size
        BY <1>1, <3>3
      <4>2. chain[i] # tail
        BY <1>1, <1>5, <3>3, <4>1 DEF ListShape
      <4>. QED BY <1>1, <1>2, <1>3, <1>6, <3>3, <4>1, <4>2 DEF ListShape
    <3>. QED BY <1>1, <3>1, <3>2, <3>3
  <2>3. \A i, j \in 1 .. q_size + 1 : chain'[i] = chain'[j] => i = j
    BY <1>1, <1>2, <1>3, <1>4 DEF ListShape
  <2>. QED BY <1>1, <1>2, <2>1, <2>2, <2>3 DEF ListShape
<1>9. Ownership'
  <2>1. live' = Nodes'
    BY <1>2 DEF Ownership, NewNode
  <2>2. bufs' = held' \cup {job'[x] : x \in Nodes'}
    BY <1>2, <1>6 DEF Ownership, NewNode
  <2>3. \A x \in Nodes : job[x] \in Buf \ held /\ job[x] # b
    BY DEF Ownership
  <2>4. \A x \in Nodes' : job'[x] \in Buf \ held'
    BY <1>2, <1>6, <2>3 DEF Custody
  <2>5. \A x, y \in Nodes' : job'[x] = job'[y] => x = y
    BY <1>2, <1>6, <2>3 DEF Ownership
  <2>. QED BY <2>1, <2>2, <2>4, <2>5 DEF Ownership
<1>10. Custody'
  BY DEF Custody, TypeOK, NewNode
<1>. QED
  BY <1>7, <1>8, <1>9, <1>10 DEF Freeing, ChainOnlyWhenOpen, FreeSafeUpToOneItem

LEMMA DequeueIInv == IInv /\ Dequeue => IInv'
<1> SUFFICES ASSUME IInv, Dequeue
             PROVE  IInv'
  OBVIOUS
<1> USE DEF IInv
<1>1. /\ phase = "open" /\ phase' = "open"
      /\ chain \in Seq(Node) /\ q_size = Len(chain) /\ q_size \in Nat \ {0}
      /\ head = chain[1] /\ chain # <<>>
      /\ chain' = Tail(chain) /\ q_size' = q_size - 1
  BY DEF Dequeue, TypeOK, ListShape
<1>2. \A i, j \in 1 .. q_size : chain[i] = chain[j] => i = j
  BY <1>1 DEF ListShape
<1>3. /\ Len(chain') = q_size - 1 /\ chain' \in Seq(Node)
      /\ \A i \in 1 .. q_size - 1 : chain'[i] = chain[i + 1]
      /\ Nodes' = Nodes \ {head}
  <2>1. /\ Tail(chain) \in Seq(Node)
        /\ Len(Tail(chain)) = Len(chain) - 1
        /\ \A i \in 1 .. Len(chain) - 1 : Tail(chain)[i] = chain[i + 1]
        /\ {Tail(chain)[i] : i \in 1 .. Len(Tail(chain))}
             = {chain[i] : i \in 1 .. Len(chain)} \ {chain[1]}
    BY <1>1, <1>2, TailNodes
  <2>2. Nodes' = {Tail(chain)[i] : i \in 1 .. Len(Tail(chain))}
    BY <1>1 DEF Nodes
  <2>. QED BY <1>1, <2>1, <2>2 DEF Nodes
<1>4. /\ \A i \in 1 .. q_size : chain[i] \in Nodes /\ chain[i] \in Node
      /\ head \in Nodes /\ head \in Node /\ Nodes \subseteq Node
  BY <1>1 DEF Nodes
<1>5. /\ job' = [job EXCEPT ![head] = Junk]
      /\ next' = [next EXCEPT ![head] = Junk]
      /\ \A x \in Nodes' : x \in Nodes /\ x # head
                             /\ job'[x] = job[x] /\ next'[x] = next[x]
  BY <1>3, <1>4 DEF Dequeue, TypeOK
<1>6. job[head] \in Buf \ held
  BY <1>1, <1>4 DEF Ownership
<1>7. \A i \in 1 .. q_size : next[chain[i]] = IF i = q_size THEN NULL ELSE chain[i + 1]
  BY <1>1 DEF ListShape
<1>8. /\ head' = IF q_size' = 0 THEN NULL ELSE chain'[1]
      /\ tail' = IF q_size' = 0 THEN NULL ELSE chain'[q_size']
  <2>1. CASE q_size = 1
    BY <1>1, <2>1 DEF Dequeue
  <2>2. CASE q_size # 1
    <3>1. 1 \in 1 .. q_size /\ 1 \in 1 .. q_size - 1 /\ q_size - 1 \in 1 .. q_size - 1
      BY <1>1, <2>2
    <3>2. head' = chain[2] /\ tail' = chain[q_size]
      BY <1>1, <1>7, <2>2, <3>1 DEF Dequeue, ListShape
    <3>. QED BY <1>1, <1>3, <2>2, <3>1, <3>2
  <2>. QED BY <2>1, <2>2
<1>9. TypeOK'
  BY <1>1, <1>3, <1>4, <1>5, <1>6, <1>8, AddressAssumption DEF Dequeue, TypeOK
<1>10. ListShape'
  <2>1. ASSUME NEW i \in 1 .. q_size'
        PROVE  next'[chain'[i]] = IF i = q_size' THEN NULL ELSE chain'[i + 1]
    <3>1. /\ i \in 1 .. q_size - 1 /\ i + 1 \in 1 .. q_size
          /\ chain'[i] = chain[i + 1]
      BY <1>1, <1>3
    <3>2. chain'[i] \in Nodes'
      BY <1>1, <1>3, <3>1 DEF Nodes
    <3>3. next'[chain'[i]] = next[chain[i + 1]]
      BY <1>5, <3>1, <3>2
    <3>4. CASE i = q_size - 1
      BY <1>1, <1>7, <3>1, <3>3, <3>4
    <3>5. CASE i # q_size - 1
      <4>1. i + 1 \in 1 .. q_size - 1
        BY <1>1, <3>1, <3>5
      <4>. QED BY <1>1, <1>3, <1>7, <3>1, <3>3, <3>5, <4>1
    <3>. QED BY <3>4, <3>5
  <2>2. \A i, j \in 1 .. q_size' : chain'[i] = chain'[j] => i = j
    <3>1. \A i \in 1 .. q_size' : i + 1 \in 1 .. q_size /\ i \in 1 .. q_size - 1
      BY <1>1
    <3>. QED BY <1>1, <1>2, <1>3, <3>1
  <2>. QED BY <1>1, <1>3, <1>8, <2>1, <2>2 DEF ListShape
<1>11. Ownership'
  <2>1. live' = Nodes'
    BY <1>1, <1>3 DEF Dequeue, Ownership
  <2>2. bufs' = held' \cup {job'[x] : x \in Nodes'}
    BY <1>1, <1>3, <1>4, <1>5 DEF Dequeue, Ownership
  <2>3. \A x \in Nodes' : job'[x] \in Buf \ held'
    BY <1>1, <1>4, <1>5 DEF Dequeue, Ownership
  <2>4. \A x, y \in Nodes' : job'[x] = job'[y] => x = y
    BY <1>1, <1>5 DEF Ownership
  <2>. QED BY <2>1, <2>2, <2>3, <2>4 DEF Ownership
<1>12. Custody'
  BY <1>1, <1>4 DEF Dequeue, Custody, Ownership
<1>. QED
  BY <1>1, <1>9, <1>10, <1>11, <1>12
  DEF Freeing, ChainOnlyWhenOpen, FreeSafeUpToOneItem

LEMMA FreeJobIInv == ASSUME NEW b \in held PROVE IInv /\ FreeJob(b) => IInv'
<1> SUFFICES ASSUME IInv, FreeJob(b)
             PROVE  IInv'
  OBVIOUS
<1> USE DEF IInv, FreeJob, queueVars
<1>1. Nodes' = Nodes
  BY DEF Nodes
<1>2. TypeOK' /\ ListShape' /\ Custody'
  BY DEF TypeOK, ListShape, Custody
<1>3. Ownership'
  BY <1>1 DEF Ownership
<1>. QED
  BY <1>2, <1>3 DEF Freeing, ChainOnlyWhenOpen, FreeSafeUpToOneItem

LEMMA FreeQueueIInv == IInv /\ FreeQueue => IInv'
<1> SUFFICES ASSUME IInv, FreeQueue
             PROVE  IInv'
  OBVIOUS
<1> USE DEF IInv, FreeQueue, heapVars
<1>1. phase = "open" /\ chain' = <<>> /\ chain \in Seq(Node) /\ Nodes' = {}
  BY DEF TypeOK, Nodes
<1>2. TypeOK'
  BY AddressAssumption DEF TypeOK, ListShape
<1>3. Custody' /\ ChainOnlyWhenOpen' /\ ListShape' /\ FreeSafeUpToOneItem'
  BY DEF Custody, ChainOnlyWhenOpen, ListShape, FreeSafeUpToOneItem
<1>4. CASE q_size = 0
  <2>1. Nodes = {}
    BY <1>1, <1>4 DEF ListShape, Nodes
  <2>. QED BY <1>1, <1>2, <1>3, <1>4, <2>1 DEF Ownership, Freeing, TypeOK
<1>5. CASE q_size # 0
  <2>1. /\ q_size \in Nat \ {0} /\ q_size = Len(chain) /\ 1 \in 1 .. q_size
        /\ cursor' = chain[1] /\ chain[1] \in Nodes /\ phase' = "freeing"
    BY <1>1, <1>5 DEF TypeOK, ListShape, Nodes
  <2>2. job[chain[1]] \in Buf \ held /\ chain[1] \in live
    BY <1>1, <2>1 DEF Ownership
  <2>3. CASE q_size = 1
    <3>1. Nodes = {chain[1]}
      BY <2>1, <2>3 DEF Nodes
    <3>2. live = {chain[1]} /\ bufs = held \cup {job[chain[1]]}
      BY <1>1, <3>1 DEF Ownership
    <3>3. next[chain[1]] = NULL
      BY <1>1, <2>1, <2>3 DEF ListShape
    <3>. QED BY <1>2, <1>3, <2>1, <2>2, <3>2, <3>3 DEF Ownership, Freeing
  <2>4. CASE q_size # 1
    <3>1. next[chain[1]] = chain[2] /\ chain[2] \in Node
      BY <1>1, <2>1, <2>4 DEF ListShape
    <3>. QED BY <1>2, <1>3, <2>1, <2>2, <2>4, <3>1, AddressAssumption
             DEF Ownership, Freeing
  <2>. QED BY <2>3, <2>4
<1>. QED BY <1>4, <1>5

LEMMA FreeNodesIterationIInv == IInv /\ FreeNodesIteration => IInv'
<1> SUFFICES ASSUME IInv, FreeNodesIteration
             PROVE  IInv'
  OBVIOUS
<1> USE DEF IInv, FreeNodesIteration
<1>1. phase = "freeing" /\ chain = <<>> /\ chain' = <<>> /\ Nodes' = {}
  BY DEF ChainOnlyWhenOpen, Nodes
<1>2. CASE cursor \in live
  <2>1. job[cursor] \in Buf \ held /\ job[cursor] # NULL /\ cursor \in Node
    BY <1>1, <1>2, AddressAssumption DEF Freeing, TypeOK
  <2>2. /\ bufs' = bufs \ {job[cursor]} /\ live' = live \ {cursor}
        /\ content' = [content EXCEPT ![job[cursor]] = Junk]
        /\ job' = [job EXCEPT ![cursor] = Junk]
        /\ next' = [next EXCEPT ![cursor] = Junk]
    BY <1>2, <2>1 DEF FreeNode
  <2>3. TypeOK'
    BY <1>1, <1>2, <2>1, <2>2 DEF TypeOK
  <2>4. Custody'
    BY <2>1, <2>2 DEF Custody, TypeOK
  <2>5. ListShape' /\ ChainOnlyWhenOpen' /\ FreeSafeUpToOneItem'
    BY <1>1, <1>2 DEF ListShape, ChainOnlyWhenOpen, FreeSafeUpToOneItem
  <2>6. CASE next[cursor] = NULL
    BY <1>1, <1>2, <2>2, <2>3, <2>4, <2>5, <2>6 DEF Ownership, Freeing
  <2>7. CASE next[cursor] # NULL
    BY <1>1, <1>2, <2>2, <2>3, <2>4, <2>5, <2>7 DEF Ownership, Freeing
  <2>. QED BY <2>6, <2>7
<1>3. CASE cursor \notin live
  BY <1>1, <1>3
  DEF heapVars, TypeOK, ListShape, Ownership, Custody, Freeing,
      ChainOnlyWhenOpen, FreeSafeUpToOneItem
<1>. QED BY <1>2, <1>3

------------------------------------------------------------------------------
(* The invariant is preserved, and what follows from it. *)

LEMMA NextIInv == IInv /\ [Next]_vars => IInv'
<1> SUFFICES ASSUME IInv, [Next]_vars
             PROVE  IInv'
  OBVIOUS
<1>1. CASE NewQueue
  BY <1>1, NewQueueIInv
<1>2. CASE NewQueueFails
  BY <1>2, QuietIInv DEF NewQueueFails
<1>3. CASE \E m \in Msg : Enqueue(m)
  BY <1>3, EnqueueIInv
<1>4. CASE EnqueueFails
  BY <1>4, EnqueueFailsIInv
<1>5. CASE Dequeue
  BY <1>5, DequeueIInv
<1>6. CASE DequeueEmpty \/ IsEmpty
  BY <1>6, QuietIInv DEF DequeueEmpty, IsEmpty
<1>7. CASE \E b \in held : FreeJob(b)
  BY <1>7, FreeJobIInv
<1>8. CASE FreeQueue
  BY <1>8, FreeQueueIInv
<1>9. CASE FreeNodesIteration
  BY <1>9, FreeNodesIterationIInv
<1>10. CASE UNCHANGED vars
  BY <1>10, QuietIInv DEF vars
<1>. QED
  BY <1>1, <1>2, <1>3, <1>4, <1>5, <1>6, <1>7, <1>8, <1>9, <1>10 DEF Next

(* The inductive invariant holds in every state the queue reaches.         *)
THEOREM Invariance == Spec => []IInv
BY InitIInv, NextIInv, PTL DEF Spec

(* Every field of the queue and of its heap keeps a value of its C type.   *)
THEOREM TypeCorrect == Spec => []TypeOK
<1>1. IInv => TypeOK
  BY DEF IInv
<1>. QED BY <1>1, Invariance, PTL

(* Between calls the list runs from head to tail through q_size different  *)
(* nodes in the order of their enqueues, for any number of nodes.          *)
THEOREM ListKeepsShape == Spec => []ListShape
<1>1. IInv => ListShape
  BY DEF IInv
<1>. QED BY <1>1, Invariance, PTL

(* Every allocated cell has one owner: enqueue, its two error paths,       *)
(* dequeue and free_queue neither leak a cell nor free it early.           *)
THEOREM CellsAreOwned == Spec => []Ownership
<1>1. IInv => Ownership
  BY DEF IInv
<1>. QED BY <1>1, Invariance, PTL

(* free_queue reads a freed node only if two items or more were queued.    *)
THEOREM FreeingOneItemIsSafe == Spec => []FreeSafeUpToOneItem
<1>1. IInv => FreeSafeUpToOneItem
  BY DEF IInv
<1>. QED BY <1>1, Invariance, PTL

------------------------------------------------------------------------------
(* Items are copies. *)

(* No operation writes or releases a buffer that a caller holds.           *)
THEOREM HeldJobsAreStable == Spec => JobsStable
<1> DEFINE Stable ==
      \A b \in held : content[b] \in Msg
        /\ (b \in held' => b \in bufs' /\ content'[b] = content[b])
<1>1. IInv /\ Next => Stable
  <2> SUFFICES ASSUME IInv, Next
               PROVE  Stable
    OBVIOUS
  <2>1. /\ held \subseteq bufs /\ held \subseteq Buf
        /\ content \in [Buf -> Msg \cup {Junk}]
        /\ \A b \in held : content[b] \in Msg
    BY DEF IInv, Custody, TypeOK
  <2>2. CASE UNCHANGED <<bufs, content>>
    BY <2>1, <2>2
  <2>3. ASSUME NEW m \in Msg, Enqueue(m)
        PROVE  Stable
    BY <2>1, <2>3 DEF Enqueue, NewNode
  <2>4. ASSUME NEW c \in held, FreeJob(c)
        PROVE  Stable
    BY <2>1, <2>4 DEF FreeJob
  <2>5. ASSUME FreeNodesIteration
        PROVE  Stable
    <3>1. cursor \in live => job[cursor] \in Buf \ held
      BY <2>5 DEF IInv, Freeing, FreeNodesIteration
    <3>2. CASE cursor \in live /\ job[cursor] # NULL
      BY <2>1, <2>5, <3>1, <3>2 DEF FreeNodesIteration, FreeNode
    <3>3. CASE ~(cursor \in live /\ job[cursor] # NULL)
      BY <2>2, <2>5, <3>3 DEF FreeNodesIteration, FreeNode, heapVars
    <3>. QED BY <3>2, <3>3
  <2>. QED
    BY <2>2, <2>3, <2>4, <2>5
    DEF Next, NewQueue, NewQueueFails, EnqueueFails, NewNodeFails, Dequeue,
        DequeueEmpty, IsEmpty, FreeQueue, heapVars
<1>2. IInv /\ [Next]_vars => [Stable]_vars
  BY <1>1
<1>. QED BY <1>2, Invariance, PTL DEF Spec, JobsStable

------------------------------------------------------------------------------
(* The queue implements FifoQueue. *)

(* The items of the queued nodes form a sequence of the queue's length.    *)
LEMMA ItemsSeq ==
  ASSUME IInv
  PROVE  /\ Items \in Seq(Msg) /\ Len(Items) = Len(chain)
         /\ \A i \in 1 .. Len(chain) : Items[i] = content[job[chain[i]]]
<1>1. Len(chain) \in Nat
  BY DEF IInv, TypeOK
<1>2. \A i \in 1 .. Len(chain) : content[job[chain[i]]] \in Msg
  <2>1. CASE phase = "open"
    BY <2>1 DEF IInv, Ownership, Custody, Nodes
  <2>2. CASE phase # "open"
    BY <2>2 DEF IInv, ChainOnlyWhenOpen
  <2>. QED BY <2>1, <2>2
<1>. QED BY <1>1, <1>2 DEF Items

(* A step that keeps the chain, and the buffers of its nodes, keeps Items. *)
LEMMA SameItems ==
  ASSUME chain' = chain,
         \A i \in 1 .. Len(chain) : content'[job'[chain[i]]] = content[job[chain[i]]]
  PROVE  Items' = Items
BY DEF Items

(* An enqueue appends its item.                                            *)
LEMMA EnqueueRefines ==
  ASSUME NEW m \in Msg, IInv, IInv', Enqueue(m)
  PROVE  Fifo!Put(m)
<1> PICK n \in Node \ live, b \in Buf \ bufs : NewNode(n, b, m) /\ LinkAtTail(n, b)
  BY DEF Enqueue
<1>1. phase = "open" /\ phase' = "open" /\ Return("enqueue", Fifo!Succeeded)
  BY DEF Enqueue
<1>2. /\ chain \in Seq(Node) /\ Len(chain) \in Nat
      /\ chain' = Append(chain, n) /\ Len(chain') = Len(chain) + 1
      /\ \A i \in 1 .. Len(chain) : chain'[i] = chain[i]
      /\ chain'[Len(chain) + 1] = n
  BY AppendNodes DEF IInv, TypeOK, LinkAtTail
<1>3. \A i \in 1 .. Len(chain) : /\ chain[i] \in live /\ chain[i] # n
                                 /\ job[chain[i]] \in bufs /\ job[chain[i]] # b
  BY <1>1 DEF IInv, Ownership, Nodes
<1>4. /\ content' = [content EXCEPT ![b] = m] /\ job' = [job EXCEPT ![n] = b]
      /\ content'[job'[n]] = m
  BY DEF IInv, TypeOK, NewNode, LinkAtTail
<1>5. \A i \in 1 .. Len(chain) : content'[job'[chain'[i]]] = content[job[chain[i]]]
  BY <1>2, <1>3, <1>4 DEF IInv, TypeOK
<1>6. /\ Items \in Seq(Msg) /\ Len(Items) = Len(chain)
      /\ \A i \in 1 .. Len(chain) : Items[i] = content[job[chain[i]]]
  BY ItemsSeq
<1>7. /\ Items' \in Seq(Msg) /\ Len(Items') = Len(chain')
      /\ \A i \in 1 .. Len(chain') : Items'[i] = content'[job'[chain'[i]]]
  BY <1>2, <1>4, <1>5, <1>6, ItemsSeq DEF Items
<1>8. /\ Append(Items, m) \in Seq(Msg) /\ Len(Append(Items, m)) = Len(Items) + 1
      /\ \A i \in 1 .. Len(Items) : Append(Items, m)[i] = Items[i]
      /\ Append(Items, m)[Len(Items) + 1] = m
  BY <1>6, AppendProperties
<1>9. Items' = Append(Items, m)
  <2>1. ASSUME NEW i \in 1 .. Len(Items')
        PROVE  Items'[i] = Append(Items, m)[i]
    <3>1. i \in 1 .. Len(chain) \/ i = Len(chain) + 1
      BY <1>2, <1>7
    <3>. QED BY <1>2, <1>4, <1>5, <1>6, <1>7, <1>8, <3>1
  <2>. QED BY <1>2, <1>6, <1>7, <1>8, <2>1, SeqEqual
<1>. QED BY <1>1, <1>9 DEF Open, Return, Fifo!Put, Fifo!Return, Fifo!Succeeded

(* A dequeue takes the first item.                                         *)
LEMMA DequeueRefines ==
  ASSUME IInv, IInv', Dequeue
  PROVE  Fifo!Take
<1>1. /\ phase = "open" /\ phase' = "open"
      /\ Return("dequeue", content[job[head]]) /\ content' = content
      /\ chain \in Seq(Node) /\ Len(chain) \in Nat \ {0} /\ chain # <<>>
      /\ head = chain[1] /\ chain' = Tail(chain)
  BY DEF IInv, TypeOK, ListShape, Dequeue
<1>2. \A i, j \in 1 .. Len(chain) : chain[i] = chain[j] => i = j
  BY <1>1 DEF IInv, ListShape
<1>3. /\ Len(chain') = Len(chain) - 1
      /\ \A i \in 1 .. Len(chain) - 1 : chain'[i] = chain[i + 1]
  BY <1>1, <1>2, TailNodes
<1>4. \A i \in 1 .. Len(chain) - 1 :
        i + 1 \in 1 .. Len(chain) /\ chain[i + 1] # head /\ chain[i + 1] \in Node
  BY <1>1, <1>2 DEF IInv, TypeOK
<1>5. \A i \in 1 .. Len(chain) - 1 : content'[job'[chain'[i]]] = content[job[chain[i + 1]]]
  BY <1>1, <1>3, <1>4 DEF IInv, TypeOK, Dequeue
<1>6. /\ Items \in Seq(Msg) /\ Len(Items) = Len(chain)
      /\ \A i \in 1 .. Len(chain) : Items[i] = content[job[chain[i]]]
  BY ItemsSeq
<1>7. /\ Items' \in Seq(Msg) /\ Len(Items') = Len(chain) - 1
      /\ \A i \in 1 .. Len(chain) - 1 : Items'[i] = content'[job'[chain'[i]]]
  <2>1. \A i \in 1 .. Len(chain) - 1 : content'[job'[chain'[i]]] \in Msg
    BY <1>4, <1>5, <1>6, ElementOfSeq
  <2>. QED BY <1>1, <1>3, <2>1 DEF Items
<1>8. /\ Items # <<>> /\ Head(Items) = Items[1] /\ Tail(Items) \in Seq(Msg)
      /\ Len(Tail(Items)) = Len(Items) - 1
      /\ \A i \in 1 .. Len(Items) - 1 : Tail(Items)[i] = Items[i + 1]
  BY <1>1, <1>6
<1>9. Items' = Tail(Items)
  <2>1. \A i \in 1 .. Len(chain) - 1 : Items'[i] = Tail(Items)[i]
    BY <1>4, <1>5, <1>6, <1>7, <1>8
  <2>. QED BY <1>6, <1>7, <1>8, <2>1, SeqEqual
<1>10. Head(Items) = content[job[head]]
  BY <1>1, <1>6, <1>8
<1>. QED BY <1>1, <1>8, <1>9, <1>10 DEF Open, Return, Fifo!Take, Fifo!Return

(* Every other step is one of FifoQueue's, or changes nothing it shows.    *)
LEMMA StepRefines ==
  ASSUME IInv, IInv', [Next]_vars
  PROVE  [Fifo!Next]_(Fifo!vars)
<1>1. CASE NewQueue
  <2>1. Items' = Items
    BY <1>1, SameItems DEF NewQueue, heapVars
  <2>. QED BY <1>1, <2>1
       DEF NewQueue, Open, Return, Fifo!Next, Fifo!Create, Fifo!Return, Fifo!Succeeded
<1>2. CASE NewQueueFails
  <2>1. Items' = Items /\ phase' = phase
    BY <1>2, SameItems DEF NewQueueFails, queueVars, heapVars
  <2>. QED BY <1>2, <2>1
       DEF NewQueueFails, Open, Return, Fifo!Next, Fifo!Create, Fifo!Return
<1>3. ASSUME NEW m \in Msg, Enqueue(m)
      PROVE  Fifo!Next
  BY <1>3, EnqueueRefines DEF Fifo!Next
<1>4. CASE EnqueueFails
  <2>1. /\ phase = "open" /\ phase' = phase /\ chain' = chain /\ content' = content
        /\ Return("enqueue", Fifo!Failed)
    BY <1>4 DEF EnqueueFails, NewNodeFails, queueVars, heapVars
  <2>2. \A n \in live : n \in Node /\ job'[n] = job[n]
    BY <1>4 DEF IInv, TypeOK, EnqueueFails, NewNodeFails, heapVars
  <2>3. \A i \in 1 .. Len(chain) : chain[i] \in live
    BY <2>1 DEF IInv, Ownership, Nodes
  <2>4. Items' = Items
    BY <2>1, <2>2, <2>3, SameItems
  <2>. QED BY <2>1, <2>4 DEF Open, Return, Fifo!Next, Fifo!PutFails, Fifo!Return, Fifo!Failed
<1>5. CASE Dequeue
  BY <1>5, DequeueRefines DEF Fifo!Next
<1>6. CASE DequeueEmpty
  <2>1. Items' = Items /\ phase = "open" /\ phase' = phase
    BY <1>6, SameItems DEF DequeueEmpty, queueVars, heapVars
  <2>2. Items = <<>>
    BY <1>6, <2>1, ItemsSeq, AddressAssumption
    DEF DequeueEmpty, IInv, TypeOK, ListShape
  <2>. QED BY <1>6, <2>1, <2>2
       DEF DequeueEmpty, Open, Return, Fifo!Next, Fifo!TakeNothing, Fifo!Return
<1>7. CASE IsEmpty
  <2>1. Items' = Items /\ phase = "open" /\ phase' = phase
    BY <1>7, SameItems DEF IsEmpty, queueVars, heapVars
  <2>2. (q_size = 0) = (Items = <<>>)
    BY <2>1, ItemsSeq DEF IInv, TypeOK, ListShape
  <2>. QED BY <1>7, <2>1, <2>2
       DEF IsEmpty, Open, Return, Fifo!Next, Fifo!AskEmpty, Fifo!Return
<1>8. ASSUME NEW b \in held, FreeJob(b)
      PROVE  UNCHANGED Fifo!vars
  <2>1. \A i \in 1 .. Len(chain) : content'[job'[chain[i]]] = content[job[chain[i]]]
    BY <1>8 DEF FreeJob, queueVars, IInv, TypeOK, Ownership, ChainOnlyWhenOpen, Nodes
  <2>2. Items' = Items
    BY <1>8, <2>1, SameItems DEF FreeJob, queueVars
  <2>. QED BY <1>8, <2>2 DEF FreeJob, queueVars, Open, Fifo!vars
<1>9. CASE FreeQueue
  <2>1. Items' = <<>>
    BY <1>9 DEF FreeQueue, Items
  <2>. QED BY <1>9, <2>1
       DEF FreeQueue, Open, Return, Fifo!Next, Fifo!Destroy, Fifo!Return
<1>10. CASE FreeNodesIteration
  <2>1. /\ phase # "open" /\ phase' # "open" /\ chain = <<>> /\ chain' = <<>>
        /\ result' = result
    BY <1>10 DEF FreeNodesIteration, IInv, ChainOnlyWhenOpen
  <2>2. Items' = Items
    BY <2>1, SameItems
  <2>. QED BY <2>1, <2>2 DEF Open, Fifo!vars
<1>11. CASE UNCHANGED vars
  <2>1. Items' = Items
    BY <1>11, SameItems DEF vars, queueVars, heapVars
  <2>. QED BY <1>11, <2>1 DEF vars, queueVars, Open, Fifo!vars
<1>. QED
  BY <1>1, <1>2, <1>3, <1>4, <1>5, <1>6, <1>7, <1>8, <1>9, <1>10, <1>11 DEF Next

(* Whatever the heap does, callers see a first-in first-out queue.         *)
THEOREM QueueImplementsFifo == Spec => ImplementsFifo
<1>1. Init => Fifo!Init
  BY DEF Init, Items, Open, Fifo!Init
<1>2. IInv /\ IInv' /\ [Next]_vars => [Fifo!Next]_(Fifo!vars)
  BY StepRefines
<1>. QED BY <1>1, <1>2, Invariance, PTL DEF Spec, ImplementsFifo, Fifo!Spec
==============================================================================
