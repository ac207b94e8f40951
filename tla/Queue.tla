-------------------------------- MODULE Queue --------------------------------
(***************************************************************************)
(* The singly linked queue of bench/src/queue.c, at the level of its heap  *)
(* cells.  A node and the job buffer it owns are two allocations, each of  *)
(* which may fail; addresses are reused once freed, and a freed cell holds *)
(* Junk, so that whatever reads one is visible.                            *)
(*                                                                         *)
(* The queue itself is sequential: one call runs at a time (MailBox.tla    *)
(* has the lock that sees to it).  free_nodes is the one operation with a  *)
(* loop over the heap, and takes a step for each iteration.                *)
(***************************************************************************)
EXTENDS Integers, Sequences

CONSTANTS
  Node,   \* addresses malloc may return for a struct node
  Buf,    \* addresses malloc may return for a job buffer
  Msg,    \* what a job buffer may hold: the n_size bytes of one item
  NULL,   \* the null pointer
  Junk    \* what memory that is not allocated reads as

ASSUME AddressAssumption ==
  /\ NULL \notin Node \cup Buf \cup Msg
  /\ Junk \notin Node \cup Buf \cup Msg \cup {NULL}

VARIABLES
  phase,    \* of the struct queue: none, open, freeing, or undefined (below)
  head,     \* q->head
  tail,     \* q->tail
  q_size,   \* q->q_size
  live,     \* the nodes that are allocated
  job,      \* of each node, the pointer to its job buffer
  next,     \* of each node, the pointer to its successor
  bufs,     \* the job buffers that are allocated
  content,  \* their bytes
  cursor,   \* the local variable n of free_nodes
  held,     \* buffers that dequeue returned and the caller did not free yet
  result,   \* the last call and what it returned
  chain     \* auxiliary, read by no action: the queued nodes, oldest first

heapVars  == <<live, job, next, bufs, content>>
queueVars == <<phase, head, tail, q_size, cursor, chain>>
vars      == <<queueVars, heapVars, held, result>>

(* The queue a caller sees: the items of the queued nodes, oldest first.   *)
Items == [i \in 1 .. Len(chain) |-> content[job[chain[i]]]]
Open  == phase = "open"

Fifo == INSTANCE FifoQueue WITH items <- Items, open <- Open

Return(op, ret) == result' = [op |-> op, ret |-> ret]

Init ==
  /\ phase = "none"
  /\ head = Junk /\ tail = Junk /\ q_size = 0
  /\ live = {}
  /\ job = [n \in Node |-> Junk] /\ next = [n \in Node |-> Junk]
  /\ bufs = {} /\ content = [b \in Buf |-> Junk]
  /\ cursor = NULL
  /\ held = {}
  /\ result = [op |-> "none", ret |-> NULL]
  /\ chain = <<>>

------------------------------------------------------------------------------
(* new_queue *)

(* Mutant of NewQueue: the pointers keep what malloc left in the struct.   *)
NewQueueUninitialised ==
  /\ phase = "none"
  /\ phase' = "open"
  /\ q_size' = 0
  /\ Return("new_queue", Fifo!Succeeded)
  /\ UNCHANGED <<head, tail, heapVars, cursor, held, chain>>

NewQueue ==
  /\ phase = "none"
  /\ phase' = "open"
  /\ head' = NULL /\ tail' = NULL /\ q_size' = 0
  /\ Return("new_queue", Fifo!Succeeded)
  /\ UNCHANGED <<heapVars, cursor, held, chain>>

NewQueueFails ==
  /\ phase = "none"
  /\ Return("new_queue", NULL)
  /\ UNCHANGED <<queueVars, heapVars, held>>

------------------------------------------------------------------------------
(* enqueue *)

(* new_node: both allocations succeed and the caller's item is copied.     *)
NewNode(n, b, m) ==
  /\ live' = live \cup {n}
  /\ bufs' = bufs \cup {b}
  /\ content' = [content EXCEPT ![b] = m]

(* Mutant of NewNodeFails: without the free(n) on the second error path.   *)
NewNodeFailsLeaking ==
  \/ UNCHANGED heapVars
  \/ \E n \in Node \ live :
       /\ live' = live \cup {n}
       /\ UNCHANGED <<job, next, bufs, content>>

(* new_node returns NULL: the first malloc failed, or the second did and   *)
(* the node was freed again.                                               *)
NewNodeFails ==
  \/ UNCHANGED heapVars
  \/ \E n \in Node \ live :
       /\ live' = (live \cup {n}) \ {n}
       /\ job' = [job EXCEPT ![n] = Junk] /\ next' = [next EXCEPT ![n] = Junk]
       /\ UNCHANGED <<bufs, content>>

(* Mutant of LinkAtTail: q->tail is only set by the first enqueue.         *)
LinkKeepingTail(n, b) ==
  /\ job' = [job EXCEPT ![n] = b]
  /\ next' = IF q_size = 0 THEN [next EXCEPT ![n] = NULL]
                           ELSE [next EXCEPT ![n] = NULL, ![tail] = n]
  /\ head' = IF q_size = 0 THEN n ELSE head
  /\ tail' = IF q_size = 0 THEN n ELSE tail
  /\ q_size' = q_size + 1
  /\ chain' = Append(chain, n)

(* Mutant of LinkAtTail: a stack, every new node becomes the head.         *)
LinkAtHead(n, b) ==
  /\ job' = [job EXCEPT ![n] = b]
  /\ next' = [next EXCEPT ![n] = head]
  /\ head' = n
  /\ tail' = IF q_size = 0 THEN n ELSE tail
  /\ q_size' = q_size + 1
  /\ chain' = <<n>> \o chain

(* The new node becomes the head of an empty queue, and otherwise the      *)
(* successor of the tail.                                                  *)
LinkAtTail(n, b) ==
  /\ job' = [job EXCEPT ![n] = b]
  /\ next' = IF q_size = 0 THEN [next EXCEPT ![n] = NULL]
                           ELSE [next EXCEPT ![n] = NULL, ![tail] = n]
  /\ head' = IF q_size = 0 THEN n ELSE head
  /\ tail' = n
  /\ q_size' = q_size + 1
  /\ chain' = Append(chain, n)

Enqueue(m) ==
  /\ phase = "open"
  /\ \E n \in Node \ live, b \in Buf \ bufs : NewNode(n, b, m) /\ LinkAtTail(n, b)
  /\ Return("enqueue", Fifo!Succeeded)
  /\ UNCHANGED <<phase, cursor, held>>

EnqueueFails ==
  /\ phase = "open"
  /\ NewNodeFails
  /\ Return("enqueue", Fifo!Failed)
  /\ UNCHANGED <<queueVars, held>>

------------------------------------------------------------------------------
(* dequeue, is_empty, and the free that callers of dequeue owe *)

(* Mutant of Dequeue: free_node in place of free takes the job along.      *)
DequeueFreeingJob ==
  /\ phase = "open"
  /\ head # NULL
  /\ head' = IF q_size = 1 THEN NULL ELSE next[head]
  /\ tail' = IF q_size = 1 THEN NULL ELSE tail
  /\ q_size' = q_size - 1
  /\ live' = live \ {head}
  /\ job' = [job EXCEPT ![head] = Junk] /\ next' = [next EXCEPT ![head] = Junk]
  /\ bufs' = bufs \ {job[head]}
  /\ content' = [content EXCEPT ![job[head]] = Junk]
  /\ held' = held \cup {job[head]}
  /\ chain' = Tail(chain)
  /\ Return("dequeue", content[job[head]])
  /\ UNCHANGED <<phase, cursor>>

(* The node is freed; its buffer passes to the caller.                     *)
Dequeue ==
  /\ phase = "open"
  /\ head # NULL
  /\ head' = IF q_size = 1 THEN NULL ELSE next[head]
  /\ tail' = IF q_size = 1 THEN NULL ELSE tail
  /\ q_size' = q_size - 1
  /\ live' = live \ {head}
  /\ job' = [job EXCEPT ![head] = Junk] /\ next' = [next EXCEPT ![head] = Junk]
  /\ held' = held \cup {job[head]}
  /\ chain' = Tail(chain)
  /\ Return("dequeue", content[job[head]])
  /\ UNCHANGED <<phase, bufs, content, cursor>>

DequeueEmpty ==
  /\ phase = "open"
  /\ head = NULL
  /\ Return("dequeue", NULL)
  /\ UNCHANGED <<queueVars, heapVars, held>>

IsEmpty ==
  /\ phase = "open"
  /\ Return("empty", q_size = 0)
  /\ UNCHANGED <<queueVars, heapVars, held>>

(* The caller frees a job it got from dequeue.                             *)
FreeJob(b) ==
  /\ held' = held \ {b}
  /\ bufs' = bufs \ {b}
  /\ content' = [content EXCEPT ![b] = Junk]
  /\ UNCHANGED <<queueVars, live, job, next, result>>

------------------------------------------------------------------------------
(* free_queue *)

(* Mutant of FreeQueue: free_nodes also runs on an empty queue.            *)
FreeQueueUnguarded ==
  /\ phase = "open"
  /\ phase' = "freeing"
  /\ cursor' = head
  /\ chain' = <<>>
  /\ Return("free_queue", NULL)
  /\ UNCHANGED <<head, tail, q_size, heapVars, held>>

(* Entering free_queue: with nothing queued only the struct is freed, and  *)
(* otherwise free_nodes starts at the head.                                *)
FreeQueue ==
  /\ phase = "open"
  /\ phase' = IF q_size > 0 THEN "freeing" ELSE "none"
  /\ cursor' = head
  /\ chain' = <<>>
  /\ Return("free_queue", NULL)
  /\ UNCHANGED <<head, tail, q_size, heapVars, held>>

(* free_node(n): the node goes only together with a job.                   *)
FreeNode(n) ==
  IF job[n] # NULL
    THEN /\ bufs' = bufs \ {job[n]}
         /\ content' = [content EXCEPT ![job[n]] = Junk]
         /\ live' = live \ {n}
         /\ job' = [job EXCEPT ![n] = Junk] /\ next' = [next EXCEPT ![n] = Junk]
    ELSE UNCHANGED heapVars

(* One iteration of the do loop.  The code does not advance n, so a second *)
(* iteration reads the node that the first one freed: that has no defined  *)
(* outcome (with glibc, free aborts the process), and is the end.          *)
FreeNodesIteration ==
  /\ phase = "freeing"
  /\ IF cursor \in live
       THEN /\ head' = next[cursor]
            /\ phase' = IF next[cursor] = NULL THEN "none" ELSE "freeing"
            /\ FreeNode(cursor)
       ELSE /\ phase' = "undefined"
            /\ UNCHANGED <<head, heapVars>>
  /\ UNCHANGED <<tail, q_size, cursor, held, result, chain>>

------------------------------------------------------------------------------

Next ==
  \/ NewQueue
  \/ NewQueueFails
  \/ \E m \in Msg : Enqueue(m)
  \/ EnqueueFails
  \/ Dequeue
  \/ DequeueEmpty
  \/ IsEmpty
  \/ \E b \in held : FreeJob(b)
  \/ FreeQueue
  \/ FreeNodesIteration

Spec == Init /\ [][Next]_vars

------------------------------------------------------------------------------
(* Properties *)

Nodes == {chain[i] : i \in 1 .. Len(chain)}

(* Every field holds a value of its C type, or Junk where it was freed or  *)
(* never set.                                                              *)
TypeOK ==
  /\ phase \in {"none", "open", "freeing", "undefined"}
  /\ head \in Node \cup {NULL, Junk}
  /\ tail \in Node \cup {NULL, Junk}
  /\ phase = "open" => Junk \notin {head, tail}
  /\ q_size \in Nat
  /\ live \in SUBSET Node
  /\ job \in [Node -> Buf \cup {NULL, Junk}]
  /\ next \in [Node -> Node \cup {NULL, Junk}]
  /\ bufs \in SUBSET Buf
  /\ content \in [Buf -> Msg \cup {Junk}]
  /\ cursor \in Node \cup {NULL}
  /\ held \in SUBSET Buf
  /\ chain \in Seq(Node)

(* The list an open queue keeps: q_size nodes, linked from head to tail in *)
(* the order they were enqueued, with no cycle, no sharing and no dangling *)
(* tail.  enqueue and dequeue test q_size in one place and head in         *)
(* another, so the two must agree that the queue is empty.                 *)
ListShape ==
  phase = "open" =>
    /\ q_size = Len(chain)
    /\ head = IF q_size = 0 THEN NULL ELSE chain[1]
    /\ tail = IF q_size = 0 THEN NULL ELSE chain[q_size]
    /\ \A i \in 1 .. q_size :
         next[chain[i]] = IF i = q_size THEN NULL ELSE chain[i + 1]
    /\ \A i, j \in 1 .. q_size : chain[i] = chain[j] => i = j

(* Who owns which cell: a node is allocated exactly while it is queued, a  *)
(* buffer exactly while its node is queued or a caller holds it, and no    *)
(* buffer has two owners.  With nothing queued and no queue, only what     *)
(* callers hold is left: enqueue's error paths, dequeue and free_queue     *)
(* leak nothing and free nothing early.                                    *)
Ownership ==
  phase \in {"none", "open"} =>
    /\ live = Nodes
    /\ bufs = held \cup {job[n] : n \in Nodes}
    /\ \A n \in Nodes : job[n] \in Buf \ held
    /\ \A m, n \in Nodes : job[m] = job[n] => m = n

(* An item is a copy: from the enqueue that made it until its caller frees *)
(* it, nobody writes a job buffer or hands its address to another item.    *)
JobsStable ==
  [][ \A b \in held : content[b] \in Msg
        /\ (b \in held' => b \in bufs' /\ content'[b] = content[b]) ]_vars

(* free_queue is safe for a queue with at most one item, whatever was done *)
(* to the queue before: only several queued items lead free_nodes astray.  *)
FreeSafeUpToOneItem ==
  phase = "undefined" => q_size >= 2

(* Callers see a first-in first-out queue.                                 *)
ImplementsFifo == Fifo!Spec

(* What free_nodes is for, and destroy_mail_box relies on ("free queues",  *)
(* bench/src/_tmp/bench.c:354): freeing a queue frees every node once.     *)
FreeQueueDefined == phase # "undefined"
==============================================================================
