# A verification of aead_perf

`aead_perf` compares ChaCha20 and AES-256 on an x86 machine: a small library of
ciphers, and a benchmark that times them. This directory holds TLA+ models of
its parts that have state worth reasoning about, TLC configurations that check
them on small instances, and TLAPS proofs that hold for every instance.

Paths below are relative to the repository. `bench.c` is
`bench/src/_tmp/bench.c`, the threaded benchmark, which the Makefile does not
build and whose threaded `main` is under `#if 0`; `bench_ciphers.c` is the
single-threaded driver that is built.

## 1. The system

| Part | Source | State | Operations |
|---|---|---|---|
| Item queue | `bench/src/queue.c`, `queue.h` | a linked list of nodes, each owning a copy of one item; `head`, `tail`, `q_size` | `new_queue`, `enqueue`, `dequeue`, `empty`, `free_queue` |
| Mailbox | `bench/src/mailbox.h` | a queue, a mutex, a condition variable | `init_mail_box`, `send_msg`, `recv_msg`, `destroy_mail_box` |
| Threaded benchmark | `bench.c` | two mailboxes (work, results), a worker's locals, main's count of samples, a CSV file | main: `collect_samples`, start and end; worker: receive work, measure, send result |
| Benchmark driver | `bench_ciphers.c`, `bench_const.h` | a CSV file, a count of samples | `create_csv`, `set_file_size`, `collect_samples` |
| Timer | `bench_timer.h` | none that lasts | `measure_time`: warm-up calls, timed calls, a division |
| ChaCha20 | `ciphers/chacha20/*.c` | within a call: counter, `iv`, offset | three `chacha20_encryption*` (scalar, SSE, AVX), each with a block function |
| AES-256 | `ciphers/rijndael/aes.c` | none that lasts | `aes_key_expansion`, `aes_encryption` |
| AES-CTR | `ciphers/rijndael/aes_ctr.c` | the caller's counter | `aes_ctr_encryption` |
| Scripts, tests, build | `bench/scripts`, `tests`, Makefiles | files | mostly empty scripts; known-answer tests |
| `sokol_time.h` | vendored | - | - |
| GCM, Poly1305 | named in `README.md` and in the cipher enums | no code | - |

How they interact. In `bench.c` main sends a work item through one mailbox and
receives `SAMPLE_SIZE` results through another; the worker receives the work,
times a cipher and sends the results. A mailbox is a queue whose operations are
called only between `pthread_mutex_lock` and the unlock or the wait. Items are
copied in by `enqueue`; what `dequeue` returns belongs to the caller, who frees
it. Ciphers are called through a `void (*)(void*)` with an argument struct, by
`measure_time`. The driver writes rows to a CSV file, which the next run of the
program finds and writes to again. In counter mode the AES cipher is called for
each block with the caller's counter array, which the next call goes on with.

What is hard. The mailbox is shared by threads: lost and stolen wakeups, a
mutex kept on an error path, a mailbox destroyed under a waiter. The queue is
pointers and ownership: a stale tail, leaks on the second error path, the loop
that frees a list. The benchmark counts messages that can be lost, ignores most
error results, and ends while its worker runs. The driver's file survives runs
that were killed. The ciphers are loops over a counter that wraps, kept in two
places, over inputs that do not end with a block; the vector code must undo its
lane rotations. The repository's tests reach little of it: there is none
for the queue or the mailbox, ChaCha20 is tested with 114 bytes and only the
scalar code, AES-CTR with its first block.

What makes each part correct:

* queue: callers see a FIFO queue; the list has exactly `q_size` nodes from
  `head` to `tail`; each allocated cell has one owner; freeing frees all, once.
* mailbox: only the mutex owner touches the queue; sends and receives are
  atomic to their callers; `recv_msg` returns an item; no item waits beside a
  sleeping receiver.
* threaded benchmark: one result per sample, main ends, nobody uses a mailbox
  that was destroyed.
* ciphers: each input byte is combined with its own keystream byte; nothing is
  written beyond the input's length; the vector code computes what the scalar
  code does.
* driver and timer: the CSV file holds one row per sample; the time is divided
  by the number of calls that were timed.

`PROJECT.json` lists the hazards behind these, each at its line, with the
properties that cover it or the reason why none does.

## 2. The modules

| Module | What it is | Source |
|---|---|---|
| `FifoQueue` | abstract: a FIFO queue whose puts may fail | promise of `queue.h` |
| `Queue` | the linked list, cell by cell | `queue.c` |
| `MCQueue` | instances of `Queue` for TLC | |
| `QueueProofs` | invariants of `Queue`; `Queue` implements `FifoQueue` | |
| `Channel` | abstract: atomic sends and receives between call and return | promise of `mailbox.h` |
| `MailBox` | the mailbox, one step per call that `send_msg` and `recv_msg` make | `mailbox.h` |
| `MCMailBox` | instances of `MailBox` for TLC | |
| `MailBoxProofs` | invariants of `MailBox`; `MailBox` implements `Channel` | |
| `CounterMode` | what counter mode is: which keystream byte belongs where | RFC 8439 as the headers cite it |
| `ChaChaCtr` | the block loops of the three ChaCha20 encryptions | `chacha20.c`, `chacha20_sse.c`, `chacha20_avx.c` |
| `ChaChaCtrProofs` | invariants of `ChaChaCtr` | |
| `ChaChaBlock` | the ChaCha20 block function, scalar, SSE and AVX side by side | the same files |
| `MCChaChaBlock` | 32-bit words and the vectors of `tests/test_chacha20.c` | |
| `ChaChaBlockProofs` | the vector code computes the scalar one | |
| `Bytes` | exclusive or of bytes, for instances | |
| `AesBlock` | AES-256: key expansion, rounds, tables | `aes.c` |
| `AesBlockProofs` | AES makes blocks of blocks, within the bounds of its tables | |
| `AesCtr` | the counter and the loop of AES in counter mode, call after call | `aes_ctr.c` |
| `MCAesCtr` | `AesCtr` around `AesBlock`, keys and counters of the tests, the arithmetic of FIPS 197 | |
| `AesCtrProofs` | invariants of `AesCtr` for any block cipher | |
| `Benchmark` | abstract: samples made, counted and written one by one | promise of `bench.c` |
| `BenchPipeline` | main and worker over two instances of `Channel` | `bench.c` |
| `BenchPipelineProofs` | invariants of `BenchPipeline`; it implements `Benchmark`, and each of its steps counts | |
| `BenchDriver` | processes that measure and write to one CSV file | `bench_ciphers.c`, `bench_timer.h` |
| `BenchDriverProofs` | invariants of `BenchDriver` | |

How they build on each other: `Queue` implements `FifoQueue`, through which `MailBox` uses
it; `MailBox` implements `Channel`, of which `BenchPipeline` has two instances, and
`BenchPipeline` implements `Benchmark`. So what is checked of the pipeline over atomic
channels is about the mailboxes of `mailbox.h` over the lists of `queue.c`, as long as the
mailboxes are open. `AesCtr` takes its cipher as a parameter, which `MCAesCtr` gives as
`AesBlock`.

### Queue

State. `head`, `tail` and `q_size` are the fields of the struct. The heap is
explicit: `live` and `bufs` are the allocated nodes and job buffers, `job`,
`next` and `content` what they hold. A freed cell holds `Junk`, and an address
may be handed out again. `held` is the set of buffers that `dequeue` gave to
callers. `chain` is auxiliary: the queued nodes in order, which no action reads.
`phase` says whether there is a queue, and holds `undefined` once the code has
read memory it freed.

Actions. One per call and outcome: `NewQueue`, `NewQueueFails`, `Enqueue`,
`EnqueueFails` (either allocation of `new_node` fails), `Dequeue`,
`DequeueEmpty`, `IsEmpty`, `FreeQueue`, and one for each iteration of the loop
of `free_nodes`. `FreeJob` is the caller's `free`. Calls are atomic: the
queue has no concurrency of its own, and `MutualExclusion` of `MailBox` shows
that its user lets in one thread at a time.

Two branches are not reached and are left out: `free_queue(NULL)`, which does
nothing, and the size of an item, which is an element of `Msg`.

`ImplementsFifo` maps `items` to the contents of the jobs of the chain and
`open` to `phase = "open"`. The loop of `free_nodes` is a stutter: to a caller
the queue is gone when `free_queue` is entered.

### MailBox

State. `items` is the queue, `lock` the owner of the mutex, `waiters` the
threads blocked on the condition variable, `pc` what each thread does next,
`msg` and `status` its argument and locals. The queue is used through what
`FifoQueue` promises, so a queue operation is one step; `Capacity` is how many
items there is memory for, and an enqueue may also fail with memory to spare.

Actions. `SendLock`, `SendEnqueue`, `SendSignal`, `SendUnlock` and `RecvLock`,
`RecvTest`, `RecvWait`, `RecvRelock`, `RecvDequeue`, `RecvUnlock` are the calls
in the order of the code; a failed enqueue goes from `SendEnqueue` to the
unlock. The mutex and the condition variable are POSIX's, outside the
repository: a wait releases the mutex and blocks in one step, a signal wakes
one waiter if there is any and is forgotten otherwise, a waiter may wake for
no reason (`SpuriousWakeup`) and always takes the mutex again. A failing
`init_mail_box` leaves everything as it was and has no action.

`DestroyMailBox` looks neither at the mutex nor at the waiters, as in the code.
With two or more items in the queue `free_queue` is undefined (`mc_queue_free`
below): the mailbox is then `Undefined`, closed with its items, and nothing
follows. `Channel` says the same of its `Close`.
`Next` takes it when no thread is inside a call, which is what a caller owes;
main of `bench.c` does not keep to it, which is a matter of `BenchPipeline`.

`ImplementsChannel` maps a thread's `pc` to the `stage` of its call: a send
takes effect at its enqueue, a receive at its dequeue.

### ChaChaCtr

State. `i`, `count` and `iv` are the variables of the code; of the sixteen
bytes of `iv` only the counter's four change, and they are the number `iv`. The
block function is abstract (`Block`): byte `j` for counter `v` is the pair
`<<v, j>>`. `out` holds, for each output byte, the keystream byte it was
combined with; that is all that counter mode has to get right. A call is a
behaviour from `Init`, which picks the variant, the counter and the length, to
`pc = "done"`.

Actions. A round of the block loop (`WholeBlock`; `WholeDoubleBlock` for AVX,
which makes two blocks), its end, and the last bytes. `chacha20.c` and
`chacha20_sse.c` have the same loop around different block functions and share
the actions. `IncrementLowByte` is `input[0] += 1` of `chacha20_avx.c:261`: one
byte of the little-endian counter, without carry.

### ChaChaBlock

State. `x`, `z`, `y` are input, working state and output of `chacha20_hash`, for
a counter and for the next one; `x128`, `z128`, `y128` are those of
`chacha20_hash_128`, four vectors of four lanes; `x256`, `z256`, `y256` those of
`chacha20_hash_256`, four vectors of eight lanes, the upper four of which are a
second block. `i` is the loop variable of all three.

Actions. `ColumnRound` and `DiagonalRound` are the two halves of a double round
in all three versions, each of which ends in the vector code by rotating the
lanes (`ToDiagonals`, `ToColumns`); `Store` adds the input and writes the words
to the places of the code's `_store_word32_le`. Running the three in step is
what lets an invariant compare them between rounds. Addition, exclusive or and
rotation are parameters: words are opaque to the loads, stores and shuffles.
The calls of `printf` in `chacha20_avx.c` are left out.

### AesBlock and AesCtr

`AesBlock` is functions only: tables, key expansion and rounds, on tuples of
bytes. The key expansion works on words whose first byte is highest and
reverses all of them at the end, as the code does. The loops over words and
rounds are recursive functions of the tuple made so far. `TablesRight` of
`MCAesCtr` states the tables by the arithmetic of FIPS 197; its operators are
recursive, and so not in a module that proofs are about.

`AesCtr`. State: the caller's `counter` array, with the byte behind the block
that `increment_count` starts at; the loop variable `i`; `out`, the keystream
that the text was combined with; `pt_length` and `key_schedule`, the arguments.
`origin` and `base` are history: the array before the first call, and the
blocks encrypted by earlier calls. Actions: `WholeBlock`, `EndOfBlocks`,
`LastBytes`, and `CallAgain`, because the array goes from one call to the next.
A caller whose array ends with the block has no byte there; what the code then
increments is not defined, and the model starts from arrays that have it.

### BenchPipeline

State. The two mailboxes, each the variables of a `Channel`; for main `mpc`,
`samples_collected`, the rows `csv` and whether the file could be created; for
the worker `wpc`, the pointer `cipher`, `i` and the input buffer `data` with
`readin`. A sample is known by its place in the order of measurement. `lost`
and `failures` are history. `fate` is that of the process: `exited` when main
returned, `undefined` once memory that was freed or never initialised is used,
or a null function is called. The branch of `collect_samples` for a `NULL`
sample (lines 314-317) is left out: `recv_msg` returns an item
(`RecvReturnsItem`), and a `NULL` would have been read for the `printf` before.

Actions. One per statement that changes state or calls, in the order of the
code. The constant `MayFail` names the calls that may fail: `init_mail_box`,
`pthread_create`, `open` and `dprintf` of the CSV file, `send_msg`, and `open`
or `read` of the input. What the code does then is modelled, which is mostly to
print and go on. `read_all` takes any number of bytes at a time and goes on for
ever at the end of a file that is too short, as the loop does. main destroys a
mailbox whether or not the worker is inside: the worker that waits there may
wake up and read the freed queue (`ReadFreedQueue`), or be gone with the
process first.

The file is unfinished: the worker's loop, its receive and send and the main of
the threaded program are in comments or under `#if 0`. The model is of the
program that these spell out. `set_bench_params` sets its own copy of the
function pointer. `Selected` has `NULL`, which is what the code gives, and a
function, which is what it means to give, so that what comes behind can be
checked as well.

`ImplementsBenchmark` maps `made` to the number of sends of samples that took
effect or failed (`SendsMade`), `transit` to the sample in main's hand and the
ones in the mailbox, and `counted`, `rows` and `ended` to `samples_collected`,
`csv` and `fate = "exited"`. Three actions are visible: a send of the worker
makes a sample, which is under way or lost, `WriteSample` counts one, with or
without a row, and `ReturnFromMain` ends. Everything else, the work queue, the
input, the steps from the mailbox to main's hand, the destruction of the
mailboxes, is a stutter; for the last this says that no sample is dropped with
its mailbox.

### BenchDriver

State. `file` is the CSV file, byte by byte, each known by the process that
wrote it, its line and its place in the line; `off` is where the process writes
next. `i`, `tsc`, `start`, `result` are the variables of `measure_time`, and
`warm` says that the call is the one that warms up the cache. `old` (the file as
the process found it), `failed` (the processes one of whose writes failed),
`timed` and `spent` are history.

Actions. `create_csv` (the file keeps its contents: there is no `O_TRUNC`),
`WriteHeader`, the statements of `measure_time`, `WriteRow`, `Close`. A write may
fail after any part of its bytes, and is then forgotten. `Kill` ends a process
anywhere between two steps, and `NextProcess` starts another one on the file
that is there. The cipher's calls take any of the times in `Cost`, which is what
gives results, and so rows, different widths.

## 3. What the runs show

Safety, refinement and liveness of the passing runs:

* `mc_queue` (`MCQueue.cfg`, 699 states up to symmetry). Three nodes and four
  buffers: the queue can be empty, have one item (where `head` and `tail`
  coincide), two, and three (an item that is neither first nor last), with a
  job in a caller's hand while the queue is full, and every address is used
  again. `ListShape`, `Ownership`, `JobsStable` (an item is a copy nobody
  changes) and `ImplementsFifo` hold; `FreeSafeUpToOneItem` says when
  `free_queue` is safe.
* `mc_mailbox` (`MCMailBox.cfg`, 18509 states up to symmetry). Two senders and
  two receivers: the fewest with which a receiver that never waited can take
  the item of one that was signalled, while another sleeps. `Capacity` 3 lets
  more items queue than there are receivers. `MutualExclusion`, `NoLostWakeup`,
  `RecvReturnsItem` and `ImplementsChannel` hold, and there is no deadlock:
  even when every receiver is blocked a send is possible. (A destroyed mailbox
  that is `Undefined` is where a behaviour may end; `Next` lets it stutter.)
* `mc_mailbox_live` (`MCMailBoxLive.cfg`, 5829 states). The same threads, one
  kind of item, no symmetry. `SendReturns` and `ItemsAreReceived` hold under
  the fairness of section 4.
* `mc_chacha_ctr` (`MCChaChaCtr.cfg`, 4212 states). Blocks of two bytes, words of two
  bytes of three values: nine counters, and lengths to 21, so that every start wraps the
  word as well as its lowest byte, and inputs end at a block, at a double block and inside
  either. `KeystreamRight` holds for the scalar and the SSE code, `OutputComplete` for
  all. `AvxStream` is what the AVX code computes instead, byte for byte and also past the
  first double block: double block `n` is made from the caller's counter with `n` added to
  its lowest byte, and the block behind that one in the whole counter. A call ends, so
  deadlock is not checked.
* `mc_chacha_block` (`MCChaChaBlock.cfg`, 132 states). Two keys, and counters
  1, `0xffff` and `0xffffffff`, the last of which wraps to 0 in the second AVX
  block; twenty rounds of each. `SseAgrees` and `AvxAgrees` compare every lane
  after every half of a double round. `KnownAnswer` ties all three to the key
  stream of `tests/test_chacha20.c`: without it they could agree on a
  permutation that is not ChaCha20. The test itself runs only the scalar code.
* `mc_aes_ctr` (`MCAesCtr.cfg`, 816 states). The real sizes and the real
  cipher. The counters are those of the tests and arrays that are a block or two
  before a carry out of one, two, three or all bytes; the lengths end a call
  with a block, within one, or at once, and up to three blocks are spread over
  several calls. `StreamOfWideCounter` is what the code does compute: block `b`
  of all calls comes from the number in bytes 1 to 16 of the array, plus `b`;
  what a caller may rely on, that the first block is right (`OneBlockRight`),
  follows from it and is proved. `CipherRight` checks the tables, entry by
  entry, and the first blocks. A caller need not call again, so deadlock is not
  checked.
* `mc_pipeline` (`MCBenchPipeline.cfg`, 8897 states). Three samples: a first, a last, and
  one between, so that a sample can be lost with others before and behind it; input files
  that are a byte too short, just right, and longer. Every call may fail, any number of
  times. `SamplesConserved` says where each sample is and `ImplementsBenchmark` which way
  it goes: in the order of measurement, counted once, written at most once. That rows, the
  sample in hand and the mailbox are in order (`RowsInOrder`) follows and is proved as
  well. `EveryStepCounts` says that each step that changes anything uses up one of
  finitely many; `CsvComplete` what a run that ends has written; `InputRead` that split
  reads fill the buffer with the file; `KnownCauses` that there are three ways only in
  which it runs into undefined behaviour, and that main and the worker wait for each other
  only after a failed send or `pthread_create`; and `OnlyWaitingWorkerLeft` that of the
  two mailboxes only the work queue is destroyed under somebody, and that both are empty
  then, so that `free_queue` is safe. `MainEnds` is under the fairness of section 4. The
  process ends, so deadlock is not checked.
* `mc_driver` (`MCBenchDriver.cfg`, 6.0 million states, a minute). Three
  processes of two samples: the third finds a file whose seam the second made.
  Rows are two to three bytes wide and the header two, so that a later row can
  end inside, at the end of and behind an earlier one. Warm-ups of 0, 1 and 3
  for two iterations are none, fewer and more than the divisor. `OwnBytesFirst`
  and `OneSeam` are what the missing `O_TRUNC` amounts to for one process, and
  `SeamsBounded` for all of them together: the places where a line breaks do not
  add up beyond one for each earlier process, apart from those that failed
  writes leave. `RunComplete` is what a reader wants. `MeasuresMean`: without a
  warm-up, which is what every caller asks for, the result is the mean of the
  timed calls; with one it is never above it. A process ends, so deadlock is not
  checked.

Every invariant and property has a mutant of the code beside the definition it
changes (`...Leaking`, `...Once`, `...RoundedUp`), which it refutes;
`PROJECT.json` pairs them.

Four runs show where the code and its text disagree:

* `mc_queue_free` (`FreeQueueDefined`). `free_nodes` (`queue.c:33-39`) sets `n`
  once and never advances it. With two queued items the second iteration reads
  `n->next` from the node that the first one freed and frees it again. With one
  item, or none, it is correct, which `FreeSafeUpToOneItem` says.
  `destroy_mail_box`, called to "free queues" (`bench.c:354`), relies on it for
  whatever the mailboxes still hold.
* `mc_chacha_avx` (`AvxKeystreamRight`). The AVX code makes two blocks a round
  and moves its counter on by one, so the second round starts with the block
  the first one ended with; from byte 129 the output is not that of RFC 8439,
  whose test vectors the file says it passes (`chacha20_avx.c:17`). Only
  inputs of up to 128 bytes are right.
* `mc_aes_ctr_block` (`BlockCounterIncremented`). `increment_count` starts at
  index `BLK_BYTES` (`aes_ctr.c:45`), behind the 16 bytes that are encrypted, so
  the second block has the keystream of the first; the comment at line 81 says
  "increment counter". `tests/test_aes_ctr.c` has four blocks of text and
  compares the first.
* `mc_pipeline_lost` (`AllSamplesCollected`). A send that fails is printed and
  not repeated, and main waits for as many samples as there should have been
  (`bench.c:307`, "collect all samples").

## 4. Fairness

`FairSpec` of `MailBox` assumes:

* weak fairness of each thread's next step (`ThreadsRun`): the operating system
  runs a thread that can run. Calls are not fair: nobody has to send or
  receive. Spurious wakeups are not fair either, they may never happen;
* finitely many sends and finitely many spurious wakeups. A POSIX mutex does
  not promise its waiters a turn, and weak fairness does not either. A thread
  can be overtaken for ever only by threads that come back to the mutex for
  ever: senders by sending again, receivers by receiving again (which needs
  items, so sends) or by waking up for nothing. The benchmark sends a fixed
  number of items.

Strong fairness of the mutex would also do and would say more than POSIX does.

`FairSpec` of `BenchPipeline` assumes weak fairness of main's steps and of the
worker's: both threads run when they can. That a call of an open mailbox goes on
is what `SendReturns` and `ItemsAreReceived` establish for the mailbox. A wait
in a mailbox that was destroyed is not fair: that thread may sleep for ever. No
call has to fail or to succeed.

The other modules have safety properties only and no fairness.

## 5. What is proved

The proofs assume only what the modules assume of their constants: that `NULL`
and `Junk` are no addresses (`AddressAssumption`), that the threads are a finite
set (`ThreadAssumption`), that sizes are positive and a byte's range divides a
word's (`SizeAssumption`, `ByteAssumption`), and the like. The theorems of two
modules have a hypothesis about an operator that is a parameter: that a block
cipher makes blocks of blocks (`CipherMakesBlocks`), and that the operations on
words make words (`WordsClosed`). Both are discharged for what the program
passes: `AesBlockProofs` proves the first of `aes_encryption`, and the last
section of `ChaChaBlockProofs` the second of the operations on 32 bits.

Two arguments go by induction over data, for which the library's theorems take
an operator that the provers cannot instantiate. It is done with sets instead:
the least number for which a statement fails (`LeastNumber`, from the
well-founded order of `Nat`) is not 0, and its predecessor refutes it. The same
shows that a recursive function has the values its definition gives
(`Recursion` in `AesBlockProofs`).

`QueueProofs`: `TypeOK`, `ListShape`, `Ownership`, `FreeSafeUpToOneItem`,
`JobsStable` and `ImplementsFifo`, for any number of addresses. `IInv` joins to
the checked invariants what they need to be inductive: a buffer in a caller's
hand is allocated and holds an item (`Custody`); while `free_nodes` runs, what
it starts with (`Freeing`); the chain is empty when there is no open queue.
The hard steps are `Enqueue`, which writes through `tail`, and `Dequeue`, after
which every remaining node must still be linked; lemmas about appending to and
dropping from the chain carry them. The refinement has one lemma for each
operation that changes `Items`; all other steps leave it as it was.

`MailBoxProofs`: `TypeOK`, `MutualExclusion`, `RecvReturnsItem`,
`NoLostWakeup` and `ImplementsChannel`, for any finite sets of threads. They
rest on `LockInv`: the mutex owner is the thread in the critical section, the
wait set is the set of blocked threads, and a thread that decided to wait still
sees an empty queue, because nobody enqueues without the mutex.
`NoLostWakeup` is a count. It is stated so that it is inductive on top of
`LockInv`: each step moves one thread (a signal moves two), and the lemmas on
cardinality say what that does to the numbers of takers and signallers.

`ChaChaCtrProofs`: `TypeOK`, `KeystreamRight`, `AvxStream` and `OutputComplete`,
for any size of block, byte and word, and any length. `IInv` says how far the
loop is (`Progress`: `i` rounds have written `i` times a round's bytes), that
`iv` is the counter of the next block (`CounterFollows`), and for AVX that it is
the caller's with `i` added to its lowest byte (`AvxFollows`). `StreamGoesOn` is
the central lemma: a keystream that ends with a block goes on with the start of
the next block. Two consequences of `AvxStream` place the disagreement of
`mc_chacha_avx` exactly: `ShortInputsAreRight` (one double block is what
RFC 8439 says) and `BlockUsedTwice` (unless the byte wraps, the first block of
a double block is the second block of the double block before it).

`ChaChaBlockProofs`: `TypeOK`, `SseAgrees` and `AvxAgrees`, for any set of
words and any operations on it. `Agree` compares the input matrices of the three
versions as well as their states. The step of a column round says that lane `l`
of the four vectors goes through the quarter round of column `l`, and that the
rotation moves its words to where `PlaceOf` looks for them; that of a diagonal
round says the same of diagonals and back. `MachineVectorsAgree` states both
invariants for the pairs of halves that TLC runs with, as the operations of the
code: addition modulo 2^32, exclusive or, and the rotations by 7, 8, 12 and 16.

`AesCtrProofs`: `TypeOK`, `OutputComplete`, `StreamOfWideCounter` and
`OneBlockRight`, for any cipher, block size and number of calls. `IInv` adds how
far the loop is (`Progress`), and that the array is the caller's array advanced
by the whole blocks of all calls (`CounterMoved`); without it nothing says which
block comes next. The step is `IncrementMoves`: `increment_count`, which goes on
from a byte only when the byte wrapped, adds one to the number in bytes 1 to
`BLK_BYTES`. The reference `Advance` defines that sum by its carries, from the
last byte to the first; the lemma is an induction over the bytes, in which a
carry grows exactly when all bytes behind it are at their largest.
`OneBlockIsRight` is a corollary, and so is `SameBlockAgain`: while the byte
behind the block does not wrap, every block of a text gets the same keystream,
which is what `mc_aes_ctr_block` shows for one text.

`AesBlockProofs`: for every key and block, key expansion makes sixty words of
bytes (`KeyScheduleMade`), and encryption makes a block (`AesMakesBlocks`); both
say that all reads of `s_box`, `gf_8_mult`, `rcon`, the schedule and the state
are within their bounds, as a TLA+ function has no value of a known type outside
its domain. Each helper has a lemma for its type. The two loops are recursive
functions whose value has a longer type at each step, for which `Recursion` is
stated. `AesStreamIsOfWideCounter` puts the module and `AesCtrProofs` together:
`aes_ctr.c` around `aes.c`, with nothing assumed of the cipher.

`BenchPipelineProofs`: `TypeOK`, `SamplesConserved`, `RowsInOrder`,
`OnlyWaitingWorkerLeft`, `CsvComplete`, `KnownCauses`, `InputRead`, `ImplementsBenchmark`
and `EveryStepCounts`, for any number of samples, any sizes of files, and any set of calls
that may fail. `IInv` joins to them: at most one piece of work is under way, with main, in
the mailbox or with the worker (`OneWork`), so that the worker never begins again; lost
samples are among those sent (`Counted`); rows, the sample in main's hand and those in the
mailbox follow each other, and none is ahead of the worker (`Ordered`); as long as nothing
was lost they are numbered without gaps (`Numbered`); when the file and the mailboxes are
open and the worker exists (`CsvCreated`, `Opened`, `Created`); which part of the buffer
is read (`Reading`). `OnlyWaitingWorkerLeft` is not inductive; it follows from the count:
when main has counted as many samples as there are, none is lost and none is under way.
The part of `KnownCauses` about waiting follows from it too (`StuckByFailure`): when both
threads wait and no send has failed, the worker has sent every sample and none is lost or
under way, so that main has counted them all and does not wait.

`Implements` in the same module is the refinement, `Spec => Promise!Spec`.
`StepImplements` has one case for each action; those that `Benchmark` does not
see leave all that it is mapped from as it was (`Hidden`). It needs more of the
invariant than types: that the worker sends sample `i + 1` and makes no more than
there are (`Calls`, `Loops`), that main counts to the end before it returns, and
that nothing is left in `results` when it is destroyed (`CountedLeaves`).

`EveryStepIsCounted` proves `EveryStepCounts`. `StepsLeft` is a bound on the steps
that are left, the sum of main's and the worker's: at the start it is
`7 * SAMPLE_SIZE + FILE_SIZE + 16`. `LeftIsNat` says that it is never negative,
for which `OneWork` is needed (the worker's share would grow again if it could get
a second piece of work), and `NextCounts` that every step of a thread lowers that
thread's share and leaves the other's alone. So every run, with any failures and
any scheduling, comes to a state that it does not leave: the process has ended,
its behaviour is undefined, `read_all` goes round at the end of a short file, or
no thread can move, which `KnownCauses` describes. What TLC adds in `MainEnds` is
fairness: that a thread that can move does.

`BenchDriverProofs`: `TypeOK`, `OwnBytesFirst`, `OneSeam`, `SeamsBounded`,
`RunComplete` and `MeasuresMean`, for any number of processes, samples,
iterations and warm-ups, and any widths. `IInv` adds where the loop of
`collect_samples` is (`Collecting`), what `measure_time` has counted so far
(`Measuring`), that nothing is written before the header (`Beginning`), which
lines stand in the written part of the file (`Lines`), and that the bytes of one
process follow each other unless its writes failed (`OwnSeams`). The central
lemmas say what a write changes (`OverwriteAt`, `WritesOwn`), that a whole line
adds no seam but the one at its end (`WritesLine`), and that any write, also one
that breaks off, keeps `OwnSeams` (`WritesSeams`). `SeamsBounded` is a count: by
`OwnSeams` and `OwnBytesFirst` the process behind a seam is an earlier one than
that in front of it, and processes only get older towards the end of the file,
so that different seams lie before different earlier processes
(`SeamsAreBounded`), of which there are `run - 1`.

## 6. What is only model-checked

* Liveness: `SendReturns`, `ItemsAreReceived`, `MainEnds`. It rests on fairness,
  and so on what is enabled, which is out of the prover's reach. Of `MainEnds`
  the finite part is proved (`EveryStepCounts`), and what a state without a way
  on looks like (`KnownCauses`).
* `CipherRight` and `KnownAnswer`: the answers of the concrete ciphers to the vectors of
  the tests, which are computations and have no shorter argument than their evaluation
  (for these TLC's evaluation leaves no case out); and the entries of the AES tables,
  which are compared with operators that recurse. That the accesses to the tables are
  within their bounds is proved.
* The four violations are counterexamples and need no proof.

## 7. What is not modelled

* `sokol_time.h` is vendored. Of the timer, the reading of the TSC with its
  fences is hardware, and `bench_tsc_init` only reads it. The wrap of the
  64-bit TSC takes longer than the machine runs.
* The nanosecond clock is chosen by a parameter that every caller sets to
  cycles; names of ciphers and of files are data. The hazards about the
  numbers of the ciphers in `bench.c`, and about the size in a row, are listed
  without a property for this reason.
* `write_all` is never called, and nothing reads the entries of `cipher_name`
  in `bench_const.h` that are out of step with its enumeration. `set_file_size` stores a constant. The argument
  structs of the ciphers are not followed into the ciphers: the pipeline and
  the driver only call them.
* The scripts (most are empty files), tests and build files. The tests are used
  as a source of expected answers.
* GCM and Poly1305 are named and have no code.

What could come next: `MailBox` itself, with its mutex, under the pipeline in
place of `Channel`, to follow a thread inside a destroyed mailbox step by step.
