---------------------------- MODULE BenchPipeline ----------------------------
(***************************************************************************)
(* The threaded benchmark of bench/src/_tmp/bench.c: main sends the work   *)
(* through one mailbox and collects the samples that a worker sends back   *)
(* through another.  Its parts stand in the file under #if 0 (main) and in *)
(* comments (the worker's loop and its calls of mailboxes and files); they *)
(* are modelled as they are laid out there, around the code that compiles. *)
(*                                                                         *)
(* A mailbox is what Channel promises and MailBox.tla implements, except   *)
(* that main destroys it without waiting for calls in progress to end.     *)
(* Calls of the system may fail; what the code then does is modelled.      *)
(***************************************************************************)
EXTENDS Integers, Sequences, FiniteSets

CONSTANTS
  SAMPLE_SIZE,  \* how many samples main waits for
  FILE_SIZE,    \* how many bytes of input get_data_file asks for
  FileLength,   \* how many bytes the input file may have
  Selected,     \* what the worker's pointer cipher may be once it is set
  MayFail,      \* the calls that may fail
  NULL

Call == {"init", "create", "csv", "send", "read"}

ASSUME SizeAssumption == SAMPLE_SIZE \in Nat \ {0} /\ FILE_SIZE \in Nat
ASSUME FileAssumption == FileLength \subseteq Nat
ASSUME CallAssumption == MayFail \subseteq Call
ASSUME NullAssumption == NULL \notin Nat /\ NULL # "work"

Thread == {"main", "worker"}
Work == {"work"}
Sample == 1 .. SAMPLE_SIZE     \* a result, known by its place in the order

VARIABLES
  wOpen, wItems, wStage, wMsg, wStatus,  \* the mailbox workq
  rOpen, rItems, rStage, rMsg, rStatus,  \* the mailbox results
  mpc,                \* what main does next
  samples_collected,  \* its count
  csv,                \* the rows of the CSV file that were written
  csvOpen,            \* whether the file could be created
  wpc,                \* what the worker does next; none before it is created
  cipher, i,          \* its function pointer and its loop variable
  fileLen,            \* the length of its input file
  data, readin,       \* its input buffer, and how much of it is read
  lost,               \* history: the samples whose send failed
  failures,           \* history: the calls that failed
  fate                \* of the process: running, exited, undefined

workq == <<wOpen, wItems, wStage, wMsg, wStatus>>
results == <<rOpen, rItems, rStage, rMsg, rStatus>>
mainVars == <<mpc, samples_collected, csv, csvOpen>>
workerVars == <<wpc, cipher, i, fileLen, data, readin>>
vars == <<workq, results, mainVars, workerVars, lost, failures, fate>>

WorkQ == INSTANCE Channel WITH
  Msg <- Work, open <- wOpen, items <- wItems, stage <- wStage, msg <- wMsg,
  status <- wStatus
Results == INSTANCE Channel WITH
  Msg <- Sample, open <- rOpen, items <- rItems, stage <- rStage, msg <- rMsg,
  status <- rStatus

Init ==
  /\ WorkQ!Init /\ Results!Init
  /\ mpc = "init_results" /\ samples_collected = 0 /\ csv = <<>> /\ csvOpen = FALSE
  /\ wpc = "none" /\ cipher = NULL /\ i = 0
  /\ fileLen \in FileLength
  /\ data = [k \in 0 .. FILE_SIZE - 1 |-> NULL] /\ readin = 0
  /\ lost = {} /\ failures = {}
  /\ fate = "running"

Main(from, to) == mpc = from /\ mpc' = to
Worker(from, to) == wpc = from /\ wpc' = to

Fails(call) == call \in MayFail /\ failures' = failures \cup {call}

(* Freed memory is read, or a pointer without a value is called.           *)
Undefined == fate' = "undefined" /\ UNCHANGED <<workq, results, mainVars, workerVars, lost, failures>>

------------------------------------------------------------------------------
(* main, and the functions that it calls *)

(* What init_mail_box returned is not looked at.                           *)
InitResults ==
  /\ Main("init_results", "init_workq")
  /\ \/ Results!Open /\ UNCHANGED failures
     \/ Fails("init") /\ UNCHANGED results
  /\ UNCHANGED <<workq, samples_collected, csv, csvOpen, workerVars, lost, fate>>

InitWorkq ==
  /\ Main("init_workq", "create_thread")
  /\ \/ WorkQ!Open /\ UNCHANGED failures
     \/ Fails("init") /\ UNCHANGED workq
  /\ UNCHANGED <<results, samples_collected, csv, csvOpen, workerVars, lost, fate>>

(* pthread_create returns a positive number when it fails, and main asks   *)
(* for a negative one.                                                     *)
CreateThread ==
  /\ Main("create_thread", "create_csv")
  /\ \/ Worker("none", "recv") /\ UNCHANGED failures
     \/ Fails("create") /\ UNCHANGED wpc
  /\ UNCHANGED <<workq, results, samples_collected, csv, csvOpen, cipher, i,
                 fileLen, data, readin, lost, fate>>

create_csv ==
  /\ Main("create_csv", "send_work")
  /\ \/ csvOpen' = TRUE /\ UNCHANGED failures
     \/ Fails("csv") /\ UNCHANGED csvOpen
  /\ UNCHANGED <<workq, results, samples_collected, csv, workerVars, lost, fate>>

SendWork ==
  \/ /\ Main("send_work", "sending")
     /\ WorkQ!CallSend("main", "work")
     /\ UNCHANGED <<results, samples_collected, csv, csvOpen, workerVars, lost,
                    failures, fate>>
  \/ mpc = "send_work" /\ ~wOpen /\ Undefined

(* A failed send is reported on stderr and main goes on to collect.        *)
WorkSent ==
  /\ mpc = "sending"
  /\ \/ WorkQ!Send("main") /\ UNCHANGED <<mpc, failures>>
     \/ WorkQ!SendFails("main") /\ Fails("send") /\ UNCHANGED mpc
     \/ WorkQ!Return("main") /\ mpc' = "recv" /\ UNCHANGED failures
  /\ UNCHANGED <<results, samples_collected, csv, csvOpen, workerVars, lost, fate>>

ReceiveSample ==
  \/ /\ Main("recv", "receiving")
     /\ Results!CallReceive("main")
     /\ UNCHANGED <<workq, samples_collected, csv, csvOpen, workerVars, lost,
                    failures, fate>>
  \/ mpc = "recv" /\ ~rOpen /\ Undefined

(* collect_samples reads the sample for its printf before it compares the  *)
(* pointer with NULL: that test, and its break, would come too late.  It   *)
(* is left out, as recv_msg returns an item (RecvReturnsItem of MailBox).  *)
SampleReceived ==
  /\ mpc = "receiving"
  /\ \/ Results!Receive("main") /\ UNCHANGED mpc
     \/ Results!Return("main") /\ mpc' = "write"
  /\ UNCHANGED <<workq, samples_collected, csv, csvOpen, workerVars, lost,
                 failures, fate>>

(* Mutant of CountSample: only the rows that were written are counted.     *)
CountRow == samples_collected' = samples_collected + (IF csv' = csv THEN 0 ELSE 1)

CountSample == samples_collected' = samples_collected + 1

(* Mutant of AfterSample: the loop ends one sample too early.              *)
AfterSampleTooEarly == IF samples_collected' < SAMPLE_SIZE - 1 THEN "recv" ELSE "destroy_workq"

(* Mutant of AfterSample: the receive stands in front of the loop.         *)
AfterSampleOutside == IF samples_collected' < SAMPLE_SIZE THEN "write" ELSE "destroy_workq"

AfterSample == IF samples_collected' < SAMPLE_SIZE THEN "recv" ELSE "destroy_workq"

(* The sample is counted whether or not dprintf can write its row.         *)
WriteSample ==
  /\ mpc = "write"
  /\ \/ csvOpen /\ csv' = Append(csv, rMsg["main"]) /\ UNCHANGED failures
     \/ Fails("csv") /\ UNCHANGED csv
     \/ ~csvOpen /\ UNCHANGED <<csv, failures>>
  /\ CountSample
  /\ mpc' = AfterSample
  /\ UNCHANGED <<workq, results, csvOpen, workerVars, lost, fate>>

(* free_queue is defined up to one item (FreeSafeUpToOneItem of Queue).    *)
FreeQueue(items) == fate' = IF Len(items) > 1 THEN "undefined" ELSE fate

DestroyWorkq ==
  /\ Main("destroy_workq", "destroy_results")
  /\ wOpen' = FALSE /\ wItems' = <<>> /\ FreeQueue(wItems)
  /\ UNCHANGED <<wStage, wMsg, wStatus, results, samples_collected, csv, csvOpen,
                 workerVars, lost, failures>>

DestroyResults ==
  /\ Main("destroy_results", "return")
  /\ rOpen' = FALSE /\ rItems' = <<>> /\ FreeQueue(rItems)
  /\ UNCHANGED <<workq, rStage, rMsg, rStatus, samples_collected, csv, csvOpen,
                 workerVars, lost, failures>>

(* When main returns the process ends, and the worker with it.             *)
ReturnFromMain ==
  /\ mpc = "return"
  /\ fate' = "exited"
  /\ UNCHANGED <<workq, results, mainVars, workerVars, lost, failures>>

------------------------------------------------------------------------------
(* The worker *)

ReceiveWork ==
  \/ /\ Worker("recv", "receiving")
     /\ WorkQ!CallReceive("worker")
     /\ UNCHANGED <<results, mainVars, cipher, i, fileLen, data, readin, lost,
                    failures, fate>>
  \/ wpc = "recv" /\ ~wOpen /\ Undefined

WorkReceived ==
  /\ wpc = "receiving"
  /\ \/ WorkQ!Receive("worker") /\ UNCHANGED wpc
     \/ WorkQ!Return("worker") /\ wpc' = "params"
  /\ UNCHANGED <<results, mainVars, cipher, i, fileLen, data, readin, lost,
                 failures, fate>>

(* The mailbox was destroyed under a worker inside recv_msg, which wakes   *)
(* up, or gets the mutex, and asks the queue whether it is empty.          *)
ReadFreedQueue ==
  /\ wpc = "receiving" /\ wStage["worker"] = "receiving"
  /\ ~wOpen
  /\ Undefined

(* As it is written set_bench_params assigns to its own copy of func, and  *)
(* cipher stays NULL; Selected also has what a func that is handed back    *)
(* would make of it.                                                       *)
set_bench_params ==
  /\ Worker("params", "read")
  /\ cipher' \in Selected
  /\ i' = 0
  /\ readin' = 0
  /\ UNCHANGED <<workq, results, mainVars, fileLen, data, lost, failures, fate>>

(* Mutant of read_all: every read starts at the beginning of the buffer.   *)
read_allAtStart ==
  /\ wpc = "read"
  /\ \/ \E ret \in 0 .. FILE_SIZE - readin :
          /\ readin + ret <= fileLen
          /\ ret = 0 => readin \in {FILE_SIZE, fileLen}
          /\ data' = [k \in DOMAIN data |-> IF k < ret THEN readin + k ELSE data[k]]
          /\ readin' = readin + ret
          /\ wpc' = IF readin' < FILE_SIZE THEN "read" ELSE "measure"
          /\ UNCHANGED failures
     \/ Fails("read") /\ wpc' = "measure" /\ UNCHANGED <<data, readin>>
  /\ UNCHANGED <<workq, results, mainVars, cipher, i, fileLen, lost, fate>>

(* get_data_file with a round of the loop of read_all: a read returns part *)
(* of what was asked for, 0 only at the end of the file, or fails, as it   *)
(* does when the file could not be opened.  At the end of a file that is   *)
(* too short the loop goes on without changing anything.                   *)
read_all ==
  /\ wpc = "read"
  /\ \/ \E ret \in 0 .. FILE_SIZE - readin :
          /\ readin + ret <= fileLen
          /\ ret = 0 => readin \in {FILE_SIZE, fileLen}
          /\ data' = [k \in DOMAIN data |->
               IF k \in readin .. readin + ret - 1 THEN k ELSE data[k]]
          /\ readin' = readin + ret
          /\ wpc' = IF readin' < FILE_SIZE THEN "read" ELSE "measure"
          /\ UNCHANGED failures
     \/ Fails("read") /\ wpc' = "measure" /\ UNCHANGED <<data, readin>>
  /\ UNCHANGED <<workq, results, mainVars, cipher, i, fileLen, lost, fate>>

(* measure_time calls the function; then the sample is sent.               *)
MeasureAndSend ==
  \/ /\ Worker("measure", "sending")
     /\ cipher # NULL
     /\ Results!CallSend("worker", i + 1)
     /\ UNCHANGED <<workq, mainVars, cipher, i, fileLen, data, readin, lost,
                    failures, fate>>
  \/ wpc = "measure" /\ (cipher = NULL \/ ~rOpen) /\ Undefined

(* Mutant of AfterSend: the loop makes one sample more.                    *)
AfterSendOnceMore == IF i' <= SAMPLE_SIZE THEN "measure" ELSE "recv"

AfterSend == IF i' < SAMPLE_SIZE THEN "measure" ELSE "recv"

(* A failed send is reported on stderr, and its sample is not sent again.  *)
SampleSent ==
  /\ wpc = "sending"
  /\ \/ Results!Send("worker") /\ UNCHANGED <<wpc, i, lost, failures>>
     \/ /\ Results!SendFails("worker") /\ Fails("send")
        /\ lost' = lost \cup {rMsg["worker"]}
        /\ UNCHANGED <<wpc, i>>
     \/ /\ Results!Return("worker")
        /\ i' = i + 1
        /\ wpc' = AfterSend
        /\ UNCHANGED <<lost, failures>>
  /\ UNCHANGED <<workq, mainVars, cipher, fileLen, data, readin, fate>>

------------------------------------------------------------------------------

MainStep ==
  /\ fate = "running"
  /\ \/ InitResults \/ InitWorkq \/ CreateThread \/ create_csv
     \/ SendWork \/ WorkSent \/ ReceiveSample \/ SampleReceived \/ WriteSample
     \/ DestroyWorkq \/ DestroyResults \/ ReturnFromMain

WorkerStep ==
  /\ fate = "running"
  /\ \/ ReceiveWork \/ WorkReceived \/ set_bench_params \/ read_all
     \/ MeasureAndSend \/ SampleSent

Next == MainStep \/ WorkerStep \/ (fate = "running" /\ ReadFreedQueue)

Spec == Init /\ [][Next]_vars

(* Both threads run.  A thread blocked in a wait need not wake up.         *)
FairSpec == Spec /\ WF_vars(MainStep) /\ WF_vars(WorkerStep)

------------------------------------------------------------------------------
(* Safety *)

MainPc == {"init_results", "init_workq", "create_thread", "create_csv", "send_work",
           "sending", "recv", "receiving", "write", "destroy_workq",
           "destroy_results", "return"}
WorkerPc == {"none", "recv", "receiving", "params", "read", "measure", "sending"}

TypeOK ==
  /\ WorkQ!TypeOK /\ Results!TypeOK
  /\ mpc \in MainPc /\ wpc \in WorkerPc
  /\ samples_collected \in 0 .. SAMPLE_SIZE
  /\ csv \in Seq(Sample) /\ csvOpen \in BOOLEAN
  /\ cipher \in Selected \cup {NULL}
  /\ i \in 0 .. SAMPLE_SIZE
  /\ fileLen \in FileLength
  /\ data \in [0 .. FILE_SIZE - 1 -> Nat \cup {NULL}] /\ readin \in 0 .. FILE_SIZE
  /\ lost \in SUBSET Sample
  /\ failures \in SUBSET MayFail
  /\ fate \in {"running", "exited", "undefined"}

(* The sample that main has received and not yet counted.                  *)
InHand ==
  IF rStage["main"] = "received" \/ mpc = "write" THEN <<rMsg["main"]>> ELSE <<>>

(* How many sends of samples took effect, by success or by failure.        *)
SendsMade == i + (IF rStage["worker"] = "sent" THEN 1 ELSE 0)

(* Every sample the worker sent is counted once: by main, in main's hand,  *)
(* in the mailbox, or as lost.  (main tells the number of samples from its *)
(* count alone.)                                                           *)
SamplesConserved ==
  SendsMade = samples_collected + Len(InHand) + Len(rItems) + Cardinality(lost)

Increasing(s) == \A j, k \in DOMAIN s : j < k => s[j] < s[k]

(* The rows of the CSV file, then the sample in main's hand, then those in *)
(* the mailbox: in the order in which they were measured, each once, even  *)
(* if sends and writes between them failed.                                *)
RowsInOrder == Increasing(csv \o InHand \o rItems)

(* When main has begun to destroy the mailboxes there is nothing in them   *)
(* (free_queue could not free two items), and the worker is through with   *)
(* results and has nothing left to do but ask workq for more: that is the  *)
(* one call main pulls a mailbox away from.                                *)
Destroying == mpc \in {"destroy_workq", "destroy_results", "return"}
OnlyWaitingWorkerLeft ==
  Destroying =>
    /\ wItems = <<>> /\ rItems = <<>>
    /\ lost = {}
    /\ \/ wpc \in {"recv", "receiving"}
       \/ wpc = "sending" /\ rStage["worker"] = "sent" /\ i + 1 = SAMPLE_SIZE

(* A run that ends has a row for every sample, unless writing failed.      *)
CsvComplete ==
  fate = "exited" /\ "csv" \notin failures => csv = [k \in Sample |-> k]

(* The behaviour is undefined for one of three reasons only: a mailbox     *)
(* without memory is used, cipher was never set, or the worker asks for    *)
(* work while main destroys workq.                                         *)
UndefinedCauses ==
  fate = "undefined" =>
    \/ "init" \in failures
    \/ wpc = "measure" /\ cipher = NULL
    \/ wpc \in {"recv", "receiving"} /\ mpc \in {"destroy_results", "return"}

(* Both threads wait for each other, main for a sample and the worker, if  *)
(* there is one, for work.                                                 *)
Stuck ==
  /\ fate = "running"
  /\ rStage["main"] = "receiving" /\ rItems = <<>>
  /\ wpc = "none" \/ (wStage["worker"] = "receiving" /\ wItems = <<>>)

(* The process goes wrong for known reasons only.  It waits for ever only  *)
(* because a message was lost that send_msg could not send, or because     *)
(* there is no worker.                                                     *)
KnownCauses ==
  /\ UndefinedCauses
  /\ Stuck => failures \cap {"send", "create"} # {}

(* What is encrypted is the input file, however its reads were split: with *)
(* no failed read, the buffer holds byte k at place k when it is measured. *)
InputRead ==
  wpc = "measure" /\ "read" \notin failures => data = [k \in 0 .. FILE_SIZE - 1 |-> k]

------------------------------------------------------------------------------
(* What the benchmark promises *)

Promise == INSTANCE Benchmark WITH
  made <- SendsMade, transit <- InHand \o rItems, counted <- samples_collected,
  rows <- csv, ended <- fate = "exited"

(* Threads, mailboxes and failures make nothing of the samples but what    *)
(* Benchmark allows: a send that takes effect or fails makes a sample, a   *)
(* row written or not counts one, and main returns when all are counted.   *)
ImplementsBenchmark == Promise!Spec

(* How many steps a call has behind it, when it took effect.               *)
Effect(stage) == IF stage \in {"sent", "received"} THEN 1 ELSE 0

(* The steps that main may still take.                                     *)
MainLeft ==
  LET ahead == [init_results |-> 9, init_workq |-> 8, create_thread |-> 7,
                create_csv |-> 6, send_work |-> 5, sending |-> 4,
                recv |-> 2, receiving |-> 1, write |-> -1,
                destroy_workq |-> 2, destroy_results |-> 1, return |-> 0]
  IN  4 * (SAMPLE_SIZE - samples_collected) + ahead[mpc]
        - Effect(wStage["main"]) - Effect(rStage["main"])

(* The steps that the worker may still take, who asks for work once more   *)
(* when it has sent all samples.                                           *)
WorkerLeft ==
  LET input == IF i > 0 THEN 0 ELSE FILE_SIZE + 5
      ahead == [none |-> input + 1, recv |-> input + 1, receiving |-> input,
                params |-> FILE_SIZE + 3, read |-> FILE_SIZE - readin + 2,
                measure |-> 1, sending |-> 0]
  IN  3 * (SAMPLE_SIZE - i) + ahead[wpc]
        - Effect(wStage["worker"]) - Effect(rStage["worker"])

StepsLeft == MainLeft + WorkerLeft + (IF fate = "running" THEN 1 ELSE 0)

(* Neither thread goes round in circles, whatever fails and in whatever    *)
(* order they run: each step that changes anything brings the process      *)
(* nearer to its end, or to a wait.  (The round of read_all at the end of  *)
(* a file that is too short changes nothing.)                              *)
EveryStepCounts == [][StepsLeft' \in 0 .. StepsLeft - 1]_vars

------------------------------------------------------------------------------
(* Liveness *)

(* main ends, unless a send failed, the worker was not created, or the     *)
(* input file is too short: these leave it waiting for a sample.           *)
MainEnds ==
  <>(fate # "running" \/ failures \cap {"send", "create"} # {} \/ fileLen < FILE_SIZE)

(* What collect_samples says that its loop does.                           *)
AllSamplesCollected == <>(samples_collected = SAMPLE_SIZE)
==============================================================================
