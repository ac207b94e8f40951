------------------------- MODULE BenchPipelineProofs -------------------------
(***************************************************************************)
(* What holds of the threaded benchmark for every number of samples, every *)
(* input file and every choice of calls that fail.                         *)
(***************************************************************************)
EXTENDS BenchPipeline, FiniteSetTheorems, SequenceTheorems, TLAPS

(* The parts of TypeOK that are about main, the worker and the history.    *)
MainTypes ==
  /\ mpc \in MainPc
  /\ samples_collected \in 0 .. SAMPLE_SIZE
  /\ csv \in Seq(Sample) /\ csvOpen \in BOOLEAN
WorkerTypes ==
  /\ wpc \in WorkerPc
  /\ cipher \in Selected \cup {NULL}
  /\ i \in 0 .. SAMPLE_SIZE
  /\ fileLen \in FileLength
  /\ data \in [0 .. FILE_SIZE - 1 -> Nat \cup {NULL}] /\ readin \in 0 .. FILE_SIZE
HistoryTypes ==
  /\ lost \in SUBSET Sample
  /\ failures \in SUBSET MayFail
  /\ fate \in {"running", "exited", "undefined"}

(* Where the threads are in their calls of the mailboxes.                  *)
Calls ==
  /\ IF mpc = "sending" THEN wStage["main"] \in {"sending", "sent"}
                        ELSE wStage["main"] = "idle"
  /\ IF wpc = "receiving" THEN wStage["worker"] \in {"receiving", "received"}
                          ELSE wStage["worker"] = "idle"
  /\ IF mpc = "receiving" THEN rStage["main"] \in {"receiving", "received"}
                          ELSE rStage["main"] = "idle"
  /\ IF wpc = "sending" THEN rStage["worker"] \in {"sending", "sent"}
                        ELSE rStage["worker"] = "idle"
  /\ mpc = "sending" => wMsg["main"] = "work"
  /\ wpc = "sending" => rMsg["worker"] = i + 1
  /\ rStage["main"] = "received" \/ mpc = "write" => rMsg["main"] \in Sample

(* Where the loops end.                                                    *)
Loops ==
  /\ Destroying <=> samples_collected = SAMPLE_SIZE
  /\ wpc \in {"read", "measure", "sending"} => i < SAMPLE_SIZE

TypeInv == TypeOK /\ Calls /\ Loops

(* There is one piece of work: main has it, or workq, or the worker.       *)
HasWork == wStage["worker"] = "received" \/ wpc \in {"params", "read", "measure",
  "sending"} \/ i > 0
Unsent ==
  \/ mpc \in {"init_results", "init_workq", "create_thread", "create_csv", "send_work"}
  \/ wStage["main"] = "sending"
OneWork ==
  /\ Unsent => wItems = <<>> /\ ~HasWork
  /\ HasWork => wItems = <<>>
  /\ Len(wItems) <= 1
  /\ wStage["worker"] = "received" \/ wpc \in {"params", "read"} => i = 0
  /\ wpc = "none" => i = 0
  /\ wpc \in {"recv", "receiving"} => i \in {0, SAMPLE_SIZE}

(* Lost samples are among those sent, and all are accounted for.           *)
Counted ==
  /\ \A s \in lost : s <= SendsMade
  /\ SamplesConserved

(* The order in terms of the three places that samples are in.             *)
Ordered ==
  /\ \A j, k \in DOMAIN csv : j < k => csv[j] < csv[k]
  /\ \A j, k \in DOMAIN rItems : j < k => rItems[j] < rItems[k]
  /\ \A j \in DOMAIN csv, k \in DOMAIN rItems : csv[j] < rItems[k]
  /\ \A j \in DOMAIN csv : csv[j] <= SendsMade
  /\ \A k \in DOMAIN rItems : rItems[k] <= SendsMade
  /\ InHand # <<>> =>
       /\ rMsg["main"] <= SendsMade
       /\ \A j \in DOMAIN csv : csv[j] < rMsg["main"]
       /\ \A k \in DOMAIN rItems : rMsg["main"] < rItems[k]

(* As long as nothing was lost, samples are where their numbers say.       *)
Numbered ==
  lost = {} =>
    /\ InHand # <<>> => rMsg["main"] = samples_collected + 1
    /\ \A k \in DOMAIN rItems : rItems[k] = samples_collected + Len(InHand) + k
    /\ "csv" \notin failures => csv = [k \in 1 .. samples_collected |-> k]
CsvCreated ==
  mpc \notin {"init_results", "init_workq", "create_thread", "create_csv"} /\ "csv" \notin failures
    => csvOpen

(* The mailboxes that main uses are there unless their memory was not.     *)
Opened ==
  "init" \notin failures =>
    /\ mpc \notin {"init_results", "init_workq", "destroy_results", "return"} => wOpen
    /\ mpc \notin {"init_results", "return"} => rOpen
Created == mpc \in {"init_results", "init_workq", "create_thread"} => wpc = "none"

(* The part of the buffer that is read.                                    *)
Reading ==
  /\ wpc = "read" => \A k \in 0 .. readin - 1 : data[k] = k
  /\ wpc \in {"measure", "sending"} /\ "read" \notin failures =>
       data = [k \in 0 .. FILE_SIZE - 1 |-> k]

(* What is gone, and who is missing, was a failure.                        *)
Kept ==
  /\ lost # {} => "send" \in failures
  /\ "send" \notin failures /\ ~Unsent /\ ~Destroying => wItems # <<>> \/ HasWork
  /\ wpc = "none" =>
       "create" \in failures \/ mpc \in {"init_results", "init_workq", "create_thread"}

Exited == fate = "exited" => mpc = "return"

IInv ==
  /\ TypeInv /\ OneWork /\ Counted /\ Ordered /\ Numbered /\ CsvCreated
  /\ Opened /\ Created /\ Reading /\ Exited /\ UndefinedCauses /\ Kept

------------------------------------------------------------------------------
(* Type correctness *)

TypeParts ==
  /\ WorkQ!TypeOK /\ Results!TypeOK
  /\ MainTypes /\ WorkerTypes /\ HistoryTypes
  /\ Calls /\ Loops

LEMMA TypeInvParts == TypeInv <=> TypeParts
  BY DEF TypeInv, TypeOK, TypeParts, MainTypes, WorkerTypes, HistoryTypes

LEMMA WorkQStep == TypeParts /\ Next => WorkQ!TypeOK'
<1> SUFFICES ASSUME TypeParts, Next PROVE WorkQ!TypeOK'
  OBVIOUS
<1> USE SizeAssumption
<1>1. CASE InitResults
  BY <1>1 DEF InitResults, Main, Fails, Results!Open, workq, workerVars, results, TypeParts,
    WorkQ!TypeOK, Thread, Work, Calls, WorkQ!Succeeded, WorkQ!Failed
<1>2. CASE InitWorkq
  BY <1>2 DEF InitWorkq, Main, Fails, WorkQ!Open, results, workerVars, workq, TypeParts,
    WorkQ!TypeOK, Thread, Work, Calls, WorkQ!Succeeded, WorkQ!Failed
<1>3. CASE CreateThread
  BY <1>3 DEF CreateThread, Main, Worker, Fails, workq, results, TypeParts, WorkQ!TypeOK,
    Thread, Work, Calls, WorkQ!Succeeded, WorkQ!Failed
<1>4. CASE create_csv
  BY <1>4 DEF create_csv, Main, Fails, workq, results, workerVars, TypeParts, WorkQ!TypeOK,
    Thread, Work, Calls, WorkQ!Succeeded, WorkQ!Failed
<1>5. CASE SendWork
  BY <1>5 DEF SendWork, Main, WorkQ!CallSend, WorkQ!Move, Undefined, workq, results, mainVars,
    workerVars, TypeParts, WorkQ!TypeOK, Thread, Work, Calls, WorkQ!Succeeded, WorkQ!Failed
<1>6. CASE WorkSent
  <2>1. wMsg["main"] = "work" /\ "main" \in Thread
    BY <1>6 DEF TypeParts, Calls, WorkSent, Thread
  <2>2. Append(wItems, "work") \in Seq(Work)
    BY AppendProperties DEF TypeParts, WorkQ!TypeOK, Work
  <2> QED BY <1>6, <2>1, <2>2 DEF WorkSent, Fails, WorkQ!Send, WorkQ!SendFails, WorkQ!Return,
       WorkQ!Move, results, workerVars, TypeParts, WorkQ!TypeOK, WorkQ!Succeeded, WorkQ!Failed
<1>7. CASE ReceiveSample
  BY <1>7 DEF ReceiveSample, Main, Results!CallReceive, Results!Move, Undefined, workq,
    results, mainVars, workerVars, TypeParts, WorkQ!TypeOK, Thread, Work, Calls,
      WorkQ!Succeeded, WorkQ!Failed
<1>8. CASE SampleReceived
  BY <1>8 DEF SampleReceived, Results!Receive, Results!Return, Results!Move, workq, workerVars,
    TypeParts, WorkQ!TypeOK, Thread, Work, Calls, WorkQ!Succeeded, WorkQ!Failed
<1>9. CASE WriteSample
  BY <1>9 DEF WriteSample, Fails, CountSample, AfterSample, workq, results, workerVars,
    TypeParts, WorkQ!TypeOK, Thread, Work, Calls, WorkQ!Succeeded, WorkQ!Failed
<1>10. CASE DestroyWorkq
  <2>1. <<>> \in Seq(Work)
    OBVIOUS
  <2> QED BY <1>10, <2>1 DEF DestroyWorkq, TypeParts, WorkQ!TypeOK
<1>11. CASE DestroyResults
  BY <1>11 DEF DestroyResults, Main, FreeQueue, workq, workerVars, TypeParts, WorkQ!TypeOK,
    Thread, Work, Calls, WorkQ!Succeeded, WorkQ!Failed
<1>12. CASE ReturnFromMain
  BY <1>12 DEF ReturnFromMain, workq, results, mainVars, workerVars, TypeParts, WorkQ!TypeOK,
    Thread, Work, Calls, WorkQ!Succeeded, WorkQ!Failed
<1>13. CASE ReceiveWork
  BY <1>13 DEF ReceiveWork, Worker, WorkQ!CallReceive, WorkQ!Move, Undefined, workq, results,
    mainVars, workerVars, TypeParts, WorkQ!TypeOK, Thread, Work, Calls, WorkQ!Succeeded,
      WorkQ!Failed
<1>14. CASE WorkReceived
  <2>1. "worker" \in Thread
    BY DEF Thread
  <2>2. wItems # <<>> => Head(wItems) \in Work /\ Tail(wItems) \in Seq(Work)
    BY HeadTailProperties DEF TypeParts, WorkQ!TypeOK
  <2> QED BY <1>14, <2>1, <2>2, SMTT(60) DEF WorkReceived, WorkQ!Receive, WorkQ!Return, WorkQ!Move,
       results, mainVars, TypeParts, WorkQ!TypeOK
<1>15. CASE ReadFreedQueue
  BY <1>15 DEF ReadFreedQueue, Undefined, workq, results, mainVars, workerVars, TypeParts,
    WorkQ!TypeOK, Thread, Work, Calls, WorkQ!Succeeded, WorkQ!Failed
<1>16. CASE set_bench_params
  BY <1>16 DEF set_bench_params, Worker, workq, results, mainVars, TypeParts, WorkQ!TypeOK,
    Thread, Work, Calls, WorkQ!Succeeded, WorkQ!Failed
<1>17. CASE read_all
  BY <1>17 DEF read_all, Fails, workq, results, mainVars, TypeParts, WorkQ!TypeOK, Thread,
    Work, Calls, WorkQ!Succeeded, WorkQ!Failed
<1>18. CASE MeasureAndSend
  BY <1>18 DEF MeasureAndSend, Worker, Results!CallSend, Results!Move, Undefined, workq,
    results, mainVars, workerVars, TypeParts, WorkQ!TypeOK, Thread, Work, Calls,
      WorkQ!Succeeded, WorkQ!Failed
<1>19. CASE SampleSent
  BY <1>19 DEF SampleSent, Fails, Results!Send, Results!SendFails, Results!Return,
    Results!Move, AfterSend, workq, mainVars, TypeParts, WorkQ!TypeOK, Thread, Work, Calls,
      WorkQ!Succeeded, WorkQ!Failed
<1> QED BY <1>1, <1>2, <1>3, <1>4, <1>5, <1>6, <1>7, <1>8, <1>9, <1>10, <1>11, <1>12, <1>13,
     <1>14, <1>15, <1>16, <1>17, <1>18, <1>19 DEF Next, MainStep, WorkerStep

LEMMA ResultsStep == TypeParts /\ Next => Results!TypeOK'
<1> SUFFICES ASSUME TypeParts, Next PROVE Results!TypeOK'
  OBVIOUS
<1> USE SizeAssumption
<1>1. CASE InitResults
  BY <1>1 DEF InitResults, Main, Fails, Results!Open, workq, workerVars, results, TypeParts,
    Results!TypeOK, Thread, Calls, Loops, WorkerTypes, Sample, Results!Succeeded, Results!Failed
<1>2. CASE InitWorkq
  BY <1>2 DEF InitWorkq, Main, Fails, WorkQ!Open, results, workerVars, workq, TypeParts,
    Results!TypeOK, Thread, Calls, Loops, WorkerTypes, Sample, Results!Succeeded, Results!Failed
<1>3. CASE CreateThread
  BY <1>3 DEF CreateThread, Main, Worker, Fails, workq, results, TypeParts, Results!TypeOK,
    Thread, Calls, Loops, WorkerTypes, Sample, Results!Succeeded, Results!Failed
<1>4. CASE create_csv
  BY <1>4 DEF create_csv, Main, Fails, workq, results, workerVars, TypeParts, Results!TypeOK,
    Thread, Calls, Loops, WorkerTypes, Sample, Results!Succeeded, Results!Failed
<1>5. CASE SendWork
  BY <1>5 DEF SendWork, Main, WorkQ!CallSend, WorkQ!Move, Undefined, workq, results, mainVars,
    workerVars, TypeParts, Results!TypeOK, Thread, Calls, Loops, WorkerTypes, Sample,
      Results!Succeeded, Results!Failed
<1>6. CASE WorkSent
  BY <1>6 DEF WorkSent, Fails, WorkQ!Send, WorkQ!SendFails, WorkQ!Return, WorkQ!Move, results,
    workerVars, TypeParts, Results!TypeOK, Thread, Calls, Loops, WorkerTypes, Sample,
      Results!Succeeded, Results!Failed
<1>7. CASE ReceiveSample
  BY <1>7 DEF ReceiveSample, Main, Results!CallReceive, Results!Move, Undefined, workq,
    results, mainVars, workerVars, TypeParts, Results!TypeOK, Thread, Calls, Loops,
      WorkerTypes, Sample, Results!Succeeded, Results!Failed
<1>8. CASE SampleReceived
  <2>1. "main" \in Thread
    BY DEF Thread
  <2>2. rItems # <<>> => Head(rItems) \in Sample /\ Tail(rItems) \in Seq(Sample)
    BY HeadTailProperties DEF TypeParts, Results!TypeOK
  <2> QED BY <1>8, <2>1, <2>2, SMTT(60) DEF SampleReceived, Results!Receive, Results!Return,
       Results!Move, workq, workerVars, TypeParts, Results!TypeOK
<1>9. CASE WriteSample
  BY <1>9 DEF WriteSample, Fails, CountSample, AfterSample, workq, results, workerVars,
    TypeParts, Results!TypeOK, Thread, Calls, Loops, WorkerTypes, Sample, Results!Succeeded,
      Results!Failed
<1>10. CASE DestroyWorkq
  BY <1>10 DEF DestroyWorkq, Main, FreeQueue, results, workerVars, TypeParts, Results!TypeOK,
    Thread, Calls, Loops, WorkerTypes, Sample, Results!Succeeded, Results!Failed
<1>11. CASE DestroyResults
  <2>1. <<>> \in Seq(Sample)
    OBVIOUS
  <2> QED BY <1>11, <2>1 DEF DestroyResults, TypeParts, Results!TypeOK
<1>12. CASE ReturnFromMain
  BY <1>12 DEF ReturnFromMain, workq, results, mainVars, workerVars, TypeParts, Results!TypeOK,
    Thread, Calls, Loops, WorkerTypes, Sample, Results!Succeeded, Results!Failed
<1>13. CASE ReceiveWork
  BY <1>13 DEF ReceiveWork, Worker, WorkQ!CallReceive, WorkQ!Move, Undefined, workq, results,
    mainVars, workerVars, TypeParts, Results!TypeOK, Thread, Calls, Loops, WorkerTypes, Sample,
      Results!Succeeded, Results!Failed
<1>14. CASE WorkReceived
  BY <1>14 DEF WorkReceived, WorkQ!Receive, WorkQ!Return, WorkQ!Move, results, mainVars,
    TypeParts, Results!TypeOK, Thread, Calls, Loops, WorkerTypes, Sample, Results!Succeeded,
      Results!Failed
<1>15. CASE ReadFreedQueue
  BY <1>15 DEF ReadFreedQueue, Undefined, workq, results, mainVars, workerVars, TypeParts,
    Results!TypeOK, Thread, Calls, Loops, WorkerTypes, Sample, Results!Succeeded, Results!Failed
<1>16. CASE set_bench_params
  BY <1>16 DEF set_bench_params, Worker, workq, results, mainVars, TypeParts, Results!TypeOK,
    Thread, Calls, Loops, WorkerTypes, Sample, Results!Succeeded, Results!Failed
<1>17. CASE read_all
  BY <1>17 DEF read_all, Fails, workq, results, mainVars, TypeParts, Results!TypeOK, Thread,
    Calls, Loops, WorkerTypes, Sample, Results!Succeeded, Results!Failed
<1>18. CASE MeasureAndSend
  BY <1>18 DEF MeasureAndSend, Worker, Results!CallSend, Results!Move, Undefined, workq,
    results, mainVars, workerVars, TypeParts, Results!TypeOK, Thread, Calls, Loops,
      WorkerTypes, Sample, Results!Succeeded, Results!Failed
<1>19. CASE SampleSent
  <2>1. rMsg["worker"] \in Sample /\ "worker" \in Thread
    BY <1>19 DEF TypeParts, Calls, Loops, WorkerTypes, SampleSent, Thread, Sample
  <2>2. Append(rItems, rMsg["worker"]) \in Seq(Sample)
    BY <2>1, AppendProperties DEF TypeParts, Results!TypeOK
  <2> QED BY <1>19, <2>1, <2>2 DEF SampleSent, Fails, Results!Send, Results!SendFails,
       Results!Return, Results!Move, AfterSend, workq, mainVars, TypeParts, Results!TypeOK,
         Results!Succeeded, Results!Failed
<1> QED BY <1>1, <1>2, <1>3, <1>4, <1>5, <1>6, <1>7, <1>8, <1>9, <1>10, <1>11, <1>12, <1>13,
     <1>14, <1>15, <1>16, <1>17, <1>18, <1>19 DEF Next, MainStep, WorkerStep

LEMMA MainTypesStep == TypeParts /\ Next => MainTypes'
<1> SUFFICES ASSUME TypeParts, Next PROVE MainTypes'
  OBVIOUS
<1> USE SizeAssumption
<1>1. CASE InitResults
  BY <1>1 DEF InitResults, Main, Fails, Results!Open, workq, workerVars, results, TypeParts,
    MainTypes, MainPc, Calls, Loops, Destroying
<1>2. CASE InitWorkq
  BY <1>2 DEF InitWorkq, Main, Fails, WorkQ!Open, results, workerVars, workq, TypeParts,
    MainTypes, MainPc, Calls, Loops, Destroying
<1>3. CASE CreateThread
  BY <1>3 DEF CreateThread, Main, Worker, Fails, workq, results, TypeParts, MainTypes, MainPc,
    Calls, Loops, Destroying
<1>4. CASE create_csv
  BY <1>4 DEF create_csv, Main, Fails, workq, results, workerVars, TypeParts, MainTypes,
    MainPc, Calls, Loops, Destroying
<1>5. CASE SendWork
  BY <1>5 DEF SendWork, Main, WorkQ!CallSend, WorkQ!Move, Undefined, workq, results, mainVars,
    workerVars, TypeParts, MainTypes, MainPc, Calls, Loops, Destroying
<1>6. CASE WorkSent
  BY <1>6 DEF WorkSent, Fails, WorkQ!Send, WorkQ!SendFails, WorkQ!Return, WorkQ!Move, results,
    workerVars, TypeParts, MainTypes, MainPc, Calls, Loops, Destroying
<1>7. CASE ReceiveSample
  BY <1>7 DEF ReceiveSample, Main, Results!CallReceive, Results!Move, Undefined, workq,
    results, mainVars, workerVars, TypeParts, MainTypes, MainPc, Calls, Loops, Destroying
<1>8. CASE SampleReceived
  BY <1>8 DEF SampleReceived, Results!Receive, Results!Return, Results!Move, workq, workerVars,
    TypeParts, MainTypes, MainPc, Calls, Loops, Destroying
<1>9. CASE WriteSample
  BY <1>9 DEF WriteSample, Fails, CountSample, AfterSample, workq, results, workerVars,
    TypeParts, MainTypes, MainPc, Calls, Loops, Destroying
<1>10. CASE DestroyWorkq
  BY <1>10 DEF DestroyWorkq, Main, FreeQueue, results, workerVars, TypeParts, MainTypes,
    MainPc, Calls, Loops, Destroying
<1>11. CASE DestroyResults
  BY <1>11 DEF DestroyResults, Main, FreeQueue, workq, workerVars, TypeParts, MainTypes,
    MainPc, Calls, Loops, Destroying
<1>12. CASE ReturnFromMain
  BY <1>12 DEF ReturnFromMain, workq, results, mainVars, workerVars, TypeParts, MainTypes,
    MainPc, Calls, Loops, Destroying
<1>13. CASE ReceiveWork
  BY <1>13 DEF ReceiveWork, Worker, WorkQ!CallReceive, WorkQ!Move, Undefined, workq, results,
    mainVars, workerVars, TypeParts, MainTypes, MainPc, Calls, Loops, Destroying
<1>14. CASE WorkReceived
  BY <1>14 DEF WorkReceived, WorkQ!Receive, WorkQ!Return, WorkQ!Move, results, mainVars,
    TypeParts, MainTypes, MainPc, Calls, Loops, Destroying
<1>15. CASE ReadFreedQueue
  BY <1>15 DEF ReadFreedQueue, Undefined, workq, results, mainVars, workerVars, TypeParts,
    MainTypes, MainPc, Calls, Loops, Destroying
<1>16. CASE set_bench_params
  BY <1>16 DEF set_bench_params, Worker, workq, results, mainVars, TypeParts, MainTypes,
    MainPc, Calls, Loops, Destroying
<1>17. CASE read_all
  BY <1>17 DEF read_all, Fails, workq, results, mainVars, TypeParts, MainTypes, MainPc, Calls,
    Loops, Destroying
<1>18. CASE MeasureAndSend
  BY <1>18 DEF MeasureAndSend, Worker, Results!CallSend, Results!Move, Undefined, workq,
    results, mainVars, workerVars, TypeParts, MainTypes, MainPc, Calls, Loops, Destroying
<1>19. CASE SampleSent
  BY <1>19 DEF SampleSent, Fails, Results!Send, Results!SendFails, Results!Return,
    Results!Move, AfterSend, workq, mainVars, TypeParts, MainTypes, MainPc, Calls, Loops, Destroying
<1> QED BY <1>1, <1>2, <1>3, <1>4, <1>5, <1>6, <1>7, <1>8, <1>9, <1>10, <1>11, <1>12, <1>13,
     <1>14, <1>15, <1>16, <1>17, <1>18, <1>19 DEF Next, MainStep, WorkerStep

LEMMA WorkerTypesStep == TypeParts /\ Next => WorkerTypes'
<1> SUFFICES ASSUME TypeParts, Next PROVE WorkerTypes'
  OBVIOUS
<1> USE SizeAssumption
<1>1. CASE InitResults
  BY <1>1 DEF InitResults, Main, Fails, Results!Open, workq, workerVars, results, TypeParts,
    WorkerTypes, WorkerPc, Loops
<1>2. CASE InitWorkq
  BY <1>2 DEF InitWorkq, Main, Fails, WorkQ!Open, results, workerVars, workq, TypeParts,
    WorkerTypes, WorkerPc, Loops
<1>3. CASE CreateThread
  BY <1>3 DEF CreateThread, Main, Worker, Fails, workq, results, TypeParts, WorkerTypes,
    WorkerPc, Loops
<1>4. CASE create_csv
  BY <1>4 DEF create_csv, Main, Fails, workq, results, workerVars, TypeParts, WorkerTypes,
    WorkerPc, Loops
<1>5. CASE SendWork
  BY <1>5 DEF SendWork, Main, WorkQ!CallSend, WorkQ!Move, Undefined, workq, results, mainVars,
    workerVars, TypeParts, WorkerTypes, WorkerPc, Loops
<1>6. CASE WorkSent
  BY <1>6 DEF WorkSent, Fails, WorkQ!Send, WorkQ!SendFails, WorkQ!Return, WorkQ!Move, results,
    workerVars, TypeParts, WorkerTypes, WorkerPc, Loops
<1>7. CASE ReceiveSample
  BY <1>7 DEF ReceiveSample, Main, Results!CallReceive, Results!Move, Undefined, workq,
    results, mainVars, workerVars, TypeParts, WorkerTypes, WorkerPc, Loops
<1>8. CASE SampleReceived
  BY <1>8 DEF SampleReceived, Results!Receive, Results!Return, Results!Move, workq, workerVars,
    TypeParts, WorkerTypes, WorkerPc, Loops
<1>9. CASE WriteSample
  BY <1>9 DEF WriteSample, Fails, CountSample, AfterSample, workq, results, workerVars,
    TypeParts, WorkerTypes, WorkerPc, Loops
<1>10. CASE DestroyWorkq
  BY <1>10 DEF DestroyWorkq, Main, FreeQueue, results, workerVars, TypeParts, WorkerTypes,
    WorkerPc, Loops
<1>11. CASE DestroyResults
  BY <1>11 DEF DestroyResults, Main, FreeQueue, workq, workerVars, TypeParts, WorkerTypes,
    WorkerPc, Loops
<1>12. CASE ReturnFromMain
  BY <1>12 DEF ReturnFromMain, workq, results, mainVars, workerVars, TypeParts, WorkerTypes,
    WorkerPc, Loops
<1>13. CASE ReceiveWork
  BY <1>13 DEF ReceiveWork, Worker, WorkQ!CallReceive, WorkQ!Move, Undefined, workq, results,
    mainVars, workerVars, TypeParts, WorkerTypes, WorkerPc, Loops
<1>14. CASE WorkReceived
  BY <1>14 DEF WorkReceived, WorkQ!Receive, WorkQ!Return, WorkQ!Move, results, mainVars,
    TypeParts, WorkerTypes, WorkerPc, Loops
<1>15. CASE ReadFreedQueue
  BY <1>15 DEF ReadFreedQueue, Undefined, workq, results, mainVars, workerVars, TypeParts,
    WorkerTypes, WorkerPc, Loops
<1>16. CASE set_bench_params
  BY <1>16 DEF set_bench_params, Worker, workq, results, mainVars, TypeParts, WorkerTypes,
    WorkerPc, Loops
<1>17. CASE read_all
  BY <1>17 DEF read_all, Fails, workq, results, mainVars, TypeParts, WorkerTypes, WorkerPc, Loops
<1>18. CASE MeasureAndSend
  BY <1>18 DEF MeasureAndSend, Worker, Results!CallSend, Results!Move, Undefined, workq,
    results, mainVars, workerVars, TypeParts, WorkerTypes, WorkerPc, Loops
<1>19. CASE SampleSent
  BY <1>19 DEF SampleSent, Fails, Results!Send, Results!SendFails, Results!Return,
    Results!Move, AfterSend, workq, mainVars, TypeParts, WorkerTypes, WorkerPc, Loops
<1> QED BY <1>1, <1>2, <1>3, <1>4, <1>5, <1>6, <1>7, <1>8, <1>9, <1>10, <1>11, <1>12, <1>13,
     <1>14, <1>15, <1>16, <1>17, <1>18, <1>19 DEF Next, MainStep, WorkerStep

LEMMA HistoryTypesStep == TypeParts /\ Next => HistoryTypes'
<1> SUFFICES ASSUME TypeParts, Next PROVE HistoryTypes'
  OBVIOUS
<1> USE SizeAssumption
<1>1. CASE InitResults
  BY <1>1 DEF InitResults, Main, Fails, Results!Open, workq, workerVars, results, TypeParts,
    HistoryTypes, Calls, Loops, WorkerTypes, Sample
<1>2. CASE InitWorkq
  BY <1>2 DEF InitWorkq, Main, Fails, WorkQ!Open, results, workerVars, workq, TypeParts,
    HistoryTypes, Calls, Loops, WorkerTypes, Sample
<1>3. CASE CreateThread
  BY <1>3 DEF CreateThread, Main, Worker, Fails, workq, results, TypeParts, HistoryTypes,
    Calls, Loops, WorkerTypes, Sample
<1>4. CASE create_csv
  BY <1>4 DEF create_csv, Main, Fails, workq, results, workerVars, TypeParts, HistoryTypes,
    Calls, Loops, WorkerTypes, Sample
<1>5. CASE SendWork
  BY <1>5 DEF SendWork, Main, WorkQ!CallSend, WorkQ!Move, Undefined, workq, results, mainVars,
    workerVars, TypeParts, HistoryTypes, Calls, Loops, WorkerTypes, Sample
<1>6. CASE WorkSent
  BY <1>6 DEF WorkSent, Fails, WorkQ!Send, WorkQ!SendFails, WorkQ!Return, WorkQ!Move, results,
    workerVars, TypeParts, HistoryTypes, Calls, Loops, WorkerTypes, Sample
<1>7. CASE ReceiveSample
  BY <1>7 DEF ReceiveSample, Main, Results!CallReceive, Results!Move, Undefined, workq,
    results, mainVars, workerVars, TypeParts, HistoryTypes, Calls, Loops, WorkerTypes, Sample
<1>8. CASE SampleReceived
  BY <1>8 DEF SampleReceived, Results!Receive, Results!Return, Results!Move, workq, workerVars,
    TypeParts, HistoryTypes, Calls, Loops, WorkerTypes, Sample
<1>9. CASE WriteSample
  BY <1>9 DEF WriteSample, Fails, CountSample, AfterSample, workq, results, workerVars,
    TypeParts, HistoryTypes, Calls, Loops, WorkerTypes, Sample
<1>10. CASE DestroyWorkq
  BY <1>10 DEF DestroyWorkq, Main, FreeQueue, results, workerVars, TypeParts, HistoryTypes,
    Calls, Loops, WorkerTypes, Sample
<1>11. CASE DestroyResults
  BY <1>11 DEF DestroyResults, Main, FreeQueue, workq, workerVars, TypeParts, HistoryTypes,
    Calls, Loops, WorkerTypes, Sample
<1>12. CASE ReturnFromMain
  BY <1>12 DEF ReturnFromMain, workq, results, mainVars, workerVars, TypeParts, HistoryTypes,
    Calls, Loops, WorkerTypes, Sample
<1>13. CASE ReceiveWork
  BY <1>13 DEF ReceiveWork, Worker, WorkQ!CallReceive, WorkQ!Move, Undefined, workq, results,
    mainVars, workerVars, TypeParts, HistoryTypes, Calls, Loops, WorkerTypes, Sample
<1>14. CASE WorkReceived
  BY <1>14 DEF WorkReceived, WorkQ!Receive, WorkQ!Return, WorkQ!Move, results, mainVars,
    TypeParts, HistoryTypes, Calls, Loops, WorkerTypes, Sample
<1>15. CASE ReadFreedQueue
  BY <1>15 DEF ReadFreedQueue, Undefined, workq, results, mainVars, workerVars, TypeParts,
    HistoryTypes, Calls, Loops, WorkerTypes, Sample
<1>16. CASE set_bench_params
  BY <1>16 DEF set_bench_params, Worker, workq, results, mainVars, TypeParts, HistoryTypes,
    Calls, Loops, WorkerTypes, Sample
<1>17. CASE read_all
  BY <1>17 DEF read_all, Fails, workq, results, mainVars, TypeParts, HistoryTypes, Calls,
    Loops, WorkerTypes, Sample
<1>18. CASE MeasureAndSend
  BY <1>18 DEF MeasureAndSend, Worker, Results!CallSend, Results!Move, Undefined, workq,
    results, mainVars, workerVars, TypeParts, HistoryTypes, Calls, Loops, WorkerTypes, Sample
<1>19. CASE SampleSent
  <2>1. rMsg["worker"] \in Sample
    BY <1>19 DEF TypeParts, Calls, Loops, WorkerTypes, SampleSent, Sample
  <2> QED BY <1>19, <2>1 DEF SampleSent, Fails, Results!Send, Results!SendFails,
       Results!Return, Results!Move, AfterSend, workq, mainVars, TypeParts, HistoryTypes
<1> QED BY <1>1, <1>2, <1>3, <1>4, <1>5, <1>6, <1>7, <1>8, <1>9, <1>10, <1>11, <1>12, <1>13,
     <1>14, <1>15, <1>16, <1>17, <1>18, <1>19 DEF Next, MainStep, WorkerStep

LEMMA CallsStep == TypeParts /\ Next => Calls'
<1> SUFFICES ASSUME TypeParts, Next PROVE Calls'
  OBVIOUS
<1> USE SizeAssumption
<1>1. CASE InitResults
  BY <1>1 DEF InitResults, Main, Fails, Results!Open, workq, workerVars, results, TypeParts,
    Calls, MainTypes, WorkerTypes, MainPc, WorkerPc, WorkQ!TypeOK, Results!TypeOK, Thread
<1>2. CASE InitWorkq
  BY <1>2 DEF InitWorkq, Main, Fails, WorkQ!Open, results, workerVars, workq, TypeParts, Calls,
    MainTypes, WorkerTypes, MainPc, WorkerPc, WorkQ!TypeOK, Results!TypeOK, Thread
<1>3. CASE CreateThread
  BY <1>3 DEF CreateThread, Main, Worker, Fails, workq, results, TypeParts, Calls, MainTypes,
    WorkerTypes, MainPc, WorkerPc, WorkQ!TypeOK, Results!TypeOK, Thread
<1>4. CASE create_csv
  BY <1>4 DEF create_csv, Main, Fails, workq, results, workerVars, TypeParts, Calls, MainTypes,
    WorkerTypes, MainPc, WorkerPc, WorkQ!TypeOK, Results!TypeOK, Thread
<1>5. CASE SendWork
  BY <1>5 DEF SendWork, Main, WorkQ!CallSend, WorkQ!Move, Undefined, workq, results, mainVars,
    workerVars, TypeParts, Calls, MainTypes, WorkerTypes, MainPc, WorkerPc, WorkQ!TypeOK,
      Results!TypeOK, Thread
<1>6. CASE WorkSent
  BY <1>6 DEF WorkSent, Fails, WorkQ!Send, WorkQ!SendFails, WorkQ!Return, WorkQ!Move, results,
    workerVars, TypeParts, Calls, MainTypes, WorkerTypes, MainPc, WorkerPc, WorkQ!TypeOK,
      Results!TypeOK, Thread
<1>7. CASE ReceiveSample
  BY <1>7 DEF ReceiveSample, Main, Results!CallReceive, Results!Move, Undefined, workq,
    results, mainVars, workerVars, TypeParts, Calls, MainTypes, WorkerTypes, MainPc, WorkerPc,
      WorkQ!TypeOK, Results!TypeOK, Thread
<1>8. CASE SampleReceived
  BY <1>8 DEF SampleReceived, Results!Receive, Results!Return, Results!Move, workq, workerVars,
    TypeParts, Calls, MainTypes, WorkerTypes, MainPc, WorkerPc, WorkQ!TypeOK, Results!TypeOK, Thread
<1>9. CASE WriteSample
  BY <1>9 DEF WriteSample, Fails, CountSample, AfterSample, workq, results, workerVars,
    TypeParts, Calls, MainTypes, WorkerTypes, MainPc, WorkerPc, WorkQ!TypeOK, Results!TypeOK, Thread
<1>10. CASE DestroyWorkq
  BY <1>10 DEF DestroyWorkq, Main, FreeQueue, results, workerVars, TypeParts, Calls, MainTypes,
    WorkerTypes, MainPc, WorkerPc, WorkQ!TypeOK, Results!TypeOK, Thread
<1>11. CASE DestroyResults
  BY <1>11 DEF DestroyResults, Main, FreeQueue, workq, workerVars, TypeParts, Calls, MainTypes,
    WorkerTypes, MainPc, WorkerPc, WorkQ!TypeOK, Results!TypeOK, Thread
<1>12. CASE ReturnFromMain
  BY <1>12 DEF ReturnFromMain, workq, results, mainVars, workerVars, TypeParts, Calls,
    MainTypes, WorkerTypes, MainPc, WorkerPc, WorkQ!TypeOK, Results!TypeOK, Thread
<1>13. CASE ReceiveWork
  BY <1>13 DEF ReceiveWork, Worker, WorkQ!CallReceive, WorkQ!Move, Undefined, workq, results,
    mainVars, workerVars, TypeParts, Calls, MainTypes, WorkerTypes, MainPc, WorkerPc,
      WorkQ!TypeOK, Results!TypeOK, Thread
<1>14. CASE WorkReceived
  BY <1>14 DEF WorkReceived, WorkQ!Receive, WorkQ!Return, WorkQ!Move, results, mainVars,
    TypeParts, Calls, MainTypes, WorkerTypes, MainPc, WorkerPc, WorkQ!TypeOK, Results!TypeOK, Thread
<1>15. CASE ReadFreedQueue
  BY <1>15 DEF ReadFreedQueue, Undefined, workq, results, mainVars, workerVars, TypeParts,
    Calls, MainTypes, WorkerTypes, MainPc, WorkerPc, WorkQ!TypeOK, Results!TypeOK, Thread
<1>16. CASE set_bench_params
  BY <1>16 DEF set_bench_params, Worker, workq, results, mainVars, TypeParts, Calls, MainTypes,
    WorkerTypes, MainPc, WorkerPc, WorkQ!TypeOK, Results!TypeOK, Thread
<1>17. CASE read_all
  BY <1>17 DEF read_all, Fails, workq, results, mainVars, TypeParts, Calls, MainTypes,
    WorkerTypes, MainPc, WorkerPc, WorkQ!TypeOK, Results!TypeOK, Thread
<1>18. CASE MeasureAndSend
  BY <1>18 DEF MeasureAndSend, Worker, Results!CallSend, Results!Move, Undefined, workq,
    results, mainVars, workerVars, TypeParts, Calls, MainTypes, WorkerTypes, MainPc, WorkerPc,
      WorkQ!TypeOK, Results!TypeOK, Thread
<1>19. CASE SampleSent
  BY <1>19 DEF SampleSent, Fails, Results!Send, Results!SendFails, Results!Return,
    Results!Move, AfterSend, workq, mainVars, TypeParts, Calls, MainTypes, WorkerTypes, MainPc,
      WorkerPc, WorkQ!TypeOK, Results!TypeOK, Thread
<1> QED BY <1>1, <1>2, <1>3, <1>4, <1>5, <1>6, <1>7, <1>8, <1>9, <1>10, <1>11, <1>12, <1>13,
     <1>14, <1>15, <1>16, <1>17, <1>18, <1>19 DEF Next, MainStep, WorkerStep

LEMMA LoopsStep == TypeParts /\ Next => Loops'
<1> SUFFICES ASSUME TypeParts, Next PROVE Loops'
  OBVIOUS
<1> USE SizeAssumption
<1>1. CASE InitResults
  BY <1>1 DEF InitResults, Main, Fails, Results!Open, workq, workerVars, results, TypeParts,
    Loops, Destroying, MainTypes, WorkerTypes, MainPc, WorkerPc
<1>2. CASE InitWorkq
  BY <1>2 DEF InitWorkq, Main, Fails, WorkQ!Open, results, workerVars, workq, TypeParts, Loops,
    Destroying, MainTypes, WorkerTypes, MainPc, WorkerPc
<1>3. CASE CreateThread
  BY <1>3 DEF CreateThread, Main, Worker, Fails, workq, results, TypeParts, Loops, Destroying,
    MainTypes, WorkerTypes, MainPc, WorkerPc
<1>4. CASE create_csv
  BY <1>4 DEF create_csv, Main, Fails, workq, results, workerVars, TypeParts, Loops,
    Destroying, MainTypes, WorkerTypes, MainPc, WorkerPc
<1>5. CASE SendWork
  BY <1>5 DEF SendWork, Main, WorkQ!CallSend, WorkQ!Move, Undefined, workq, results, mainVars,
    workerVars, TypeParts, Loops, Destroying, MainTypes, WorkerTypes, MainPc, WorkerPc
<1>6. CASE WorkSent
  BY <1>6 DEF WorkSent, Fails, WorkQ!Send, WorkQ!SendFails, WorkQ!Return, WorkQ!Move, results,
    workerVars, TypeParts, Loops, Destroying, MainTypes, WorkerTypes, MainPc, WorkerPc
<1>7. CASE ReceiveSample
  BY <1>7 DEF ReceiveSample, Main, Results!CallReceive, Results!Move, Undefined, workq,
    results, mainVars, workerVars, TypeParts, Loops, Destroying, MainTypes, WorkerTypes,
      MainPc, WorkerPc
<1>8. CASE SampleReceived
  BY <1>8 DEF SampleReceived, Results!Receive, Results!Return, Results!Move, workq, workerVars,
    TypeParts, Loops, Destroying, MainTypes, WorkerTypes, MainPc, WorkerPc
<1>9. CASE WriteSample
  BY <1>9 DEF WriteSample, Fails, CountSample, AfterSample, workq, results, workerVars,
    TypeParts, Loops, Destroying, MainTypes, WorkerTypes, MainPc, WorkerPc
<1>10. CASE DestroyWorkq
  BY <1>10 DEF DestroyWorkq, Main, FreeQueue, results, workerVars, TypeParts, Loops,
    Destroying, MainTypes, WorkerTypes, MainPc, WorkerPc
<1>11. CASE DestroyResults
  BY <1>11 DEF DestroyResults, Main, FreeQueue, workq, workerVars, TypeParts, Loops,
    Destroying, MainTypes, WorkerTypes, MainPc, WorkerPc
<1>12. CASE ReturnFromMain
  BY <1>12 DEF ReturnFromMain, workq, results, mainVars, workerVars, TypeParts, Loops,
    Destroying, MainTypes, WorkerTypes, MainPc, WorkerPc
<1>13. CASE ReceiveWork
  BY <1>13 DEF ReceiveWork, Worker, WorkQ!CallReceive, WorkQ!Move, Undefined, workq, results,
    mainVars, workerVars, TypeParts, Loops, Destroying, MainTypes, WorkerTypes, MainPc, WorkerPc
<1>14. CASE WorkReceived
  BY <1>14 DEF WorkReceived, WorkQ!Receive, WorkQ!Return, WorkQ!Move, results, mainVars,
    TypeParts, Loops, Destroying, MainTypes, WorkerTypes, MainPc, WorkerPc
<1>15. CASE ReadFreedQueue
  BY <1>15 DEF ReadFreedQueue, Undefined, workq, results, mainVars, workerVars, TypeParts,
    Loops, Destroying, MainTypes, WorkerTypes, MainPc, WorkerPc
<1>16. CASE set_bench_params
  BY <1>16 DEF set_bench_params, Worker, workq, results, mainVars, TypeParts, Loops,
    Destroying, MainTypes, WorkerTypes, MainPc, WorkerPc
<1>17. CASE read_all
  BY <1>17 DEF read_all, Fails, workq, results, mainVars, TypeParts, Loops, Destroying,
    MainTypes, WorkerTypes, MainPc, WorkerPc
<1>18. CASE MeasureAndSend
  BY <1>18 DEF MeasureAndSend, Worker, Results!CallSend, Results!Move, Undefined, workq,
    results, mainVars, workerVars, TypeParts, Loops, Destroying, MainTypes, WorkerTypes,
      MainPc, WorkerPc
<1>19. CASE SampleSent
  BY <1>19 DEF SampleSent, Fails, Results!Send, Results!SendFails, Results!Return,
    Results!Move, AfterSend, workq, mainVars, TypeParts, Loops, Destroying, MainTypes,
      WorkerTypes, MainPc, WorkerPc
<1> QED BY <1>1, <1>2, <1>3, <1>4, <1>5, <1>6, <1>7, <1>8, <1>9, <1>10, <1>11, <1>12, <1>13,
     <1>14, <1>15, <1>16, <1>17, <1>18, <1>19 DEF Next, MainStep, WorkerStep

LEMMA TypeInit == Init => TypeInv
<1> SUFFICES ASSUME Init PROVE TypeParts
  BY TypeInvParts
<1> USE SizeAssumption DEF Init
<1>1. <<>> \in Seq(Work) /\ <<>> \in Seq(Sample)
  OBVIOUS
<1>2. WorkQ!TypeOK
  BY <1>1 DEF WorkQ!TypeOK, WorkQ!Init, Thread, WorkQ!Succeeded, WorkQ!Failed
<1>3. Results!TypeOK
  BY <1>1 DEF Results!TypeOK, Results!Init, Thread, Results!Succeeded, Results!Failed
<1>4. <<>> \in Seq(Sample)
  OBVIOUS
<1>4a. MainTypes
  <2>1. csv \in Seq(Sample)
    BY <1>4
  <2>2. csvOpen \in BOOLEAN
    OBVIOUS
  <2>3. mpc \in MainPc /\ samples_collected \in 0 .. SAMPLE_SIZE
    BY DEF MainPc
  <2> QED BY <2>1, <2>2, <2>3 DEF MainTypes
<1>4b. /\ data \in [0 .. FILE_SIZE - 1 -> Nat \cup {NULL}]
      /\ readin \in 0 .. FILE_SIZE
  OBVIOUS
<1>4c. WorkerTypes
  BY <1>4b DEF WorkerTypes, WorkerPc
<1>4d. HistoryTypes
  BY DEF HistoryTypes
<1>5. Calls /\ Loops
  BY DEF Calls, Loops, WorkQ!Init, Results!Init, Thread, Destroying
<1> QED BY <1>2, <1>3, <1>4a, <1>4c, <1>4d, <1>5 DEF TypeParts

LEMMA TypeStep == TypeInv /\ [Next]_vars => TypeInv'
<1> SUFFICES ASSUME TypeInv, [Next]_vars PROVE TypeParts'
  BY TypeInvParts, PTL
<1>1. TypeParts
  BY TypeInvParts
<1>2. CASE Next
  BY <1>1, <1>2, WorkQStep, ResultsStep, MainTypesStep, WorkerTypesStep,
     HistoryTypesStep, CallsStep, LoopsStep DEF TypeParts
<1>3. CASE UNCHANGED vars
  BY <1>1, <1>3 DEF TypeParts, WorkQ!TypeOK, Results!TypeOK, MainTypes, WorkerTypes,
     HistoryTypes, Calls, Loops, Destroying, vars, workq, results, mainVars, workerVars
<1> QED BY <1>2, <1>3

(* Type correctness, with the loop variables in their ranges, for any      *)
(* number of samples and whatever fails.                                   *)
THEOREM TypeCorrect == Spec => []TypeOK
<1>1. TypeInv => TypeOK
  BY DEF TypeInv
<1> QED BY <1>1, TypeInit, TypeStep, PTL DEF Spec

------------------------------------------------------------------------------
(* What the threads have of each other *)

LEMMA CreatedStep == TypeParts /\ Created /\ Next => Created'
<1> SUFFICES ASSUME TypeParts, Created, Next PROVE Created'
  OBVIOUS
<1> USE SizeAssumption
<1>1. CASE InitResults
  BY <1>1 DEF InitResults, Main, Fails, Results!Open, workq, workerVars, results, TypeParts,
    Created, MainTypes, Calls
<1>2. CASE InitWorkq
  BY <1>2 DEF InitWorkq, Main, Fails, WorkQ!Open, results, workerVars, workq, TypeParts,
    Created, MainTypes, Calls
<1>3. CASE CreateThread
  BY <1>3 DEF CreateThread, Main, Worker, Fails, workq, results, TypeParts, Created, MainTypes,
    Calls
<1>4. CASE create_csv
  BY <1>4 DEF create_csv, Main, Fails, workq, results, workerVars, TypeParts, Created,
    MainTypes, Calls
<1>5. CASE SendWork
  BY <1>5 DEF SendWork, Main, WorkQ!CallSend, WorkQ!Move, Undefined, workq, results, mainVars,
    workerVars, TypeParts, Created, MainTypes, Calls
<1>6. CASE WorkSent
  BY <1>6 DEF WorkSent, Fails, WorkQ!Send, WorkQ!SendFails, WorkQ!Return, WorkQ!Move, results,
    workerVars, TypeParts, Created, MainTypes, Calls
<1>7. CASE ReceiveSample
  BY <1>7 DEF ReceiveSample, Main, Results!CallReceive, Results!Move, Undefined, workq,
    results, mainVars, workerVars, TypeParts, Created, MainTypes, Calls
<1>8. CASE SampleReceived
  BY <1>8 DEF SampleReceived, Results!Receive, Results!Return, Results!Move, workq, workerVars,
    TypeParts, Created, MainTypes, Calls
<1>9. CASE WriteSample
  BY <1>9 DEF WriteSample, Fails, CountSample, AfterSample, workq, results, workerVars,
    TypeParts, Created, MainTypes, Calls
<1>10. CASE DestroyWorkq
  BY <1>10 DEF DestroyWorkq, Main, FreeQueue, results, workerVars, TypeParts, Created,
    MainTypes, Calls
<1>11. CASE DestroyResults
  BY <1>11 DEF DestroyResults, Main, FreeQueue, workq, workerVars, TypeParts, Created,
    MainTypes, Calls
<1>12. CASE ReturnFromMain
  BY <1>12 DEF ReturnFromMain, workq, results, mainVars, workerVars, TypeParts, Created,
    MainTypes, Calls
<1>13. CASE ReceiveWork
  BY <1>13 DEF ReceiveWork, Worker, WorkQ!CallReceive, WorkQ!Move, Undefined, workq, results,
    mainVars, workerVars, TypeParts, Created, MainTypes, Calls
<1>14. CASE WorkReceived
  BY <1>14 DEF WorkReceived, WorkQ!Receive, WorkQ!Return, WorkQ!Move, results, mainVars,
    TypeParts, Created, MainTypes, Calls
<1>15. CASE ReadFreedQueue
  BY <1>15 DEF ReadFreedQueue, Undefined, workq, results, mainVars, workerVars, TypeParts,
    Created, MainTypes, Calls
<1>16. CASE set_bench_params
  BY <1>16 DEF set_bench_params, Worker, workq, results, mainVars, TypeParts, Created,
    MainTypes, Calls
<1>17. CASE read_all
  BY <1>17 DEF read_all, Fails, workq, results, mainVars, TypeParts, Created, MainTypes, Calls
<1>18. CASE MeasureAndSend
  BY <1>18 DEF MeasureAndSend, Worker, Results!CallSend, Results!Move, Undefined, workq,
    results, mainVars, workerVars, TypeParts, Created, MainTypes, Calls
<1>19. CASE SampleSent
  BY <1>19 DEF SampleSent, Fails, Results!Send, Results!SendFails, Results!Return,
    Results!Move, AfterSend, workq, mainVars, TypeParts, Created, MainTypes, Calls
<1> QED BY <1>1, <1>2, <1>3, <1>4, <1>5, <1>6, <1>7, <1>8, <1>9, <1>10, <1>11, <1>12, <1>13,
     <1>14, <1>15, <1>16, <1>17, <1>18, <1>19 DEF Next, MainStep, WorkerStep

LEMMA CsvCreatedStep == TypeParts /\ CsvCreated /\ Next => CsvCreated'
<1> SUFFICES ASSUME TypeParts, CsvCreated, Next PROVE CsvCreated'
  OBVIOUS
<1> USE SizeAssumption
<1>1. CASE InitResults
  BY <1>1 DEF InitResults, Main, Fails, Results!Open, workq, workerVars, results, TypeParts,
    CsvCreated, MainTypes, Calls, Loops, Destroying
<1>2. CASE InitWorkq
  BY <1>2 DEF InitWorkq, Main, Fails, WorkQ!Open, results, workerVars, workq, TypeParts,
    CsvCreated, MainTypes, Calls, Loops, Destroying
<1>3. CASE CreateThread
  BY <1>3 DEF CreateThread, Main, Worker, Fails, workq, results, TypeParts, CsvCreated,
    MainTypes, Calls, Loops, Destroying
<1>4. CASE create_csv
  BY <1>4 DEF create_csv, Main, Fails, workq, results, workerVars, TypeParts, CsvCreated,
    MainTypes, Calls, Loops, Destroying
<1>5. CASE SendWork
  BY <1>5 DEF SendWork, Main, WorkQ!CallSend, WorkQ!Move, Undefined, workq, results, mainVars,
    workerVars, TypeParts, CsvCreated, MainTypes, Calls, Loops, Destroying
<1>6. CASE WorkSent
  BY <1>6 DEF WorkSent, Fails, WorkQ!Send, WorkQ!SendFails, WorkQ!Return, WorkQ!Move, results,
    workerVars, TypeParts, CsvCreated, MainTypes, Calls, Loops, Destroying
<1>7. CASE ReceiveSample
  BY <1>7 DEF ReceiveSample, Main, Results!CallReceive, Results!Move, Undefined, workq,
    results, mainVars, workerVars, TypeParts, CsvCreated, MainTypes, Calls, Loops, Destroying
<1>8. CASE SampleReceived
  BY <1>8 DEF SampleReceived, Results!Receive, Results!Return, Results!Move, workq, workerVars,
    TypeParts, CsvCreated, MainTypes, Calls, Loops, Destroying
<1>9. CASE WriteSample
  BY <1>9 DEF WriteSample, Fails, CountSample, AfterSample, workq, results, workerVars,
    TypeParts, CsvCreated, MainTypes, Calls, Loops, Destroying
<1>10. CASE DestroyWorkq
  BY <1>10 DEF DestroyWorkq, Main, FreeQueue, results, workerVars, TypeParts, CsvCreated,
    MainTypes, Calls, Loops, Destroying
<1>11. CASE DestroyResults
  BY <1>11 DEF DestroyResults, Main, FreeQueue, workq, workerVars, TypeParts, CsvCreated,
    MainTypes, Calls, Loops, Destroying
<1>12. CASE ReturnFromMain
  BY <1>12 DEF ReturnFromMain, workq, results, mainVars, workerVars, TypeParts, CsvCreated,
    MainTypes, Calls, Loops, Destroying
<1>13. CASE ReceiveWork
  BY <1>13 DEF ReceiveWork, Worker, WorkQ!CallReceive, WorkQ!Move, Undefined, workq, results,
    mainVars, workerVars, TypeParts, CsvCreated, MainTypes, Calls, Loops, Destroying
<1>14. CASE WorkReceived
  BY <1>14 DEF WorkReceived, WorkQ!Receive, WorkQ!Return, WorkQ!Move, results, mainVars,
    TypeParts, CsvCreated, MainTypes, Calls, Loops, Destroying
<1>15. CASE ReadFreedQueue
  BY <1>15 DEF ReadFreedQueue, Undefined, workq, results, mainVars, workerVars, TypeParts,
    CsvCreated, MainTypes, Calls, Loops, Destroying
<1>16. CASE set_bench_params
  BY <1>16 DEF set_bench_params, Worker, workq, results, mainVars, TypeParts, CsvCreated,
    MainTypes, Calls, Loops, Destroying
<1>17. CASE read_all
  BY <1>17 DEF read_all, Fails, workq, results, mainVars, TypeParts, CsvCreated, MainTypes,
    Calls, Loops, Destroying
<1>18. CASE MeasureAndSend
  BY <1>18 DEF MeasureAndSend, Worker, Results!CallSend, Results!Move, Undefined, workq,
    results, mainVars, workerVars, TypeParts, CsvCreated, MainTypes, Calls, Loops, Destroying
<1>19. CASE SampleSent
  BY <1>19 DEF SampleSent, Fails, Results!Send, Results!SendFails, Results!Return,
    Results!Move, AfterSend, workq, mainVars, TypeParts, CsvCreated, MainTypes, Calls, Loops,
      Destroying
<1> QED BY <1>1, <1>2, <1>3, <1>4, <1>5, <1>6, <1>7, <1>8, <1>9, <1>10, <1>11, <1>12, <1>13,
     <1>14, <1>15, <1>16, <1>17, <1>18, <1>19 DEF Next, MainStep, WorkerStep

LEMMA OpenedStep == TypeParts /\ Opened /\ Next => Opened'
<1> SUFFICES ASSUME TypeParts, Opened, Next PROVE Opened'
  OBVIOUS
<1> USE SizeAssumption
<1>1. CASE InitResults
  BY <1>1 DEF InitResults, Main, Fails, Results!Open, workq, workerVars, results, TypeParts,
    Opened, MainTypes, HistoryTypes, Calls, Loops, Destroying, WorkQ!TypeOK, Results!TypeOK
<1>2. CASE InitWorkq
  BY <1>2 DEF InitWorkq, Main, Fails, WorkQ!Open, results, workerVars, workq, TypeParts,
    Opened, MainTypes, HistoryTypes, Calls, Loops, Destroying, WorkQ!TypeOK, Results!TypeOK
<1>3. CASE CreateThread
  BY <1>3 DEF CreateThread, Main, Worker, Fails, workq, results, TypeParts, Opened, MainTypes,
    HistoryTypes, Calls, Loops, Destroying, WorkQ!TypeOK, Results!TypeOK
<1>4. CASE create_csv
  BY <1>4 DEF create_csv, Main, Fails, workq, results, workerVars, TypeParts, Opened,
    MainTypes, HistoryTypes, Calls, Loops, Destroying, WorkQ!TypeOK, Results!TypeOK
<1>5. CASE SendWork
  BY <1>5 DEF SendWork, Main, WorkQ!CallSend, WorkQ!Move, Undefined, workq, results, mainVars,
    workerVars, TypeParts, Opened, MainTypes, HistoryTypes, Calls, Loops, Destroying,
      WorkQ!TypeOK, Results!TypeOK
<1>6. CASE WorkSent
  BY <1>6 DEF WorkSent, Fails, WorkQ!Send, WorkQ!SendFails, WorkQ!Return, WorkQ!Move, results,
    workerVars, TypeParts, Opened, MainTypes, HistoryTypes, Calls, Loops, Destroying,
      WorkQ!TypeOK, Results!TypeOK
<1>7. CASE ReceiveSample
  BY <1>7 DEF ReceiveSample, Main, Results!CallReceive, Results!Move, Undefined, workq,
    results, mainVars, workerVars, TypeParts, Opened, MainTypes, HistoryTypes, Calls, Loops,
      Destroying, WorkQ!TypeOK, Results!TypeOK
<1>8. CASE SampleReceived
  BY <1>8 DEF SampleReceived, Results!Receive, Results!Return, Results!Move, workq, workerVars,
    TypeParts, Opened, MainTypes, HistoryTypes, Calls, Loops, Destroying, WorkQ!TypeOK,
      Results!TypeOK
<1>9. CASE WriteSample
  BY <1>9 DEF WriteSample, Fails, CountSample, AfterSample, workq, results, workerVars,
    TypeParts, Opened, MainTypes, HistoryTypes, Calls, Loops, Destroying, WorkQ!TypeOK,
      Results!TypeOK
<1>10. CASE DestroyWorkq
  BY <1>10 DEF DestroyWorkq, Main, FreeQueue, results, workerVars, TypeParts, Opened,
    MainTypes, HistoryTypes, Calls, Loops, Destroying, WorkQ!TypeOK, Results!TypeOK
<1>11. CASE DestroyResults
  BY <1>11 DEF DestroyResults, Main, FreeQueue, workq, workerVars, TypeParts, Opened,
    MainTypes, HistoryTypes, Calls, Loops, Destroying, WorkQ!TypeOK, Results!TypeOK
<1>12. CASE ReturnFromMain
  BY <1>12 DEF ReturnFromMain, workq, results, mainVars, workerVars, TypeParts, Opened,
    MainTypes, HistoryTypes, Calls, Loops, Destroying, WorkQ!TypeOK, Results!TypeOK
<1>13. CASE ReceiveWork
  BY <1>13 DEF ReceiveWork, Worker, WorkQ!CallReceive, WorkQ!Move, Undefined, workq, results,
    mainVars, workerVars, TypeParts, Opened, MainTypes, HistoryTypes, Calls, Loops, Destroying,
      WorkQ!TypeOK, Results!TypeOK
<1>14. CASE WorkReceived
  BY <1>14 DEF WorkReceived, WorkQ!Receive, WorkQ!Return, WorkQ!Move, results, mainVars,
    TypeParts, Opened, MainTypes, HistoryTypes, Calls, Loops, Destroying, WorkQ!TypeOK,
      Results!TypeOK
<1>15. CASE ReadFreedQueue
  BY <1>15 DEF ReadFreedQueue, Undefined, workq, results, mainVars, workerVars, TypeParts,
    Opened, MainTypes, HistoryTypes, Calls, Loops, Destroying, WorkQ!TypeOK, Results!TypeOK
<1>16. CASE set_bench_params
  BY <1>16 DEF set_bench_params, Worker, workq, results, mainVars, TypeParts, Opened,
    MainTypes, HistoryTypes, Calls, Loops, Destroying, WorkQ!TypeOK, Results!TypeOK
<1>17. CASE read_all
  BY <1>17 DEF read_all, Fails, workq, results, mainVars, TypeParts, Opened, MainTypes,
    HistoryTypes, Calls, Loops, Destroying, WorkQ!TypeOK, Results!TypeOK
<1>18. CASE MeasureAndSend
  BY <1>18 DEF MeasureAndSend, Worker, Results!CallSend, Results!Move, Undefined, workq,
    results, mainVars, workerVars, TypeParts, Opened, MainTypes, HistoryTypes, Calls, Loops,
      Destroying, WorkQ!TypeOK, Results!TypeOK
<1>19. CASE SampleSent
  BY <1>19 DEF SampleSent, Fails, Results!Send, Results!SendFails, Results!Return,
    Results!Move, AfterSend, workq, mainVars, TypeParts, Opened, MainTypes, HistoryTypes,
      Calls, Loops, Destroying, WorkQ!TypeOK, Results!TypeOK
<1> QED BY <1>1, <1>2, <1>3, <1>4, <1>5, <1>6, <1>7, <1>8, <1>9, <1>10, <1>11, <1>12, <1>13,
     <1>14, <1>15, <1>16, <1>17, <1>18, <1>19 DEF Next, MainStep, WorkerStep

LEMMA OneWorkStep == TypeParts /\ Created /\ OneWork /\ Next => OneWork'
<1> SUFFICES ASSUME TypeParts, Created, OneWork, Next PROVE OneWork'
  OBVIOUS
<1> USE SizeAssumption
<1>1. CASE InitResults
  BY <1>1 DEF InitResults, Main, Fails, Results!Open, workq, workerVars, results, TypeParts,
    WorkQ!TypeOK, Results!TypeOK, MainTypes, WorkerTypes, HistoryTypes, Calls, Loops,
      Destroying, MainPc, WorkerPc, Thread, Created, OneWork, HasWork, Unsent
<1>2. CASE InitWorkq
  BY <1>2 DEF InitWorkq, Main, Fails, WorkQ!Open, results, workerVars, workq, TypeParts,
    WorkQ!TypeOK, Results!TypeOK, MainTypes, WorkerTypes, HistoryTypes, Calls, Loops,
      Destroying, MainPc, WorkerPc, Thread, Created, OneWork, HasWork, Unsent
<1>3. CASE CreateThread
  BY <1>3 DEF CreateThread, Main, Worker, Fails, workq, results, TypeParts, WorkQ!TypeOK,
    Results!TypeOK, MainTypes, WorkerTypes, HistoryTypes, Calls, Loops, Destroying, MainPc,
      WorkerPc, Thread, Created, OneWork, HasWork, Unsent
<1>4. CASE create_csv
  BY <1>4 DEF create_csv, Main, Fails, workq, results, workerVars, TypeParts, WorkQ!TypeOK,
    Results!TypeOK, MainTypes, WorkerTypes, HistoryTypes, Calls, Loops, Destroying, MainPc,
      WorkerPc, Thread, Created, OneWork, HasWork, Unsent
<1>5. CASE SendWork
  BY <1>5 DEF SendWork, Main, WorkQ!CallSend, WorkQ!Move, Undefined, workq, results, mainVars,
    workerVars, TypeParts, WorkQ!TypeOK, Results!TypeOK, MainTypes, WorkerTypes, HistoryTypes,
      Calls, Loops, Destroying, MainPc, WorkerPc, Thread, Created, OneWork, HasWork, Unsent
<1>6. CASE WorkSent
  BY <1>6 DEF WorkSent, Fails, WorkQ!Send, WorkQ!SendFails, WorkQ!Return, WorkQ!Move, results,
    workerVars, TypeParts, WorkQ!TypeOK, Results!TypeOK, MainTypes, WorkerTypes, HistoryTypes,
      Calls, Loops, Destroying, MainPc, WorkerPc, Thread, Created, OneWork, HasWork, Unsent
<1>7. CASE ReceiveSample
  BY <1>7 DEF ReceiveSample, Main, Results!CallReceive, Results!Move, Undefined, workq,
    results, mainVars, workerVars, TypeParts, WorkQ!TypeOK, Results!TypeOK, MainTypes,
      WorkerTypes, HistoryTypes, Calls, Loops, Destroying, MainPc, WorkerPc, Thread, Created,
        OneWork, HasWork, Unsent
<1>8. CASE SampleReceived
  BY <1>8 DEF SampleReceived, Results!Receive, Results!Return, Results!Move, workq, workerVars,
    TypeParts, WorkQ!TypeOK, Results!TypeOK, MainTypes, WorkerTypes, HistoryTypes, Calls,
      Loops, Destroying, MainPc, WorkerPc, Thread, Created, OneWork, HasWork, Unsent
<1>9. CASE WriteSample
  BY <1>9 DEF WriteSample, Fails, CountSample, AfterSample, workq, results, workerVars,
    TypeParts, WorkQ!TypeOK, Results!TypeOK, MainTypes, WorkerTypes, HistoryTypes, Calls,
      Loops, Destroying, MainPc, WorkerPc, Thread, Created, OneWork, HasWork, Unsent
<1>10. CASE DestroyWorkq
  BY <1>10 DEF DestroyWorkq, Main, FreeQueue, results, workerVars, TypeParts, WorkQ!TypeOK,
    Results!TypeOK, MainTypes, WorkerTypes, HistoryTypes, Calls, Loops, Destroying, MainPc,
      WorkerPc, Thread, Created, OneWork, HasWork, Unsent
<1>11. CASE DestroyResults
  BY <1>11 DEF DestroyResults, Main, FreeQueue, workq, workerVars, TypeParts, WorkQ!TypeOK,
    Results!TypeOK, MainTypes, WorkerTypes, HistoryTypes, Calls, Loops, Destroying, MainPc,
      WorkerPc, Thread, Created, OneWork, HasWork, Unsent
<1>12. CASE ReturnFromMain
  BY <1>12 DEF ReturnFromMain, workq, results, mainVars, workerVars, TypeParts, WorkQ!TypeOK,
    Results!TypeOK, MainTypes, WorkerTypes, HistoryTypes, Calls, Loops, Destroying, MainPc,
      WorkerPc, Thread, Created, OneWork, HasWork, Unsent
<1>13. CASE ReceiveWork
  BY <1>13 DEF ReceiveWork, Worker, WorkQ!CallReceive, WorkQ!Move, Undefined, workq, results,
    mainVars, workerVars, TypeParts, WorkQ!TypeOK, Results!TypeOK, MainTypes, WorkerTypes,
      HistoryTypes, Calls, Loops, Destroying, MainPc, WorkerPc, Thread, Created, OneWork,
        HasWork, Unsent
<1>14. CASE WorkReceived
  BY <1>14 DEF WorkReceived, WorkQ!Receive, WorkQ!Return, WorkQ!Move, results, mainVars,
    TypeParts, WorkQ!TypeOK, Results!TypeOK, MainTypes, WorkerTypes, HistoryTypes, Calls,
      Loops, Destroying, MainPc, WorkerPc, Thread, Created, OneWork, HasWork, Unsent
<1>15. CASE ReadFreedQueue
  BY <1>15 DEF ReadFreedQueue, Undefined, workq, results, mainVars, workerVars, TypeParts,
    WorkQ!TypeOK, Results!TypeOK, MainTypes, WorkerTypes, HistoryTypes, Calls, Loops,
      Destroying, MainPc, WorkerPc, Thread, Created, OneWork, HasWork, Unsent
<1>16. CASE set_bench_params
  BY <1>16 DEF set_bench_params, Worker, workq, results, mainVars, TypeParts, WorkQ!TypeOK,
    Results!TypeOK, MainTypes, WorkerTypes, HistoryTypes, Calls, Loops, Destroying, MainPc,
      WorkerPc, Thread, Created, OneWork, HasWork, Unsent
<1>17. CASE read_all
  BY <1>17 DEF read_all, Fails, workq, results, mainVars, TypeParts, WorkQ!TypeOK,
    Results!TypeOK, MainTypes, WorkerTypes, HistoryTypes, Calls, Loops, Destroying, MainPc,
      WorkerPc, Thread, Created, OneWork, HasWork, Unsent
<1>18. CASE MeasureAndSend
  BY <1>18 DEF MeasureAndSend, Worker, Results!CallSend, Results!Move, Undefined, workq,
    results, mainVars, workerVars, TypeParts, WorkQ!TypeOK, Results!TypeOK, MainTypes,
      WorkerTypes, HistoryTypes, Calls, Loops, Destroying, MainPc, WorkerPc, Thread, Created,
        OneWork, HasWork, Unsent
<1>19. CASE SampleSent
  BY <1>19 DEF SampleSent, Fails, Results!Send, Results!SendFails, Results!Return,
    Results!Move, AfterSend, workq, mainVars, TypeParts, WorkQ!TypeOK, Results!TypeOK,
      MainTypes, WorkerTypes, HistoryTypes, Calls, Loops, Destroying, MainPc, WorkerPc, Thread,
        Created, OneWork, HasWork, Unsent
<1> QED BY <1>1, <1>2, <1>3, <1>4, <1>5, <1>6, <1>7, <1>8, <1>9, <1>10, <1>11, <1>12, <1>13,
     <1>14, <1>15, <1>16, <1>17, <1>18, <1>19 DEF Next, MainStep, WorkerStep

LEMMA ReadingStep == TypeParts /\ Reading /\ Next => Reading'
<1> SUFFICES ASSUME TypeParts, Reading, Next PROVE Reading'
  OBVIOUS
<1> USE SizeAssumption
<1>1. CASE InitResults
  BY <1>1 DEF InitResults, Main, Fails, Results!Open, workq, workerVars, results, TypeParts,
    WorkerTypes, HistoryTypes, Calls, Reading
<1>2. CASE InitWorkq
  BY <1>2 DEF InitWorkq, Main, Fails, WorkQ!Open, results, workerVars, workq, TypeParts,
    WorkerTypes, HistoryTypes, Calls, Reading
<1>3. CASE CreateThread
  BY <1>3 DEF CreateThread, Main, Worker, Fails, workq, results, TypeParts, WorkerTypes,
    HistoryTypes, Calls, Reading
<1>4. CASE create_csv
  BY <1>4 DEF create_csv, Main, Fails, workq, results, workerVars, TypeParts, WorkerTypes,
    HistoryTypes, Calls, Reading
<1>5. CASE SendWork
  BY <1>5 DEF SendWork, Main, WorkQ!CallSend, WorkQ!Move, Undefined, workq, results, mainVars,
    workerVars, TypeParts, WorkerTypes, HistoryTypes, Calls, Reading
<1>6. CASE WorkSent
  BY <1>6 DEF WorkSent, Fails, WorkQ!Send, WorkQ!SendFails, WorkQ!Return, WorkQ!Move, results,
    workerVars, TypeParts, WorkerTypes, HistoryTypes, Calls, Reading
<1>7. CASE ReceiveSample
  BY <1>7 DEF ReceiveSample, Main, Results!CallReceive, Results!Move, Undefined, workq,
    results, mainVars, workerVars, TypeParts, WorkerTypes, HistoryTypes, Calls, Reading
<1>8. CASE SampleReceived
  BY <1>8 DEF SampleReceived, Results!Receive, Results!Return, Results!Move, workq, workerVars,
    TypeParts, WorkerTypes, HistoryTypes, Calls, Reading
<1>9. CASE WriteSample
  BY <1>9 DEF WriteSample, Fails, CountSample, AfterSample, workq, results, workerVars,
    TypeParts, WorkerTypes, HistoryTypes, Calls, Reading
<1>10. CASE DestroyWorkq
  BY <1>10 DEF DestroyWorkq, Main, FreeQueue, results, workerVars, TypeParts, WorkerTypes,
    HistoryTypes, Calls, Reading
<1>11. CASE DestroyResults
  BY <1>11 DEF DestroyResults, Main, FreeQueue, workq, workerVars, TypeParts, WorkerTypes,
    HistoryTypes, Calls, Reading
<1>12. CASE ReturnFromMain
  BY <1>12 DEF ReturnFromMain, workq, results, mainVars, workerVars, TypeParts, WorkerTypes,
    HistoryTypes, Calls, Reading
<1>13. CASE ReceiveWork
  BY <1>13 DEF ReceiveWork, Worker, WorkQ!CallReceive, WorkQ!Move, Undefined, workq, results,
    mainVars, workerVars, TypeParts, WorkerTypes, HistoryTypes, Calls, Reading
<1>14. CASE WorkReceived
  BY <1>14 DEF WorkReceived, WorkQ!Receive, WorkQ!Return, WorkQ!Move, results, mainVars,
    TypeParts, WorkerTypes, HistoryTypes, Calls, Reading
<1>15. CASE ReadFreedQueue
  BY <1>15 DEF ReadFreedQueue, Undefined, workq, results, mainVars, workerVars, TypeParts,
    WorkerTypes, HistoryTypes, Calls, Reading
<1>16. CASE set_bench_params
  BY <1>16 DEF set_bench_params, Worker, workq, results, mainVars, TypeParts, WorkerTypes,
    HistoryTypes, Calls, Reading
<1>17. CASE read_all
  BY <1>17 DEF read_all, Fails, workq, results, mainVars, TypeParts, WorkerTypes, HistoryTypes,
    Calls, Reading
<1>18. CASE MeasureAndSend
  BY <1>18 DEF MeasureAndSend, Worker, Results!CallSend, Results!Move, Undefined, workq,
    results, mainVars, workerVars, TypeParts, WorkerTypes, HistoryTypes, Calls, Reading
<1>19. CASE SampleSent
  BY <1>19 DEF SampleSent, Fails, Results!Send, Results!SendFails, Results!Return,
    Results!Move, AfterSend, workq, mainVars, TypeParts, WorkerTypes, HistoryTypes, Calls, Reading
<1> QED BY <1>1, <1>2, <1>3, <1>4, <1>5, <1>6, <1>7, <1>8, <1>9, <1>10, <1>11, <1>12, <1>13,
     <1>14, <1>15, <1>16, <1>17, <1>18, <1>19 DEF Next, MainStep, WorkerStep

------------------------------------------------------------------------------
(* The samples *)

LEMMA LostFinite == ASSUME HistoryTypes PROVE IsFiniteSet(lost) /\ Cardinality(lost) \in Nat
<1>1. IsFiniteSet(1 .. SAMPLE_SIZE)
  BY SizeAssumption, FS_Interval
<1> QED BY <1>1, FS_Subset, FS_CardinalityType DEF HistoryTypes, Sample

LEMMA CountedLeaves == TypeParts /\ Created /\ OneWork /\ Counted => OnlyWaitingWorkerLeft
<1> SUFFICES ASSUME TypeParts, Created, OneWork, Counted, Destroying PROVE OnlyWaitingWorkerLeft
  BY DEF OnlyWaitingWorkerLeft
<1> USE SizeAssumption
<1>1. IsFiniteSet(lost) /\ Cardinality(lost) \in Nat
  BY LostFinite DEF TypeParts
<1>2. samples_collected = SAMPLE_SIZE /\ i \in 0 .. SAMPLE_SIZE
  BY DEF TypeParts, Loops, WorkerTypes
<1>3. Len(InHand) \in Nat /\ Len(rItems) \in Nat
  BY DEF InHand, TypeParts, Results!TypeOK
<1>4. SendsMade \in 0 .. SAMPLE_SIZE
  BY <1>2 DEF SendsMade, TypeParts, Calls, Loops
<1>5. SendsMade = SAMPLE_SIZE /\ Len(rItems) = 0 /\ Cardinality(lost) = 0
  BY <1>1, <1>2, <1>3, <1>4 DEF Counted, SamplesConserved
<1>6. rItems = <<>>
  BY <1>5 DEF TypeParts, Results!TypeOK
<1>7. lost = {}
  BY <1>1, <1>5, FS_EmptySet
<1>8. i > 0 \/ wpc = "sending"
  BY <1>5, <1>2 DEF SendsMade, TypeParts, Calls
<1>9. wItems = <<>>
  BY <1>8 DEF OneWork, HasWork
<1>10. wpc = "sending" /\ rStage["worker"] = "sent" => i + 1 = SAMPLE_SIZE
  BY <1>5, <1>2 DEF SendsMade
<1>11. ~(wpc = "sending" /\ rStage["worker"] = "sent") => i = SAMPLE_SIZE
  BY <1>5, <1>2 DEF SendsMade, TypeParts, Calls
<1>12. wpc \in {"recv", "receiving"} \/ (wpc = "sending" /\ rStage["worker"] = "sent")
  BY <1>11, <1>2 DEF TypeParts, WorkerTypes, WorkerPc, Loops, OneWork
<1> QED BY <1>6, <1>7, <1>9, <1>10, <1>12 DEF OnlyWaitingWorkerLeft

LEMMA CountedStep == TypeParts /\ Created /\ OneWork /\ Counted /\ Next => Counted'
<1> SUFFICES ASSUME TypeParts, Created, OneWork, Counted, Next PROVE Counted'
  OBVIOUS
<1> USE SizeAssumption
<1>1. CASE InitResults
  BY <1>1 DEF InitResults, Main, Fails, Results!Open, workq, workerVars, results, TypeParts,
    WorkQ!TypeOK, Results!TypeOK, MainTypes, WorkerTypes, HistoryTypes, Calls, Loops,
      Destroying, MainPc, WorkerPc, Thread, Counted, SamplesConserved, SendsMade, InHand, Sample
<1>2. CASE InitWorkq
  BY <1>2 DEF InitWorkq, Main, Fails, WorkQ!Open, results, workerVars, workq, TypeParts,
    WorkQ!TypeOK, Results!TypeOK, MainTypes, WorkerTypes, HistoryTypes, Calls, Loops,
      Destroying, MainPc, WorkerPc, Thread, Counted, SamplesConserved, SendsMade, InHand, Sample
<1>3. CASE CreateThread
  BY <1>3 DEF CreateThread, Main, Worker, Fails, workq, results, TypeParts, WorkQ!TypeOK,
    Results!TypeOK, MainTypes, WorkerTypes, HistoryTypes, Calls, Loops, Destroying, MainPc,
      WorkerPc, Thread, Counted, SamplesConserved, SendsMade, InHand, Sample
<1>4. CASE create_csv
  BY <1>4 DEF create_csv, Main, Fails, workq, results, workerVars, TypeParts, WorkQ!TypeOK,
    Results!TypeOK, MainTypes, WorkerTypes, HistoryTypes, Calls, Loops, Destroying, MainPc,
      WorkerPc, Thread, Counted, SamplesConserved, SendsMade, InHand, Sample
<1>5. CASE SendWork
  BY <1>5 DEF SendWork, Main, WorkQ!CallSend, WorkQ!Move, Undefined, workq, results, mainVars,
    workerVars, TypeParts, WorkQ!TypeOK, Results!TypeOK, MainTypes, WorkerTypes, HistoryTypes,
      Calls, Loops, Destroying, MainPc, WorkerPc, Thread, Counted, SamplesConserved, SendsMade,
        InHand, Sample
<1>6. CASE WorkSent
  BY <1>6 DEF WorkSent, Fails, WorkQ!Send, WorkQ!SendFails, WorkQ!Return, WorkQ!Move, results,
    workerVars, TypeParts, WorkQ!TypeOK, Results!TypeOK, MainTypes, WorkerTypes, HistoryTypes,
      Calls, Loops, Destroying, MainPc, WorkerPc, Thread, Counted, SamplesConserved, SendsMade,
        InHand, Sample
<1>7. CASE ReceiveSample
  BY <1>7 DEF ReceiveSample, Main, Results!CallReceive, Results!Move, Undefined, workq,
    results, mainVars, workerVars, TypeParts, WorkQ!TypeOK, Results!TypeOK, MainTypes,
      WorkerTypes, HistoryTypes, Calls, Loops, Destroying, MainPc, WorkerPc, Thread, Counted,
        SamplesConserved, SendsMade, InHand, Sample
<1>8. CASE SampleReceived
  <2>1. rItems # <<>> => Len(Tail(rItems)) = Len(rItems) - 1 /\ Len(rItems) \in Nat
    BY HeadTailProperties DEF TypeParts, Results!TypeOK
  <2>2. CASE Results!Receive("main")
    <3>1. Len(InHand) = 0 /\ Len(InHand') = 1 /\ SendsMade' = SendsMade
      BY <1>8, <2>2 DEF SampleReceived, Results!Receive, Results!Return, Results!Move, workq,
        workerVars, TypeParts, Results!TypeOK, Thread, Calls, InHand, SendsMade
    <3>2. /\ samples_collected' = samples_collected /\ lost' = lost
          /\ rItems' = Tail(rItems) /\ rItems # <<>>
      BY <1>8, <2>2 DEF SampleReceived, Results!Receive, Results!Return, Results!Move, workq,
        workerVars
    <3>3. Cardinality(lost) \in Nat /\ samples_collected \in Nat
      BY LostFinite DEF TypeParts, MainTypes
    <3>4. SamplesConserved'
      BY <2>1, <3>1, <3>2, <3>3 DEF Counted, SamplesConserved
    <3> QED BY <3>1, <3>2, <3>4 DEF Counted
  <2>3. CASE Results!Return("main")
    BY <1>8, <2>3 DEF SampleReceived, Results!Receive, Results!Return, Results!Move, workq,
      workerVars, TypeParts, WorkQ!TypeOK, Results!TypeOK, MainTypes, WorkerTypes,
        HistoryTypes, Calls, Loops, Destroying, MainPc, WorkerPc, Thread, Counted,
          SamplesConserved, SendsMade, InHand, Sample
  <2> QED BY <1>8, <2>2, <2>3 DEF SampleReceived
<1>9. CASE WriteSample
  <2>1. Len(InHand) = 1 /\ Len(InHand') = 0 /\ SendsMade' = SendsMade
    BY <1>9 DEF WriteSample, Fails, CountSample, AfterSample, workq, results, workerVars,
      TypeParts, Calls, InHand, SendsMade
  <2>2. samples_collected' = samples_collected + 1 /\ lost' = lost /\ rItems' = rItems
    BY <1>9 DEF WriteSample, Fails, CountSample, AfterSample, workq, results, workerVars
  <2>3. Cardinality(lost) \in Nat /\ samples_collected \in Nat /\ Len(rItems) \in Nat
    BY LostFinite DEF TypeParts, MainTypes, Results!TypeOK
  <2>4. Cardinality(lost') = Cardinality(lost) /\ Len(rItems') = Len(rItems)
    BY <2>2
  <2>5. SendsMade = samples_collected + 1 + Len(rItems) + Cardinality(lost)
    BY <2>1 DEF Counted, SamplesConserved
  <2>6. SendsMade' = samples_collected' + 0 + Len(rItems') + Cardinality(lost')
    BY <2>1, <2>2, <2>3, <2>4, <2>5
  <2>7. SamplesConserved'
    BY <2>1, <2>6 DEF SamplesConserved
  <2> QED BY <2>1, <2>2, <2>7 DEF Counted
<1>10. CASE DestroyWorkq
  BY <1>10 DEF DestroyWorkq, Main, FreeQueue, results, workerVars, TypeParts, WorkQ!TypeOK,
    Results!TypeOK, MainTypes, WorkerTypes, HistoryTypes, Calls, Loops, Destroying, MainPc,
      WorkerPc, Thread, Counted, SamplesConserved, SendsMade, InHand, Sample
<1>11. CASE DestroyResults
  <2>1. rItems = <<>>
    BY <1>11, CountedLeaves DEF OnlyWaitingWorkerLeft, DestroyResults, Main, Destroying
  <2> QED BY <1>11, <2>1 DEF DestroyResults, Main, FreeQueue, workq, workerVars, TypeParts,
       WorkQ!TypeOK, Results!TypeOK, MainTypes, WorkerTypes, HistoryTypes, Calls, Loops,
         Destroying, MainPc, WorkerPc, Thread, Counted, SamplesConserved, SendsMade, InHand, Sample
<1>12. CASE ReturnFromMain
  BY <1>12 DEF ReturnFromMain, workq, results, mainVars, workerVars, TypeParts, WorkQ!TypeOK,
    Results!TypeOK, MainTypes, WorkerTypes, HistoryTypes, Calls, Loops, Destroying, MainPc,
      WorkerPc, Thread, Counted, SamplesConserved, SendsMade, InHand, Sample
<1>13. CASE ReceiveWork
  BY <1>13 DEF ReceiveWork, Worker, WorkQ!CallReceive, WorkQ!Move, Undefined, workq, results,
    mainVars, workerVars, TypeParts, WorkQ!TypeOK, Results!TypeOK, MainTypes, WorkerTypes,
      HistoryTypes, Calls, Loops, Destroying, MainPc, WorkerPc, Thread, Counted,
        SamplesConserved, SendsMade, InHand, Sample
<1>14. CASE WorkReceived
  BY <1>14 DEF WorkReceived, WorkQ!Receive, WorkQ!Return, WorkQ!Move, results, mainVars,
    TypeParts, WorkQ!TypeOK, Results!TypeOK, MainTypes, WorkerTypes, HistoryTypes, Calls,
      Loops, Destroying, MainPc, WorkerPc, Thread, Counted, SamplesConserved, SendsMade,
        InHand, Sample
<1>15. CASE ReadFreedQueue
  BY <1>15 DEF ReadFreedQueue, Undefined, workq, results, mainVars, workerVars, TypeParts,
    WorkQ!TypeOK, Results!TypeOK, MainTypes, WorkerTypes, HistoryTypes, Calls, Loops,
      Destroying, MainPc, WorkerPc, Thread, Counted, SamplesConserved, SendsMade, InHand, Sample
<1>16. CASE set_bench_params
  <2>1. i = 0
    BY <1>16 DEF set_bench_params, Worker, OneWork
  <2> QED BY <1>16, <2>1 DEF set_bench_params, Worker, workq, results, mainVars, TypeParts,
       WorkQ!TypeOK, Results!TypeOK, MainTypes, WorkerTypes, HistoryTypes, Calls, Loops,
         Destroying, MainPc, WorkerPc, Thread, Counted, SamplesConserved, SendsMade, InHand, Sample
<1>17. CASE read_all
  BY <1>17 DEF read_all, Fails, workq, results, mainVars, TypeParts, WorkQ!TypeOK,
    Results!TypeOK, MainTypes, WorkerTypes, HistoryTypes, Calls, Loops, Destroying, MainPc,
      WorkerPc, Thread, Counted, SamplesConserved, SendsMade, InHand, Sample
<1>18. CASE MeasureAndSend
  BY <1>18 DEF MeasureAndSend, Worker, Results!CallSend, Results!Move, Undefined, workq,
    results, mainVars, workerVars, TypeParts, WorkQ!TypeOK, Results!TypeOK, MainTypes,
      WorkerTypes, HistoryTypes, Calls, Loops, Destroying, MainPc, WorkerPc, Thread, Counted,
        SamplesConserved, SendsMade, InHand, Sample
<1>19. CASE SampleSent
  <2>1. IsFiniteSet(lost) /\ Cardinality(lost) \in Nat
    BY LostFinite DEF TypeParts
  <2>2. rMsg["worker"] = i + 1 /\ i \in Nat
    BY <1>19 DEF SampleSent, TypeParts, Calls, WorkerTypes
  <2>3. rStage["worker"] = "sending" => SendsMade = i
    BY <2>2 DEF SendsMade
  <2>4. rStage["worker"] = "sending" => Cardinality(lost \cup {i + 1}) = Cardinality(lost) + 1
    <3>1. rStage["worker"] = "sending" => i + 1 \notin lost
      BY <2>2, <2>3 DEF Counted
    <3> QED BY <3>1, <2>1, FS_AddElement
  <2>5. Len(Append(rItems, rMsg["worker"])) = Len(rItems) + 1 /\ Len(rItems) \in Nat
    <3>1. rMsg["worker"] \in Sample
      BY <2>2, <1>19 DEF TypeParts, Loops, Sample, SampleSent
    <3> QED BY <3>1, AppendProperties DEF TypeParts, Results!TypeOK
  <2>6. Len(InHand) \in Nat /\ InHand' = InHand /\ samples_collected' = samples_collected /\ samples_collected \in Nat
    BY <1>19 DEF SampleSent, Fails, Results!Send, Results!SendFails, Results!Return,
      Results!Move, AfterSend, workq, mainVars, TypeParts, Results!TypeOK, MainTypes, Thread, InHand
  <2>7. CASE Results!Send("worker") /\ UNCHANGED <<i, lost>>
    <3>1. SendsMade = i /\ SendsMade' = i + 1 /\ Len(rItems') = Len(rItems) + 1
      BY <2>2, <2>5, <2>7 DEF Fails, Results!Send, Results!SendFails, Results!Return,
        Results!Move, AfterSend, workq, mainVars, SendsMade, TypeParts, Results!TypeOK, Thread
    <3>2. SamplesConserved'
      BY <2>1, <2>2, <2>5, <2>6, <2>7, <3>1 DEF Counted, SamplesConserved
    <3> QED BY <2>2, <2>7, <2>1, <3>1, <3>2, LostFinite DEF Counted, TypeParts, HistoryTypes, Sample
  <2>8. CASE Results!SendFails("worker") /\ lost' = lost \cup {rMsg["worker"]} /\ UNCHANGED i
    <3>1. SendsMade = i /\ SendsMade' = i + 1 /\ rItems' = rItems /\ rStage["worker"] = "sending"
      BY <2>2, <2>8 DEF Fails, Results!Send, Results!SendFails, Results!Return, Results!Move,
        AfterSend, workq, mainVars, SendsMade, TypeParts, Results!TypeOK, Thread
    <3>2. Cardinality(lost') = Cardinality(lost) + 1
      BY <2>2, <2>4, <2>8, <3>1
    <3>3. SamplesConserved'
      BY <2>1, <2>2, <2>5, <2>6, <3>1, <3>2 DEF Counted, SamplesConserved
    <3> QED BY <2>2, <2>8, <3>1, <3>3 DEF Counted, TypeParts, HistoryTypes, Sample
  <2>9. CASE Results!Return("worker") /\ i' = i + 1 /\ UNCHANGED lost
    <3>1. SendsMade' = SendsMade /\ rItems' = rItems
      BY <1>19, <2>2, <2>9 DEF SampleSent, Fails, Results!Send, Results!SendFails,
        Results!Return, Results!Move, AfterSend, workq, mainVars, SendsMade, TypeParts,
          Results!TypeOK, Thread, Calls
    <3> QED BY <2>6, <2>9, <3>1 DEF Counted, SamplesConserved
  <2> QED BY <1>19, <2>7, <2>8, <2>9 DEF SampleSent
<1> QED BY <1>1, <1>2, <1>3, <1>4, <1>5, <1>6, <1>7, <1>8, <1>9, <1>10, <1>11, <1>12, <1>13,
     <1>14, <1>15, <1>16, <1>17, <1>18, <1>19 DEF Next, MainStep, WorkerStep

LEMMA AppendAt ==
  ASSUME NEW S, NEW s \in Seq(S), NEW e \in S
  PROVE  /\ DOMAIN s = 1 .. Len(s) /\ Len(s) \in Nat
         /\ DOMAIN Append(s, e) = 1 .. Len(s) + 1
         /\ \A k \in DOMAIN s : Append(s, e)[k] = s[k]
         /\ Append(s, e)[Len(s) + 1] = e
  OBVIOUS

LEMMA TailAt ==
  ASSUME NEW S, NEW s \in Seq(S), s # <<>>
  PROVE  /\ DOMAIN s = 1 .. Len(s) /\ Len(s) \in Nat \ {0}
         /\ DOMAIN Tail(s) = 1 .. Len(s) - 1
         /\ \A k \in DOMAIN Tail(s) : k + 1 \in DOMAIN s /\ Tail(s)[k] = s[k + 1]
         /\ Head(s) = s[1] /\ 1 \in DOMAIN s
  OBVIOUS

LEMMA SamplesAreNumbers ==
  ASSUME TypeParts
  PROVE  /\ \A k \in DOMAIN csv : csv[k] \in Nat
         /\ \A k \in DOMAIN rItems : rItems[k] \in Nat
         /\ SendsMade \in Nat
<1>1. csv \in Seq(Sample) /\ rItems \in Seq(Sample) /\ i \in Nat
  BY DEF TypeParts, MainTypes, WorkerTypes, Results!TypeOK
<1>2. Sample \subseteq Nat
  BY DEF Sample
<1>3. \A k \in DOMAIN csv : csv[k] \in Sample
  BY <1>1
<1>4. \A k \in DOMAIN rItems : rItems[k] \in Sample
  BY <1>1
<1>5. SendsMade \in Nat
  BY <1>1 DEF SendsMade
<1> QED BY <1>2, <1>3, <1>4, <1>5

LEMMA OrderedStep == TypeParts /\ OneWork /\ Ordered /\ Next => Ordered'
<1> SUFFICES ASSUME TypeParts, OneWork, Ordered, Next PROVE Ordered'
  OBVIOUS
<1> USE SizeAssumption
<1>1. CASE InitResults
  BY <1>1 DEF InitResults, Main, Fails, Results!Open, workq, workerVars, results, TypeParts,
    WorkQ!TypeOK, Results!TypeOK, MainTypes, WorkerTypes, HistoryTypes, Calls, Loops,
      Destroying, MainPc, WorkerPc, Thread, Ordered, SendsMade, InHand
<1>2. CASE InitWorkq
  BY <1>2 DEF InitWorkq, Main, Fails, WorkQ!Open, results, workerVars, workq, TypeParts,
    WorkQ!TypeOK, Results!TypeOK, MainTypes, WorkerTypes, HistoryTypes, Calls, Loops,
      Destroying, MainPc, WorkerPc, Thread, Ordered, SendsMade, InHand
<1>3. CASE CreateThread
  BY <1>3 DEF CreateThread, Main, Worker, Fails, workq, results, TypeParts, WorkQ!TypeOK,
    Results!TypeOK, MainTypes, WorkerTypes, HistoryTypes, Calls, Loops, Destroying, MainPc,
      WorkerPc, Thread, Ordered, SendsMade, InHand
<1>4. CASE create_csv
  BY <1>4 DEF create_csv, Main, Fails, workq, results, workerVars, TypeParts, WorkQ!TypeOK,
    Results!TypeOK, MainTypes, WorkerTypes, HistoryTypes, Calls, Loops, Destroying, MainPc,
      WorkerPc, Thread, Ordered, SendsMade, InHand
<1>5. CASE SendWork
  BY <1>5 DEF SendWork, Main, WorkQ!CallSend, WorkQ!Move, Undefined, workq, results, mainVars,
    workerVars, TypeParts, WorkQ!TypeOK, Results!TypeOK, MainTypes, WorkerTypes, HistoryTypes,
      Calls, Loops, Destroying, MainPc, WorkerPc, Thread, Ordered, SendsMade, InHand
<1>6. CASE WorkSent
  BY <1>6 DEF WorkSent, Fails, WorkQ!Send, WorkQ!SendFails, WorkQ!Return, WorkQ!Move, results,
    workerVars, TypeParts, WorkQ!TypeOK, Results!TypeOK, MainTypes, WorkerTypes, HistoryTypes,
      Calls, Loops, Destroying, MainPc, WorkerPc, Thread, Ordered, SendsMade, InHand
<1>7. CASE ReceiveSample
  BY <1>7 DEF ReceiveSample, Main, Results!CallReceive, Results!Move, Undefined, workq,
    results, mainVars, workerVars, TypeParts, WorkQ!TypeOK, Results!TypeOK, MainTypes,
      WorkerTypes, HistoryTypes, Calls, Loops, Destroying, MainPc, WorkerPc, Thread, Ordered,
        SendsMade, InHand
<1>8. CASE SampleReceived
  <2>1. SendsMade' = SendsMade /\ csv' = csv
    BY <1>8 DEF SampleReceived, Results!Receive, Results!Return, Results!Move, workq,
      workerVars, SendsMade, TypeParts, Results!TypeOK, Thread
  <2>2. CASE Results!Receive("main")
    <3>1. /\ rItems # <<>> /\ rItems' = Tail(rItems) /\ rMsg'["main"] = Head(rItems)
          /\ rItems \in Seq(Sample)
      BY <2>2 DEF Results!Receive, Results!Return, Results!Move, workq, workerVars, TypeParts,
        Results!TypeOK, Thread
    <3> QED BY <2>1, <3>1, TailAt, SamplesAreNumbers DEF Ordered
  <2>3. CASE Results!Return("main")
    BY <1>8, <2>1, <2>3 DEF SampleReceived, Results!Receive, Results!Return, Results!Move,
      workq, workerVars, Ordered, InHand, TypeParts, Calls, Results!TypeOK, Thread
  <2> QED BY <1>8, <2>2, <2>3 DEF SampleReceived
<1>9. CASE WriteSample
  <2>1. /\ SendsMade' = SendsMade /\ InHand' = <<>> /\ rItems' = rItems
        /\ csv' = csv \/ csv' = Append(csv, rMsg["main"])
        /\ InHand # <<>> /\ rMsg["main"] \in Sample /\ csv \in Seq(Sample)
    BY <1>9 DEF WriteSample, Fails, CountSample, AfterSample, workq, results, workerVars,
      TypeParts, Calls, InHand, SendsMade, MainTypes
  <2>2. CASE csv' = csv
    BY <2>1, <2>2 DEF Ordered
  <2>3. CASE csv' = Append(csv, rMsg["main"])
    <3>1. rMsg["main"] \in Nat
      BY <2>1 DEF Sample
    <3>2. /\ \A j \in DOMAIN csv' : csv'[j] = rMsg["main"] \/ (j \in DOMAIN csv /\ csv'[j] = csv[j])
          /\ \A j, k \in DOMAIN csv' : j < k => j \in DOMAIN csv /\ csv'[j] = csv[j]
      BY <2>1, <2>3, AppendAt
    <3>3. \A j, k \in DOMAIN csv' : j < k => csv'[j] < csv'[k]
      BY <2>1, <3>2 DEF Ordered
    <3> QED BY <2>1, <3>2, <3>3 DEF Ordered
  <2> QED BY <2>1, <2>2, <2>3
<1>10. CASE DestroyWorkq
  BY <1>10 DEF DestroyWorkq, Main, FreeQueue, results, workerVars, TypeParts, WorkQ!TypeOK,
    Results!TypeOK, MainTypes, WorkerTypes, HistoryTypes, Calls, Loops, Destroying, MainPc,
      WorkerPc, Thread, Ordered, SendsMade, InHand
<1>11. CASE DestroyResults
  BY <1>11 DEF DestroyResults, Main, FreeQueue, workq, workerVars, Ordered, SendsMade, InHand,
    TypeParts, Calls
<1>12. CASE ReturnFromMain
  BY <1>12 DEF ReturnFromMain, workq, results, mainVars, workerVars, TypeParts, WorkQ!TypeOK,
    Results!TypeOK, MainTypes, WorkerTypes, HistoryTypes, Calls, Loops, Destroying, MainPc,
      WorkerPc, Thread, Ordered, SendsMade, InHand
<1>13. CASE ReceiveWork
  BY <1>13 DEF ReceiveWork, Worker, WorkQ!CallReceive, WorkQ!Move, Undefined, workq, results,
    mainVars, workerVars, TypeParts, WorkQ!TypeOK, Results!TypeOK, MainTypes, WorkerTypes,
      HistoryTypes, Calls, Loops, Destroying, MainPc, WorkerPc, Thread, Ordered, SendsMade, InHand
<1>14. CASE WorkReceived
  BY <1>14 DEF WorkReceived, WorkQ!Receive, WorkQ!Return, WorkQ!Move, results, mainVars,
    TypeParts, WorkQ!TypeOK, Results!TypeOK, MainTypes, WorkerTypes, HistoryTypes, Calls,
      Loops, Destroying, MainPc, WorkerPc, Thread, Ordered, SendsMade, InHand
<1>15. CASE ReadFreedQueue
  BY <1>15 DEF ReadFreedQueue, Undefined, workq, results, mainVars, workerVars, TypeParts,
    WorkQ!TypeOK, Results!TypeOK, MainTypes, WorkerTypes, HistoryTypes, Calls, Loops,
      Destroying, MainPc, WorkerPc, Thread, Ordered, SendsMade, InHand
<1>16. CASE set_bench_params
  <2>1. i = 0 /\ SendsMade' = SendsMade
    BY <1>16 DEF set_bench_params, Worker, workq, results, mainVars, OneWork, SendsMade
  <2> QED BY <1>16, <2>1 DEF set_bench_params, Worker, workq, results, mainVars, Ordered, InHand
<1>17. CASE read_all
  BY <1>17 DEF read_all, Fails, workq, results, mainVars, TypeParts, WorkQ!TypeOK,
    Results!TypeOK, MainTypes, WorkerTypes, HistoryTypes, Calls, Loops, Destroying, MainPc,
      WorkerPc, Thread, Ordered, SendsMade, InHand
<1>18. CASE MeasureAndSend
  BY <1>18 DEF MeasureAndSend, Worker, Results!CallSend, Results!Move, Undefined, workq,
    results, mainVars, workerVars, TypeParts, WorkQ!TypeOK, Results!TypeOK, MainTypes,
      WorkerTypes, HistoryTypes, Calls, Loops, Destroying, MainPc, WorkerPc, Thread, Ordered,
        SendsMade, InHand
<1>19. CASE SampleSent
  <2>1. rMsg["worker"] = i + 1 /\ i \in Nat /\ rMsg["worker"] \in Sample
    BY <1>19 DEF SampleSent, TypeParts, Calls, Loops, Sample, WorkerTypes
  <2>2. InHand' = InHand /\ csv' = csv /\ rMsg' = rMsg
    BY <1>19 DEF SampleSent, Fails, Results!Send, Results!SendFails, Results!Return,
      Results!Move, AfterSend, workq, mainVars, TypeParts, Results!TypeOK, Thread, InHand
  <2>3. CASE Results!Send("worker") /\ UNCHANGED i
    <3>1. /\ SendsMade = i /\ SendsMade' = i + 1
          /\ rItems' = Append(rItems, i + 1) /\ rItems \in Seq(Sample)
      BY <2>1, <2>3 DEF Fails, Results!Send, Results!SendFails, Results!Return, Results!Move,
        AfterSend, workq, mainVars, SendsMade, TypeParts, Results!TypeOK, Thread
    <3>2. \A k \in DOMAIN rItems' : rItems'[k] = i + 1 \/ (k \in DOMAIN rItems /\ rItems'[k] = rItems[k])
      BY <2>1, <3>1, AppendAt
    <3>3. \A j, k \in DOMAIN rItems' : j < k => j \in DOMAIN rItems /\ rItems'[j] = rItems[j]
      BY <2>1, <3>1, AppendAt
    <3>4. \A j, k \in DOMAIN rItems' : j < k => rItems'[j] < rItems'[k]
      BY <2>1, <3>1, <3>2, <3>3, SamplesAreNumbers DEF Ordered
    <3>5. InHand # <<>> => rMsg["main"] \in Nat
      BY DEF TypeParts, Calls, InHand, Sample
    <3> QED BY <2>1, <2>2, <3>1, <3>2, <3>4, <3>5, SamplesAreNumbers DEF Ordered
  <2>4. CASE Results!SendFails("worker") /\ UNCHANGED i
    <3>1. SendsMade = i /\ SendsMade' = i + 1 /\ rItems' = rItems
      BY <2>1, <2>4 DEF Fails, Results!Send, Results!SendFails, Results!Return, Results!Move,
        AfterSend, workq, mainVars, SendsMade, TypeParts, Results!TypeOK, Thread
    <3>2. InHand # <<>> => rMsg["main"] \in Nat
      BY DEF TypeParts, Calls, InHand, Sample
    <3> QED BY <2>1, <2>2, <3>1, <3>2, SamplesAreNumbers DEF Ordered
  <2>5. CASE Results!Return("worker") /\ i' = i + 1
    <3>1. SendsMade' = SendsMade /\ rItems' = rItems
      BY <1>19, <2>1, <2>5 DEF SampleSent, Fails, Results!Send, Results!SendFails,
        Results!Return, Results!Move, AfterSend, workq, mainVars, SendsMade, TypeParts,
          Results!TypeOK, Thread, Calls
    <3> QED BY <2>2, <3>1 DEF Ordered
  <2> QED BY <1>19, <2>3, <2>4, <2>5 DEF SampleSent
<1> QED BY <1>1, <1>2, <1>3, <1>4, <1>5, <1>6, <1>7, <1>8, <1>9, <1>10, <1>11, <1>12, <1>13,
     <1>14, <1>15, <1>16, <1>17, <1>18, <1>19 DEF Next, MainStep, WorkerStep

LEMMA OrderedIncreases == TypeParts /\ Ordered => RowsInOrder
<1> SUFFICES ASSUME TypeParts, Ordered PROVE RowsInOrder
  OBVIOUS
<1>1. csv \in Seq(Sample) /\ rItems \in Seq(Sample) /\ InHand \in Seq(Sample)
  BY DEF TypeParts, MainTypes, Results!TypeOK, Calls, InHand
<1>2. Len(InHand) \in {0, 1} /\ (Len(InHand) = 1 => InHand # <<>> /\ InHand[1] = rMsg["main"])
  BY DEF InHand
<1> DEFINE both == csv \o InHand
           all == both \o rItems
<1>3. both \in Seq(Sample) /\ Len(both) = Len(csv) + Len(InHand)
      /\ \A k \in 1 .. Len(both) : both[k] = IF k <= Len(csv) THEN csv[k] ELSE InHand[k - Len(csv)]
  BY <1>1, ConcatProperties
<1>4. \A j, k \in DOMAIN both : j < k => both[j] < both[k]
  BY <1>1, <1>2, <1>3 DEF Ordered
<1>5. \A j \in DOMAIN both, k \in DOMAIN rItems : both[j] < rItems[k]
  BY <1>1, <1>2, <1>3 DEF Ordered
<1> HIDE DEF both
<1>6. /\ all \in Seq(Sample) /\ Len(all) = Len(both) + Len(rItems)
      /\ \A k \in 1 .. Len(all) : all[k] = IF k <= Len(both) THEN both[k] ELSE rItems[k - Len(both)]
  <2>1. both \in Seq(Sample) /\ rItems \in Seq(Sample)
    BY <1>1, <1>3
  <2> QED BY <2>1, ConcatProperties
<1>7. \A j, k \in DOMAIN all : j < k => all[j] < all[k]
  <2> SUFFICES ASSUME NEW j \in DOMAIN all, NEW k \in DOMAIN all, j < k PROVE all[j] < all[k]
    OBVIOUS
  <2>1. DOMAIN all = 1 .. Len(all) /\ DOMAIN both = 1 .. Len(both) /\ DOMAIN rItems = 1 .. Len(rItems)
    BY <1>1, <1>3, <1>6
  <2>2. Len(both) \in Nat /\ Len(rItems) \in Nat /\ j \in Nat /\ k \in Nat
    BY <1>1, <1>3, <2>1
  <2> HIDE DEF all
  <2>3. CASE k <= Len(both)
    BY <1>4, <1>6, <2>1, <2>2, <2>3
  <2>4. CASE j <= Len(both) /\ k > Len(both)
    BY <1>5, <1>6, <2>1, <2>2, <2>4
  <2>5. CASE j > Len(both)
    <3>1. j - Len(both) \in DOMAIN rItems /\ k - Len(both) \in DOMAIN rItems
          /\ j - Len(both) < k - Len(both)
      BY <1>6, <2>1, <2>2, <2>5
    <3>2. all[j] = rItems[j - Len(both)] /\ all[k] = rItems[k - Len(both)]
      BY <1>6, <2>1, <2>2, <2>5
    <3> QED BY <3>1, <3>2 DEF Ordered
  <2> QED BY <2>2, <2>3, <2>4, <2>5
<1> QED BY <1>7 DEF RowsInOrder, Increasing, both

LEMMA AppendNumbers ==
  ASSUME NEW n \in Nat
  PROVE  Append([k \in 1 .. n |-> k], n + 1) = [k \in 1 .. n + 1 |-> k]
<1> DEFINE s == [k \in 1 .. n |-> k]
           t == [k \in 1 .. n + 1 |-> k]
<1>1. s \in Seq(Nat) /\ Len(s) = n
  OBVIOUS
<1>2. /\ Append(s, n + 1) \in Seq(Nat) /\ Len(Append(s, n + 1)) = n + 1
      /\ \A k \in 1 .. n : Append(s, n + 1)[k] = s[k]
      /\ Append(s, n + 1)[n + 1] = n + 1
  BY <1>1, AppendProperties
<1>3. t \in Seq(Nat) /\ Len(t) = n + 1
  OBVIOUS
<1>4. \A k \in 1 .. n + 1 : Append(s, n + 1)[k] = t[k]
  BY <1>2
<1> HIDE DEF s, t
<1>5. Append(s, n + 1) = t
  BY <1>2, <1>3, <1>4, SeqEqual
<1> QED BY <1>5 DEF s, t

LEMMA NumberedStep == TypeParts /\ OneWork /\ Counted /\ CsvCreated /\ Created /\ Numbered /\ Next => Numbered'
<1> SUFFICES ASSUME TypeParts, OneWork, Counted, CsvCreated, Created, Numbered, Next PROVE Numbered'
  OBVIOUS
<1> USE SizeAssumption
<1>1. CASE InitResults
  BY <1>1 DEF InitResults, Main, Fails, Results!Open, workq, workerVars, results, TypeParts,
    WorkQ!TypeOK, Results!TypeOK, MainTypes, WorkerTypes, HistoryTypes, Calls, Loops,
      Destroying, MainPc, WorkerPc, Thread, Numbered, InHand
<1>2. CASE InitWorkq
  BY <1>2 DEF InitWorkq, Main, Fails, WorkQ!Open, results, workerVars, workq, TypeParts,
    WorkQ!TypeOK, Results!TypeOK, MainTypes, WorkerTypes, HistoryTypes, Calls, Loops,
      Destroying, MainPc, WorkerPc, Thread, Numbered, InHand
<1>3. CASE CreateThread
  BY <1>3 DEF CreateThread, Main, Worker, Fails, workq, results, TypeParts, WorkQ!TypeOK,
    Results!TypeOK, MainTypes, WorkerTypes, HistoryTypes, Calls, Loops, Destroying, MainPc,
      WorkerPc, Thread, Numbered, InHand
<1>4. CASE create_csv
  BY <1>4 DEF create_csv, Main, Fails, workq, results, workerVars, TypeParts, WorkQ!TypeOK,
    Results!TypeOK, MainTypes, WorkerTypes, HistoryTypes, Calls, Loops, Destroying, MainPc,
      WorkerPc, Thread, Numbered, InHand
<1>5. CASE SendWork
  BY <1>5 DEF SendWork, Main, WorkQ!CallSend, WorkQ!Move, Undefined, workq, results, mainVars,
    workerVars, TypeParts, WorkQ!TypeOK, Results!TypeOK, MainTypes, WorkerTypes, HistoryTypes,
      Calls, Loops, Destroying, MainPc, WorkerPc, Thread, Numbered, InHand
<1>6. CASE WorkSent
  BY <1>6 DEF WorkSent, Fails, WorkQ!Send, WorkQ!SendFails, WorkQ!Return, WorkQ!Move, results,
    workerVars, TypeParts, WorkQ!TypeOK, Results!TypeOK, MainTypes, WorkerTypes, HistoryTypes,
      Calls, Loops, Destroying, MainPc, WorkerPc, Thread, Numbered, InHand
<1>7. CASE ReceiveSample
  BY <1>7 DEF ReceiveSample, Main, Results!CallReceive, Results!Move, Undefined, workq,
    results, mainVars, workerVars, TypeParts, WorkQ!TypeOK, Results!TypeOK, MainTypes,
      WorkerTypes, HistoryTypes, Calls, Loops, Destroying, MainPc, WorkerPc, Thread, Numbered,
        InHand
<1>8. CASE SampleReceived
  <2>1. csv' = csv /\ lost' = lost /\ samples_collected' = samples_collected /\ failures' = failures
        /\ samples_collected \in Nat
    BY <1>8 DEF SampleReceived, TypeParts, MainTypes
  <2>2. CASE Results!Receive("main")
    <3>1. /\ rItems # <<>> /\ rItems' = Tail(rItems) /\ rMsg'["main"] = Head(rItems)
          /\ rItems \in Seq(Sample) /\ InHand = <<>> /\ Len(InHand') = 1
      BY <1>8, <2>2 DEF SampleReceived, Results!Receive, Results!Return, Results!Move, workq,
        workerVars, TypeParts, Results!TypeOK, Thread, Calls, InHand
    <3>2. Len(InHand) = 0
      BY <3>1
    <3> QED BY <2>1, <3>1, <3>2, TailAt DEF Numbered
  <2>3. CASE Results!Return("main")
    <3>1. InHand' = InHand /\ rItems' = rItems /\ rMsg' = rMsg
      BY <1>8, <2>3 DEF SampleReceived, Results!Receive, Results!Return, Results!Move, workq,
        workerVars, InHand, TypeParts, Calls, Results!TypeOK, Thread
    <3> QED BY <2>1, <3>1 DEF Numbered
  <2> QED BY <1>8, <2>2, <2>3 DEF SampleReceived
<1>9. CASE WriteSample
  <2>1. /\ InHand' = <<>> /\ rItems' = rItems /\ lost' = lost /\ rItems \in Seq(Sample)
        /\ samples_collected' = samples_collected + 1 /\ samples_collected \in Nat
        /\ InHand # <<>> /\ Len(InHand) = 1
    BY <1>9 DEF WriteSample, Fails, CountSample, AfterSample, workq, results, workerVars,
      TypeParts, Calls, InHand, MainTypes, Results!TypeOK
  <2>2. Len(InHand') = 0
    BY <2>1
  <2>3. "csv" \notin failures' => csv' = Append(csv, rMsg["main"]) /\ "csv" \notin failures
    BY <1>9 DEF WriteSample, Fails, CountSample, AfterSample, workq, results, workerVars,
      CsvCreated, TypeParts, HistoryTypes
  <2>4. lost' = {} /\ "csv" \notin failures' => csv' = [k \in 1 .. samples_collected' |-> k]
    BY <2>1, <2>3, AppendNumbers DEF Numbered
  <2> QED BY <2>1, <2>2, <2>4 DEF Numbered
<1>10. CASE DestroyWorkq
  BY <1>10 DEF DestroyWorkq, Main, FreeQueue, results, workerVars, TypeParts, WorkQ!TypeOK,
    Results!TypeOK, MainTypes, WorkerTypes, HistoryTypes, Calls, Loops, Destroying, MainPc,
      WorkerPc, Thread, Numbered, InHand
<1>11. CASE DestroyResults
  BY <1>11 DEF DestroyResults, Main, FreeQueue, workq, workerVars, Numbered, InHand, TypeParts,
    Calls
<1>12. CASE ReturnFromMain
  BY <1>12 DEF ReturnFromMain, workq, results, mainVars, workerVars, TypeParts, WorkQ!TypeOK,
    Results!TypeOK, MainTypes, WorkerTypes, HistoryTypes, Calls, Loops, Destroying, MainPc,
      WorkerPc, Thread, Numbered, InHand
<1>13. CASE ReceiveWork
  BY <1>13 DEF ReceiveWork, Worker, WorkQ!CallReceive, WorkQ!Move, Undefined, workq, results,
    mainVars, workerVars, TypeParts, WorkQ!TypeOK, Results!TypeOK, MainTypes, WorkerTypes,
      HistoryTypes, Calls, Loops, Destroying, MainPc, WorkerPc, Thread, Numbered, InHand
<1>14. CASE WorkReceived
  BY <1>14 DEF WorkReceived, WorkQ!Receive, WorkQ!Return, WorkQ!Move, results, mainVars,
    TypeParts, WorkQ!TypeOK, Results!TypeOK, MainTypes, WorkerTypes, HistoryTypes, Calls,
      Loops, Destroying, MainPc, WorkerPc, Thread, Numbered, InHand
<1>15. CASE ReadFreedQueue
  BY <1>15 DEF ReadFreedQueue, Undefined, workq, results, mainVars, workerVars, TypeParts,
    WorkQ!TypeOK, Results!TypeOK, MainTypes, WorkerTypes, HistoryTypes, Calls, Loops,
      Destroying, MainPc, WorkerPc, Thread, Numbered, InHand
<1>16. CASE set_bench_params
  BY <1>16 DEF set_bench_params, Worker, workq, results, mainVars, TypeParts, WorkQ!TypeOK,
    Results!TypeOK, MainTypes, WorkerTypes, HistoryTypes, Calls, Loops, Destroying, MainPc,
      WorkerPc, Thread, Numbered, InHand
<1>17. CASE read_all
  BY <1>17 DEF read_all, Fails, workq, results, mainVars, TypeParts, WorkQ!TypeOK,
    Results!TypeOK, MainTypes, WorkerTypes, HistoryTypes, Calls, Loops, Destroying, MainPc,
      WorkerPc, Thread, Numbered, InHand
<1>18. CASE MeasureAndSend
  BY <1>18 DEF MeasureAndSend, Worker, Results!CallSend, Results!Move, Undefined, workq,
    results, mainVars, workerVars, TypeParts, WorkQ!TypeOK, Results!TypeOK, MainTypes,
      WorkerTypes, HistoryTypes, Calls, Loops, Destroying, MainPc, WorkerPc, Thread, Numbered,
        InHand
<1>19. CASE SampleSent
  <2>1. rMsg["worker"] = i + 1 /\ i \in Nat /\ rMsg["worker"] \in Sample
    BY <1>19 DEF SampleSent, TypeParts, Calls, Loops, Sample, WorkerTypes
  <2>2. /\ InHand' = InHand /\ csv' = csv /\ rMsg' = rMsg /\ samples_collected' = samples_collected
        /\ samples_collected \in Nat /\ Len(InHand) \in Nat
    BY <1>19 DEF SampleSent, Fails, Results!Send, Results!SendFails, Results!Return,
      Results!Move, AfterSend, workq, mainVars, TypeParts, Results!TypeOK, MainTypes, Thread, InHand
  <2>3. "csv" \notin failures' => "csv" \notin failures
    BY <1>19 DEF SampleSent, Fails
  <2>4. CASE Results!Send("worker") /\ UNCHANGED <<i, lost>>
    <3> SUFFICES ASSUME lost' = {} PROVE Numbered'
      BY DEF Numbered
    <3>1. /\ SendsMade = i
          /\ rItems' = Append(rItems, i + 1) /\ rItems \in Seq(Sample)
      BY <2>1, <2>4 DEF Fails, Results!Send, Results!SendFails, Results!Return, Results!Move,
        AfterSend, workq, mainVars, SendsMade, TypeParts, Results!TypeOK, Thread
    <3>2. Cardinality(lost) = 0 /\ lost = {}
      BY <2>4, FS_EmptySet
    <3>3. i = samples_collected + Len(InHand) + Len(rItems)
      BY <2>2, <3>1, <3>2 DEF Counted, SamplesConserved
    <3>4. \A k \in DOMAIN rItems : rItems'[k] = samples_collected + Len(InHand) + k
      BY <2>1, <3>1, <3>2, AppendAt DEF Numbered
    <3>5. \A k \in DOMAIN rItems' : k \in DOMAIN rItems \/ (k = Len(rItems) + 1 /\ rItems'[k] = i + 1)
      BY <2>1, <3>1, AppendAt
    <3>6. \A k \in DOMAIN rItems' : rItems'[k] = samples_collected' + Len(InHand') + k
      BY <2>1, <2>2, <3>1, <3>3, <3>4, <3>5
    <3> QED BY <2>2, <2>3, <3>2, <3>6 DEF Numbered
  <2>5. CASE lost' = lost \cup {rMsg["worker"]}
    BY <2>5 DEF Numbered
  <2>6. CASE Results!Return("worker") /\ UNCHANGED lost
    <3>1. rItems' = rItems
      BY <2>6 DEF Fails, Results!Send, Results!SendFails, Results!Return, Results!Move,
        AfterSend, workq, mainVars
    <3> QED BY <2>2, <2>3, <2>6, <3>1 DEF Numbered
  <2> QED BY <1>19, <2>4, <2>5, <2>6 DEF SampleSent
<1> QED BY <1>1, <1>2, <1>3, <1>4, <1>5, <1>6, <1>7, <1>8, <1>9, <1>10, <1>11, <1>12, <1>13,
     <1>14, <1>15, <1>16, <1>17, <1>18, <1>19 DEF Next, MainStep, WorkerStep

------------------------------------------------------------------------------
(* How the process ends *)

LEMMA Running == Next => fate = "running"
  BY DEF Next, MainStep, WorkerStep

LEMMA ExitedStep == Exited /\ Next => Exited'
<1> SUFFICES ASSUME Exited, Next PROVE Exited'
  OBVIOUS
<1> USE SizeAssumption
<1>1. CASE InitResults
  BY <1>1 DEF InitResults, Main, Fails, Results!Open, workq, workerVars, results, Exited
<1>2. CASE InitWorkq
  BY <1>2 DEF InitWorkq, Main, Fails, WorkQ!Open, results, workerVars, workq, Exited
<1>3. CASE CreateThread
  BY <1>3 DEF CreateThread, Main, Worker, Fails, workq, results, Exited
<1>4. CASE create_csv
  BY <1>4 DEF create_csv, Main, Fails, workq, results, workerVars, Exited
<1>5. CASE SendWork
  BY <1>5 DEF SendWork, Main, WorkQ!CallSend, WorkQ!Move, Undefined, workq, results, mainVars,
    workerVars, Exited
<1>6. CASE WorkSent
  BY <1>6 DEF WorkSent, Fails, WorkQ!Send, WorkQ!SendFails, WorkQ!Return, WorkQ!Move, results,
    workerVars, Exited
<1>7. CASE ReceiveSample
  BY <1>7 DEF ReceiveSample, Main, Results!CallReceive, Results!Move, Undefined, workq,
    results, mainVars, workerVars, Exited
<1>8. CASE SampleReceived
  BY <1>8 DEF SampleReceived, Results!Receive, Results!Return, Results!Move, workq, workerVars,
    Exited
<1>9. CASE WriteSample
  BY <1>9 DEF WriteSample, Fails, CountSample, AfterSample, workq, results, workerVars, Exited
<1>10. CASE DestroyWorkq
  BY <1>10 DEF DestroyWorkq, Main, FreeQueue, results, workerVars, Exited
<1>11. CASE DestroyResults
  BY <1>11 DEF DestroyResults, Main, FreeQueue, workq, workerVars, Exited
<1>12. CASE ReturnFromMain
  BY <1>12 DEF ReturnFromMain, workq, results, mainVars, workerVars, Exited
<1>13. CASE ReceiveWork
  BY <1>13 DEF ReceiveWork, Worker, WorkQ!CallReceive, WorkQ!Move, Undefined, workq, results,
    mainVars, workerVars, Exited
<1>14. CASE WorkReceived
  BY <1>14 DEF WorkReceived, WorkQ!Receive, WorkQ!Return, WorkQ!Move, results, mainVars, Exited
<1>15. CASE ReadFreedQueue
  BY <1>15 DEF ReadFreedQueue, Undefined, workq, results, mainVars, workerVars, Exited
<1>16. CASE set_bench_params
  BY <1>16 DEF set_bench_params, Worker, workq, results, mainVars, Exited
<1>17. CASE read_all
  BY <1>17 DEF read_all, Fails, workq, results, mainVars, Exited
<1>18. CASE MeasureAndSend
  BY <1>18 DEF MeasureAndSend, Worker, Results!CallSend, Results!Move, Undefined, workq,
    results, mainVars, workerVars, Exited
<1>19. CASE SampleSent
  BY <1>19 DEF SampleSent, Fails, Results!Send, Results!SendFails, Results!Return,
    Results!Move, AfterSend, workq, mainVars, Exited
<1> QED BY <1>1, <1>2, <1>3, <1>4, <1>5, <1>6, <1>7, <1>8, <1>9, <1>10, <1>11, <1>12, <1>13,
     <1>14, <1>15, <1>16, <1>17, <1>18, <1>19 DEF Next, MainStep, WorkerStep

LEMMA KeptStep == TypeParts /\ Kept /\ Next => Kept'
<1> SUFFICES ASSUME TypeParts, Kept, Next PROVE Kept'
  OBVIOUS
<1> USE SizeAssumption
<1>1. CASE InitResults
  BY <1>1 DEF InitResults, Main, Fails, Results!Open, workq, workerVars, results, Kept, Unsent, HasWork, Destroying, TypeParts, Calls, Thread, WorkQ!TypeOK,
    Results!TypeOK, WorkerTypes
<1>2. CASE InitWorkq
  BY <1>2 DEF InitWorkq, Main, Fails, WorkQ!Open, results, workerVars, workq, Kept, Unsent, HasWork, Destroying, TypeParts, Calls, Thread, WorkQ!TypeOK,
    Results!TypeOK, WorkerTypes
<1>3. CASE CreateThread
  BY <1>3 DEF CreateThread, Main, Worker, Fails, workq, results, Kept, Unsent, HasWork, Destroying, TypeParts, Calls, Thread, WorkQ!TypeOK,
    Results!TypeOK, WorkerTypes
<1>4. CASE create_csv
  BY <1>4 DEF create_csv, Main, Fails, workq, results, workerVars, Kept, Unsent, HasWork, Destroying, TypeParts, Calls, Thread, WorkQ!TypeOK,
    Results!TypeOK, WorkerTypes
<1>5. CASE SendWork
  BY <1>5 DEF SendWork, Main, WorkQ!CallSend, WorkQ!Move, Undefined, workq, results, mainVars,
    workerVars, Kept, Unsent, HasWork, Destroying, TypeParts, Calls, Thread, WorkQ!TypeOK,
    Results!TypeOK, WorkerTypes
<1>6. CASE WorkSent
  <2>1. Append(wItems, "work") # <<>>
    BY AppendProperties DEF TypeParts, WorkQ!TypeOK, Work
  <2>2. mpc = "sending" => wMsg["main"] = "work"
    BY DEF TypeParts, Calls
  <2> QED BY <1>6, <2>1, <2>2 DEF WorkSent, Fails, WorkQ!Send, WorkQ!SendFails, WorkQ!Return, WorkQ!Move, results,
    workerVars, Kept, Unsent, HasWork, Destroying, TypeParts, Calls, Thread, WorkQ!TypeOK,
    Results!TypeOK, WorkerTypes
<1>7. CASE ReceiveSample
  BY <1>7 DEF ReceiveSample, Main, Results!CallReceive, Results!Move, Undefined, workq,
    results, mainVars, workerVars, Kept, Unsent, HasWork, Destroying, TypeParts, Calls, Thread, WorkQ!TypeOK,
    Results!TypeOK, WorkerTypes
<1>8. CASE SampleReceived
  BY <1>8 DEF SampleReceived, Results!Receive, Results!Return, Results!Move, workq, workerVars,
    Kept, Unsent, HasWork, Destroying, TypeParts, Calls, Thread, WorkQ!TypeOK,
    Results!TypeOK, WorkerTypes
<1>9. CASE WriteSample
  BY <1>9 DEF WriteSample, Fails, CountSample, AfterSample, workq, results, workerVars, Kept, Unsent, HasWork, Destroying, TypeParts, Calls, Thread, WorkQ!TypeOK,
    Results!TypeOK, WorkerTypes
<1>10. CASE DestroyWorkq
  BY <1>10 DEF DestroyWorkq, Main, FreeQueue, results, workerVars, Kept, Unsent, HasWork, Destroying, TypeParts, Calls, Thread, WorkQ!TypeOK,
    Results!TypeOK, WorkerTypes
<1>11. CASE DestroyResults
  BY <1>11 DEF DestroyResults, Main, FreeQueue, workq, workerVars, Kept, Unsent, HasWork, Destroying, TypeParts, Calls, Thread, WorkQ!TypeOK,
    Results!TypeOK, WorkerTypes
<1>12. CASE ReturnFromMain
  BY <1>12 DEF ReturnFromMain, workq, results, mainVars, workerVars, Kept, Unsent, HasWork, Destroying, TypeParts, Calls, Thread, WorkQ!TypeOK,
    Results!TypeOK, WorkerTypes
<1>13. CASE ReceiveWork
  BY <1>13 DEF ReceiveWork, Worker, WorkQ!CallReceive, WorkQ!Move, Undefined, workq, results,
    mainVars, workerVars, Kept, Unsent, HasWork, Destroying, TypeParts, Calls, Thread, WorkQ!TypeOK,
    Results!TypeOK, WorkerTypes
<1>14. CASE WorkReceived
  BY <1>14 DEF WorkReceived, WorkQ!Receive, WorkQ!Return, WorkQ!Move, results, mainVars, Kept, Unsent, HasWork, Destroying, TypeParts, Calls, Thread, WorkQ!TypeOK,
    Results!TypeOK, WorkerTypes
<1>15. CASE ReadFreedQueue
  BY <1>15 DEF ReadFreedQueue, Undefined, workq, results, mainVars, workerVars, Kept, Unsent, HasWork, Destroying, TypeParts, Calls, Thread, WorkQ!TypeOK,
    Results!TypeOK, WorkerTypes
<1>16. CASE set_bench_params
  BY <1>16 DEF set_bench_params, Worker, workq, results, mainVars, Kept, Unsent, HasWork, Destroying, TypeParts, Calls, Thread, WorkQ!TypeOK,
    Results!TypeOK, WorkerTypes
<1>17. CASE read_all
  BY <1>17 DEF read_all, Fails, workq, results, mainVars, Kept, Unsent, HasWork, Destroying, TypeParts, Calls, Thread, WorkQ!TypeOK,
    Results!TypeOK, WorkerTypes
<1>18. CASE MeasureAndSend
  BY <1>18 DEF MeasureAndSend, Worker, Results!CallSend, Results!Move, Undefined, workq,
    results, mainVars, workerVars, Kept, Unsent, HasWork, Destroying, TypeParts, Calls, Thread, WorkQ!TypeOK,
    Results!TypeOK, WorkerTypes
<1>19. CASE SampleSent
  BY <1>19 DEF SampleSent, Fails, Results!Send, Results!SendFails, Results!Return,
    Results!Move, AfterSend, workq, mainVars, Kept, Unsent, HasWork, Destroying, TypeParts, Calls, Thread, WorkQ!TypeOK,
    Results!TypeOK, WorkerTypes
<1> QED BY <1>1, <1>2, <1>3, <1>4, <1>5, <1>6, <1>7, <1>8, <1>9, <1>10, <1>11, <1>12, <1>13,
     <1>14, <1>15, <1>16, <1>17, <1>18, <1>19 DEF Next, MainStep, WorkerStep

LEMMA UndefinedCausesStep == TypeParts /\ OneWork /\ Created /\ Counted /\ Opened /\ Next => UndefinedCauses'
<1> SUFFICES ASSUME TypeParts, OneWork, Created, Counted, Opened, Next PROVE UndefinedCauses'
  OBVIOUS
<1> USE Running
<1>1. CASE InitResults
  BY <1>1 DEF InitResults, Main, Fails, Results!Open, workq, workerVars, results, UndefinedCauses,
    Opened, Created, MainTypes, WorkerTypes, Calls, TypeParts
<1>2. CASE InitWorkq
  BY <1>2 DEF InitWorkq, Main, Fails, WorkQ!Open, results, workerVars, workq, UndefinedCauses,
    Opened, Created, MainTypes, WorkerTypes, Calls, TypeParts
<1>3. CASE CreateThread
  BY <1>3 DEF CreateThread, Main, Worker, Fails, workq, results, UndefinedCauses, Opened, Created,
    MainTypes, WorkerTypes, Calls, TypeParts
<1>4. CASE create_csv
  BY <1>4 DEF create_csv, Main, Fails, workq, results, workerVars, UndefinedCauses, Opened,
    Created, MainTypes, WorkerTypes, Calls, TypeParts
<1>5. CASE SendWork
  BY <1>5 DEF SendWork, Main, WorkQ!CallSend, WorkQ!Move, Undefined, workq, results, mainVars,
    workerVars, UndefinedCauses, Opened, Created, MainTypes, WorkerTypes, Calls, TypeParts
<1>6. CASE WorkSent
  BY <1>6 DEF WorkSent, Fails, WorkQ!Send, WorkQ!SendFails, WorkQ!Return, WorkQ!Move, results,
    workerVars, UndefinedCauses, Opened, Created, MainTypes, WorkerTypes, Calls, TypeParts
<1>7. CASE ReceiveSample
  BY <1>7 DEF ReceiveSample, Main, Results!CallReceive, Results!Move, Undefined, workq,
    results, mainVars, workerVars, UndefinedCauses, Opened, Created, MainTypes, WorkerTypes, Calls,
      TypeParts
<1>8. CASE SampleReceived
  BY <1>8 DEF SampleReceived, Results!Receive, Results!Return, Results!Move, workq, workerVars,
    UndefinedCauses, Opened, Created, MainTypes, WorkerTypes, Calls, TypeParts
<1>9. CASE WriteSample
  BY <1>9 DEF WriteSample, Fails, CountSample, AfterSample, workq, results, workerVars,
    UndefinedCauses, Opened, Created, MainTypes, WorkerTypes, Calls, TypeParts
<1>10. CASE DestroyWorkq
  <2>1. Len(wItems) = 0 /\ fate = "running"
    BY <1>10, CountedLeaves, Running DEF OnlyWaitingWorkerLeft, DestroyWorkq, Main, Destroying
  <2> QED BY <2>1, <1>10 DEF DestroyWorkq, FreeQueue, UndefinedCauses
<1>11. CASE DestroyResults
  <2>1. Len(rItems) = 0 /\ fate = "running"
    BY <1>11, CountedLeaves, Running DEF OnlyWaitingWorkerLeft, DestroyResults, Main, Destroying
  <2> QED BY <2>1, <1>11 DEF DestroyResults, FreeQueue, UndefinedCauses
<1>12. CASE ReturnFromMain
  BY <1>12 DEF ReturnFromMain, workq, results, mainVars, workerVars, UndefinedCauses, Opened,
    Created, MainTypes, WorkerTypes, Calls, TypeParts
<1>13. CASE ReceiveWork
  BY <1>13 DEF ReceiveWork, Worker, WorkQ!CallReceive, WorkQ!Move, Undefined, workq, results,
    mainVars, workerVars, UndefinedCauses, Opened, Created, MainTypes, WorkerTypes, Calls, TypeParts
<1>14. CASE WorkReceived
  BY <1>14 DEF WorkReceived, WorkQ!Receive, WorkQ!Return, WorkQ!Move, results, mainVars,
    UndefinedCauses, Opened, Created, MainTypes, WorkerTypes, Calls, TypeParts
<1>15. CASE ReadFreedQueue
  BY <1>15 DEF ReadFreedQueue, Undefined, workq, results, mainVars, workerVars, UndefinedCauses,
    Opened, Created, MainTypes, WorkerTypes, Calls, TypeParts
<1>16. CASE set_bench_params
  BY <1>16 DEF set_bench_params, Worker, workq, results, mainVars, UndefinedCauses, Opened,
    Created, MainTypes, WorkerTypes, Calls, TypeParts
<1>17. CASE read_all
  BY <1>17 DEF read_all, Fails, workq, results, mainVars, UndefinedCauses, Opened, Created,
    MainTypes, WorkerTypes, Calls, TypeParts
<1>18. CASE MeasureAndSend
  <2>1. fate = "running" /\ ~Destroying
    BY <1>18, CountedLeaves, Running DEF OnlyWaitingWorkerLeft, MeasureAndSend, Worker
  <2> QED BY <1>18, <2>1 DEF MeasureAndSend, Worker, Results!CallSend, Results!Move, Undefined,
       workq, results, mainVars, workerVars, Destroying, Opened, Created, UndefinedCauses
<1>19. CASE SampleSent
  BY <1>19 DEF SampleSent, Fails, Results!Send, Results!SendFails, Results!Return,
    Results!Move, AfterSend, workq, mainVars, UndefinedCauses, Opened, Created, MainTypes,
      WorkerTypes, Calls, TypeParts
<1> QED BY <1>1, <1>2, <1>3, <1>4, <1>5, <1>6, <1>7, <1>8, <1>9, <1>10, <1>11, <1>12, <1>13,
     <1>14, <1>15, <1>16, <1>17, <1>18, <1>19 DEF Next, MainStep, WorkerStep

------------------------------------------------------------------------------
(* The invariant *)

LEMMA IInvInit == Init => IInv
<1> SUFFICES ASSUME Init PROVE IInv
  OBVIOUS
<1> USE SizeAssumption
<1>1. TypeInv
  BY TypeInit
<1>2. InHand = <<>> /\ SendsMade = 0
  BY DEF Init, Results!Init, Thread, InHand, SendsMade
<1>3. Cardinality(lost) = 0
  BY FS_EmptySet DEF Init
<1>4. Counted
  BY <1>2, <1>3 DEF Init, Results!Init, Counted, SamplesConserved
<1>5. OneWork
  BY DEF Init, WorkQ!Init, Thread, OneWork, HasWork, Unsent
<1>6. Ordered /\ CsvCreated /\ Opened /\ Created /\ Exited /\ UndefinedCauses
  BY <1>2 DEF Init, Results!Init, Ordered, CsvCreated, Opened, Created, Exited, UndefinedCauses
<1>10. Kept
  BY DEF Init, Kept, Unsent
<1>7. csv = [k \in 1 .. samples_collected |-> k]
  BY DEF Init
<1>8. Numbered
  BY <1>2, <1>7 DEF Init, Results!Init, Numbered
<1>9. Reading
  BY DEF Init, Reading
<1> QED BY <1>1, <1>4, <1>5, <1>6, <1>8, <1>9, <1>10 DEF IInv

LEMMA IInvStep == IInv /\ [Next]_vars => IInv'
<1> SUFFICES ASSUME IInv, [Next]_vars PROVE IInv'
  OBVIOUS
<1>1. TypeInv'
  BY TypeStep DEF IInv
<1>2. TypeParts
  BY TypeInvParts DEF IInv
<1>3. CASE Next
  BY <1>1, <1>2, <1>3, OneWorkStep, CountedStep, OrderedStep, NumberedStep, CsvCreatedStep,
     OpenedStep, CreatedStep, ReadingStep, ExitedStep, KeptStep,
     UndefinedCausesStep DEF IInv
<1>4. CASE UNCHANGED vars
  <2> USE <1>4 DEF IInv, vars, workq, results, mainVars, workerVars
  <2>1. InHand' = InHand /\ SendsMade' = SendsMade
    BY DEF InHand, SendsMade
  <2>2. OneWork' /\ Created' /\ CsvCreated' /\ Opened' /\ Exited' /\ UndefinedCauses' /\ Kept'
    BY DEF OneWork, HasWork, Unsent, Created, CsvCreated, Opened, Exited, UndefinedCauses,
      Kept, Destroying
  <2>3. Counted' /\ Ordered' /\ Numbered' /\ Reading'
    BY <2>1 DEF Counted, SamplesConserved, Ordered, Numbered, Reading
  <2> QED BY <1>1, <2>2, <2>3
<1> QED BY <1>3, <1>4

(* The inductive invariant: the parts above, each kept by every step.     *)
THEOREM Invariant == Spec => []IInv
  BY IInvInit, IInvStep, PTL DEF Spec

(* No sample is counted twice or not at all, for any number of samples and *)
(* any calls that fail.                                                    *)
THEOREM SamplesAreConserved == Spec => []SamplesConserved
<1>1. IInv => SamplesConserved
  BY DEF IInv, Counted
<1> QED BY <1>1, Invariant, PTL

(* The rows of the CSV file are in the order of the measurements.          *)
THEOREM RowsAreInOrder == Spec => []RowsInOrder
<1>1. IInv => RowsInOrder
  BY TypeInvParts, OrderedIncreases DEF IInv
<1> QED BY <1>1, Invariant, PTL

(* When main destroys the mailboxes the worker is out of all their calls   *)
(* except that for the next work.                                          *)
THEOREM OnlyWaitingWorkerIsLeft == Spec => []OnlyWaitingWorkerLeft
<1>1. IInv => OnlyWaitingWorkerLeft
  BY TypeInvParts, CountedLeaves DEF IInv
<1> QED BY <1>1, Invariant, PTL

(* A run that ends leaves all the rows in the file.                        *)
THEOREM CsvIsComplete == Spec => []CsvComplete
<1>1. IInv => CsvComplete
  <2> SUFFICES ASSUME IInv, fate = "exited", "csv" \notin failures
               PROVE  csv = [k \in Sample |-> k]
    BY DEF CsvComplete
  <2>1. Destroying /\ samples_collected = SAMPLE_SIZE
    BY DEF IInv, Exited, TypeInv, Loops, Destroying
  <2>2. lost = {}
    BY <2>1, TypeInvParts, CountedLeaves DEF IInv, OnlyWaitingWorkerLeft
  <2> QED BY <2>1, <2>2 DEF IInv, Numbered, Sample
<1> QED BY <1>1, Invariant, PTL

(* When main and the worker wait for each other, a send has failed or      *)
(* there is no worker: a message in a mailbox is never waited for, and a   *)
(* sample that was sent is never missing.                                  *)
LEMMA StuckByFailure ==
  ASSUME IInv, Stuck
  PROVE  failures \cap {"send", "create"} # {}
<1> USE SizeAssumption
<1>1. mpc = "receiving" /\ ~Destroying /\ ~Unsent
  BY TypeInvParts DEF IInv, Stuck, TypeParts, Calls, Destroying, Unsent
<1>2. CASE wpc = "none"
  BY <1>1, <1>2 DEF IInv, Kept
<1>3. CASE wpc # "none" /\ "send" \notin failures
  <2>1. wpc = "receiving" /\ wStage["worker"] = "receiving" /\ wItems = <<>>
    BY <1>3, TypeInvParts DEF IInv, Stuck, TypeParts, Calls
  <2>2. i > 0
    BY <1>1, <1>3, <2>1 DEF IInv, Kept, HasWork
  <2>3. i = SAMPLE_SIZE /\ SendsMade = SAMPLE_SIZE
    BY <2>1, <2>2, TypeInvParts DEF IInv, OneWork, SendsMade, TypeParts, Calls
  <2>4. lost = {} /\ Cardinality(lost) = 0
    BY <1>3, FS_EmptySet DEF IInv, Kept
  <2>5. Len(rItems) = 0 /\ Len(InHand) = 0
    BY <1>1 DEF Stuck, InHand
  <2>6. samples_collected \in 0 .. SAMPLE_SIZE
    BY TypeInvParts DEF IInv, TypeParts, MainTypes
  <2>7. samples_collected = SAMPLE_SIZE
    BY <2>3, <2>4, <2>5, <2>6 DEF IInv, Counted, SamplesConserved
  <2>. QED BY <1>1, <2>7 DEF IInv, TypeInv, Loops
<1>. QED BY <1>2, <1>3

(* Nothing but the causes it names makes the behaviour undefined or leaves *)
(* the threads waiting for each other.                                     *)
THEOREM CausesAreKnown == Spec => []KnownCauses
<1>1. IInv => KnownCauses
  BY StuckByFailure DEF IInv, KnownCauses
<1> QED BY <1>1, Invariant, PTL

(* For any file and any way to split its reads, the buffer is the input.   *)
THEOREM InputIsRead == Spec => []InputRead
<1>1. IInv => InputRead
  BY DEF IInv, Reading, InputRead
<1> QED BY <1>1, Invariant, PTL

------------------------------------------------------------------------------
(* The refinement *)

(* What Benchmark sees of a step that it does not see.                     *)
Hidden ==
  /\ SendsMade' = SendsMade /\ InHand' \o rItems' = InHand \o rItems
  /\ samples_collected' = samples_collected /\ csv' = csv
  /\ fate' # "exited"

LEMMA HiddenStutters == ASSUME fate = "running", Hidden PROVE UNCHANGED Promise!vars
<1>1. (fate' = "exited") = (fate = "exited")
  BY DEF Hidden
<1> QED BY <1>1 DEF Hidden, Promise!vars

LEMMA InitImplements == Init => Promise!Init
<1> SUFFICES ASSUME Init PROVE Promise!Init
  OBVIOUS
<1>1. InHand = <<>> /\ SendsMade = 0 /\ rItems = <<>>
  BY DEF Init, Results!Init, Thread, InHand, SendsMade
<1>2. InHand \o rItems = <<>>
  BY <1>1
<1>3. (fate = "exited") = FALSE
  BY DEF Init
<1> QED BY <1>1, <1>2, <1>3 DEF Init, Promise!Init

LEMMA InFront ==
  ASSUME NEW S, NEW m, NEW s \in Seq(S)
  PROVE  /\ <<m>> \o s # <<>> /\ Head(<<m>> \o s) = m /\ Tail(<<m>> \o s) = s
         /\ <<>> \o s = s
         /\ s # <<>> => <<Head(s)>> \o Tail(s) = s
OBVIOUS

LEMMA Behind ==
  ASSUME NEW S, NEW s \in Seq(S), NEW t \in Seq(S), NEW m \in S
  PROVE  s \o Append(t, m) = Append(s \o t, m)
OBVIOUS

LEMMA InHandIs ==
  ASSUME TypeParts
  PROVE  /\ InHand \in Seq(Sample)
         /\ mpc = "write" => InHand = <<rMsg["main"]>>
         /\ mpc \notin {"receiving", "write"} => InHand = <<>>
BY DEF InHand, TypeParts, Calls

(* Every step is one of Benchmark's, or Benchmark does not see it.         *)
LEMMA StepImplements ==
  TypeParts /\ Created /\ OneWork /\ Counted /\ [Next]_vars => [Promise!Next]_(Promise!vars)
<1> SUFFICES ASSUME TypeParts, Created, OneWork, Counted, [Next]_vars
             PROVE  Promise!Next \/ UNCHANGED Promise!vars
  OBVIOUS
<1>0. CASE UNCHANGED vars
  <2>1. /\ fate' = fate /\ rItems' = rItems /\ rStage' = rStage /\ rMsg' = rMsg
        /\ mpc' = mpc /\ i' = i /\ csv' = csv /\ samples_collected' = samples_collected
    BY <1>0 DEF vars, results, mainVars, workerVars
  <2>2. SendsMade' = SendsMade /\ InHand' = InHand
    BY <2>1 DEF SendsMade, InHand
  <2> QED BY <2>1, <2>2 DEF Promise!vars
<1>. SUFFICES ASSUME Next PROVE Promise!Next \/ UNCHANGED Promise!vars
  BY <1>0
<1>1. (fate = "exited") = FALSE
  BY Running
<1>2. CASE InitResults
  <2>1. SendsMade' = SendsMade /\ InHand' = InHand /\ rItems' = rItems
    BY <1>2 DEF InitResults, Main, Fails, Results!Open, workq, workerVars, results, SendsMade,
      InHand, TypeParts, Calls, Results!TypeOK, Thread
  <2>2. samples_collected' = samples_collected /\ csv' = csv /\ fate' # "exited"
    BY <1>2, Running DEF InitResults, Main, Fails, Results!Open, workq, workerVars, results
  <2> QED BY <2>1, <2>2, HiddenStutters, Running DEF Hidden
<1>3. CASE InitWorkq
  <2>1. SendsMade' = SendsMade /\ InHand' = InHand /\ rItems' = rItems
    BY <1>3 DEF InitWorkq, Main, Fails, WorkQ!Open, results, workerVars, workq, SendsMade,
      InHand, TypeParts, Calls, Results!TypeOK, Thread
  <2>2. samples_collected' = samples_collected /\ csv' = csv /\ fate' # "exited"
    BY <1>3, Running DEF InitWorkq, Main, Fails, WorkQ!Open, results, workerVars, workq
  <2> QED BY <2>1, <2>2, HiddenStutters, Running DEF Hidden
<1>4. CASE CreateThread
  <2>1. SendsMade' = SendsMade /\ InHand' = InHand /\ rItems' = rItems
    BY <1>4 DEF CreateThread, Main, Worker, Fails, workq, results, SendsMade, InHand, TypeParts,
      Calls, Results!TypeOK, Thread
  <2>2. samples_collected' = samples_collected /\ csv' = csv /\ fate' # "exited"
    BY <1>4, Running DEF CreateThread, Main, Worker, Fails, workq, results
  <2> QED BY <2>1, <2>2, HiddenStutters, Running DEF Hidden
<1>5. CASE create_csv
  <2>1. SendsMade' = SendsMade /\ InHand' = InHand /\ rItems' = rItems
    BY <1>5 DEF create_csv, Main, Fails, workq, results, workerVars, SendsMade, InHand,
      TypeParts, Calls, Results!TypeOK, Thread
  <2>2. samples_collected' = samples_collected /\ csv' = csv /\ fate' # "exited"
    BY <1>5, Running DEF create_csv, Main, Fails, workq, results, workerVars
  <2> QED BY <2>1, <2>2, HiddenStutters, Running DEF Hidden
<1>6. CASE SendWork
  <2>1. SendsMade' = SendsMade /\ InHand' = InHand /\ rItems' = rItems
    BY <1>6 DEF SendWork, Main, WorkQ!CallSend, WorkQ!Move, Undefined, workq, results, mainVars,
      workerVars, SendsMade, InHand, TypeParts, Calls, Results!TypeOK, Thread
  <2>2. samples_collected' = samples_collected /\ csv' = csv /\ fate' # "exited"
    BY <1>6, Running DEF SendWork, Main, WorkQ!CallSend, WorkQ!Move, Undefined, workq, results,
      mainVars, workerVars
  <2> QED BY <2>1, <2>2, HiddenStutters, Running DEF Hidden
<1>7. CASE WorkSent
  <2>1. SendsMade' = SendsMade /\ InHand' = InHand /\ rItems' = rItems
    BY <1>7 DEF WorkSent, Fails, WorkQ!Send, WorkQ!SendFails, WorkQ!Return, WorkQ!Move, results,
      workerVars, SendsMade, InHand, TypeParts, Calls, Results!TypeOK, Thread
  <2>2. samples_collected' = samples_collected /\ csv' = csv /\ fate' # "exited"
    BY <1>7, Running DEF WorkSent, Fails, WorkQ!Send, WorkQ!SendFails, WorkQ!Return, WorkQ!Move,
      results, workerVars
  <2> QED BY <2>1, <2>2, HiddenStutters, Running DEF Hidden
<1>8. CASE ReceiveSample
  <2>1. SendsMade' = SendsMade /\ InHand' = InHand /\ rItems' = rItems
    BY <1>8 DEF ReceiveSample, Main, Results!CallReceive, Results!Move, Undefined, workq,
      results, mainVars, workerVars, SendsMade, InHand, TypeParts, Calls, Results!TypeOK, Thread
  <2>2. samples_collected' = samples_collected /\ csv' = csv /\ fate' # "exited"
    BY <1>8, Running DEF ReceiveSample, Main, Results!CallReceive, Results!Move, Undefined,
      workq, results, mainVars, workerVars
  <2> QED BY <2>1, <2>2, HiddenStutters, Running DEF Hidden
<1>9. CASE SampleReceived
  <2>1. /\ mpc = "receiving" /\ i' = i /\ csv' = csv /\ samples_collected' = samples_collected
        /\ rItems \in Seq(Sample) /\ fate' # "exited"
    BY <1>9, Running DEF SampleReceived, workerVars, TypeParts, Results!TypeOK
  <2>2. rStage'["worker"] = rStage["worker"]
    BY <1>9 DEF SampleReceived, Results!Receive, Results!Return, Results!Move, TypeParts,
      Results!TypeOK, Thread
  <2>3. SendsMade' = SendsMade
    BY <2>1, <2>2 DEF SendsMade
  <2>4. CASE Results!Receive("main") /\ mpc' = mpc
    <3>1. InHand = <<>>
      BY <2>1, <2>4 DEF Results!Receive, Results!Move, InHand
    <3>2. InHand' = <<Head(rItems)>> /\ rItems' = Tail(rItems) /\ rItems # <<>>
      BY <2>4 DEF Results!Receive, Results!Move, InHand, TypeParts, Results!TypeOK, Thread
    <3>3. InHand' \o rItems' = InHand \o rItems
      BY <2>1, <3>1, <3>2, InFront
    <3> QED BY <2>1, <2>3, <3>3, HiddenStutters, Running DEF Hidden
  <2>5. CASE Results!Return("main") /\ mpc' = "write"
    <3>1. rItems' = rItems /\ rMsg' = rMsg /\ rStage["main"] = "received"
      BY <2>1, <2>5 DEF Results!Return, Results!Move, TypeParts, Calls
    <3>2. InHand' = InHand
      BY <2>5, <3>1 DEF InHand
    <3> QED BY <2>1, <2>3, <3>1, <3>2, HiddenStutters, Running DEF Hidden
  <2> QED BY <1>9, <2>4, <2>5 DEF SampleReceived
<1>10. CASE WriteSample
  <2>1. /\ mpc = "write" /\ samples_collected' = samples_collected + 1
        /\ mpc' \notin {"receiving", "write"} /\ rItems' = rItems /\ rStage' = rStage
        /\ csv' \in {csv, Append(csv, rMsg["main"])} /\ i' = i /\ fate' = fate
        /\ rItems \in Seq(Sample)
    BY <1>10 DEF WriteSample, CountSample, AfterSample, results, workerVars, TypeParts,
      Results!TypeOK
  <2>2. SendsMade' = SendsMade
    BY <2>1 DEF SendsMade
  <2>3. InHand = <<rMsg["main"]>> /\ InHand' = <<>>
    BY <2>1 DEF InHand, TypeParts, Calls
  <2>4. /\ InHand \o rItems # <<>> /\ Head(InHand \o rItems) = rMsg["main"]
        /\ InHand' \o rItems' = Tail(InHand \o rItems)
    BY <2>1, <2>3, InFront
  <2>5. (fate' = "exited") = (fate = "exited")
    BY <2>1
  <2>6. Promise!Count
    BY <2>1, <2>2, <2>4, <2>5 DEF Promise!Count
  <2> QED BY <1>1, <2>6 DEF Promise!Next
<1>11. CASE DestroyWorkq
  <2>1. SendsMade' = SendsMade /\ InHand' = InHand /\ rItems' = rItems
    BY <1>11 DEF DestroyWorkq, Main, results, workerVars, SendsMade, InHand, TypeParts, Calls,
      Results!TypeOK, Thread
  <2>2. samples_collected' = samples_collected /\ csv' = csv /\ fate' # "exited"
    BY <1>11, Running DEF DestroyWorkq, Main, results, workerVars, FreeQueue
  <2> QED BY <2>1, <2>2, HiddenStutters, Running DEF Hidden
<1>12. CASE DestroyResults
  <2>1. /\ mpc = "destroy_results" /\ mpc' = "return" /\ rItems' = <<>> /\ rItems = <<>>
        /\ rStage' = rStage /\ rMsg' = rMsg /\ i' = i /\ csv' = csv
        /\ samples_collected' = samples_collected /\ fate' # "exited"
    BY <1>12, CountedLeaves, Running DEF DestroyResults, Main, FreeQueue, workerVars,
      OnlyWaitingWorkerLeft, Destroying
  <2>2. SendsMade' = SendsMade /\ InHand' = InHand
    BY <2>1 DEF SendsMade, InHand
  <2> QED BY <2>1, <2>2, HiddenStutters, Running DEF Hidden
<1>13. CASE ReturnFromMain
  <2>1. samples_collected = SAMPLE_SIZE
    BY <1>13 DEF ReturnFromMain, TypeParts, Loops, Destroying
  <2>2. /\ fate' = "exited" /\ rItems' = rItems /\ rStage' = rStage /\ rMsg' = rMsg
        /\ mpc' = mpc /\ i' = i /\ csv' = csv /\ samples_collected' = samples_collected
    BY <1>13 DEF ReturnFromMain, results, mainVars, workerVars
  <2>3. SendsMade' = SendsMade /\ InHand' = InHand
    BY <2>2 DEF SendsMade, InHand
  <2>4. (fate' = "exited") = TRUE
    BY <2>2
  <2>5. Promise!End
    BY <2>1, <2>2, <2>3, <2>4 DEF Promise!End
  <2> QED BY <1>1, <2>5 DEF Promise!Next
<1>14. CASE ReceiveWork
  <2>1. SendsMade' = SendsMade /\ InHand' = InHand /\ rItems' = rItems
    BY <1>14 DEF ReceiveWork, Worker, WorkQ!CallReceive, WorkQ!Move, Undefined, workq, results,
      mainVars, workerVars, SendsMade, InHand, TypeParts, Calls, Results!TypeOK, Thread
  <2>2. samples_collected' = samples_collected /\ csv' = csv /\ fate' # "exited"
    BY <1>14, Running DEF ReceiveWork, Worker, WorkQ!CallReceive, WorkQ!Move, Undefined, workq,
      results, mainVars, workerVars
  <2> QED BY <2>1, <2>2, HiddenStutters, Running DEF Hidden
<1>15. CASE WorkReceived
  <2>1. SendsMade' = SendsMade /\ InHand' = InHand /\ rItems' = rItems
    BY <1>15 DEF WorkReceived, WorkQ!Receive, WorkQ!Return, WorkQ!Move, results, mainVars,
      SendsMade, InHand, TypeParts, Calls, Results!TypeOK, Thread
  <2>2. samples_collected' = samples_collected /\ csv' = csv /\ fate' # "exited"
    BY <1>15, Running DEF WorkReceived, WorkQ!Receive, WorkQ!Return, WorkQ!Move, results,
      mainVars
  <2> QED BY <2>1, <2>2, HiddenStutters, Running DEF Hidden
<1>16. CASE ReadFreedQueue
  <2>1. SendsMade' = SendsMade /\ InHand' = InHand /\ rItems' = rItems
    BY <1>16 DEF ReadFreedQueue, Undefined, workq, results, mainVars, workerVars, SendsMade,
      InHand, TypeParts, Calls, Results!TypeOK, Thread
  <2>2. samples_collected' = samples_collected /\ csv' = csv /\ fate' # "exited"
    BY <1>16, Running DEF ReadFreedQueue, Undefined, workq, results, mainVars, workerVars
  <2> QED BY <2>1, <2>2, HiddenStutters, Running DEF Hidden
<1>17. CASE set_bench_params
  <2>1. SendsMade' = SendsMade /\ InHand' = InHand /\ rItems' = rItems
    BY <1>17 DEF set_bench_params, Worker, workq, results, mainVars, SendsMade, InHand,
      TypeParts, Calls, Results!TypeOK, Thread, OneWork
  <2>2. samples_collected' = samples_collected /\ csv' = csv /\ fate' # "exited"
    BY <1>17, Running DEF set_bench_params, Worker, workq, results, mainVars
  <2> QED BY <2>1, <2>2, HiddenStutters, Running DEF Hidden
<1>18. CASE read_all
  <2>1. SendsMade' = SendsMade /\ InHand' = InHand /\ rItems' = rItems
    BY <1>18 DEF read_all, Fails, workq, results, mainVars, SendsMade, InHand, TypeParts, Calls,
      Results!TypeOK, Thread
  <2>2. samples_collected' = samples_collected /\ csv' = csv /\ fate' # "exited"
    BY <1>18, Running DEF read_all, Fails, workq, results, mainVars
  <2> QED BY <2>1, <2>2, HiddenStutters, Running DEF Hidden
<1>19. CASE MeasureAndSend
  <2>1. SendsMade' = SendsMade /\ InHand' = InHand /\ rItems' = rItems
    BY <1>19 DEF MeasureAndSend, Worker, Results!CallSend, Results!Move, Undefined, workq,
      results, mainVars, workerVars, SendsMade, InHand, TypeParts, Calls, Results!TypeOK, Thread
  <2>2. samples_collected' = samples_collected /\ csv' = csv /\ fate' # "exited"
    BY <1>19, Running DEF MeasureAndSend, Worker, Results!CallSend, Results!Move, Undefined,
      workq, results, mainVars, workerVars
  <2> QED BY <2>1, <2>2, HiddenStutters, Running DEF Hidden
<1>20. CASE SampleSent
  <2>1. /\ wpc = "sending" /\ mpc' = mpc /\ csv' = csv
        /\ samples_collected' = samples_collected /\ fate' = fate
        /\ rMsg' = rMsg /\ rMsg["worker"] = i + 1 /\ i < SAMPLE_SIZE
    BY <1>20 DEF SampleSent, mainVars, Results!Send, Results!SendFails, Results!Return,
      TypeParts, Calls, Loops
  <2>2. rStage'["main"] = rStage["main"]
    BY <1>20 DEF SampleSent, Results!Send, Results!SendFails, Results!Return, Results!Move,
      TypeParts, Results!TypeOK, Thread
  <2>3. InHand' = InHand
    BY <2>1, <2>2 DEF InHand
  <2>4. (fate' = "exited") = (fate = "exited")
    BY <2>1
  <2>5. CASE /\ Results!Send("worker") \/ Results!SendFails("worker")
             /\ i' = i
    <3>1. /\ rStage["worker"] = "sending" /\ rStage'["worker"] = "sent"
          /\ rItems' \in {rItems, Append(rItems, i + 1)}
      BY <2>1, <2>5 DEF Results!Send, Results!SendFails, Results!Move, TypeParts,
        Results!TypeOK, Thread
    <3>2. SendsMade = i /\ SendsMade' = i + 1 /\ i \in Nat
      BY <2>5, <3>1 DEF SendsMade, TypeParts, WorkerTypes
    <3>3. rItems \in Seq(Sample) /\ i + 1 \in Sample
      BY <2>1, <3>2, SizeAssumption DEF TypeParts, Results!TypeOK, Sample
    <3>4. InHand \o Append(rItems, i + 1) = Append(InHand \o rItems, i + 1)
      BY <3>3, InHandIs, Behind
    <3>5. InHand' \o rItems' \in {InHand \o rItems, Append(InHand \o rItems, SendsMade')}
      BY <2>3, <3>1, <3>2, <3>4
    <3>6. Promise!Make
      BY <2>1, <2>4, <3>2, <3>5 DEF Promise!Make
    <3> QED BY <1>1, <3>6 DEF Promise!Next
  <2>6. CASE Results!Return("worker") /\ i' = i + 1
    <3>1. /\ rStage["worker"] = "sent" /\ rStage'["worker"] = "idle" /\ rItems' = rItems
      BY <2>1, <2>6 DEF Results!Return, Results!Move, TypeParts, Results!TypeOK, Thread, Calls
    <3>2. SendsMade' = SendsMade
      BY <2>6, <3>1 DEF SendsMade, TypeParts, WorkerTypes
    <3> QED BY <2>1, <2>3, <3>1, <3>2, HiddenStutters, Running DEF Hidden
  <2> QED BY <1>20, <2>5, <2>6 DEF SampleSent
<1> QED BY <1>2, <1>3, <1>4, <1>5, <1>6, <1>7, <1>8, <1>9, <1>10, <1>11, <1>12, <1>13, <1>14,
  <1>15, <1>16, <1>17, <1>18, <1>19, <1>20 DEF Next, MainStep, WorkerStep

(* Whatever fails, what the threads do to the samples is what Benchmark    *)
(* says.                                                                   *)
THEOREM Implements == Spec => ImplementsBenchmark
<1>1. IInv /\ [Next]_vars => [Promise!Next]_(Promise!vars)
  BY TypeInvParts, StepImplements DEF IInv
<1> QED BY <1>1, InitImplements, Invariant, PTL DEF Spec, Promise!Spec, ImplementsBenchmark

------------------------------------------------------------------------------
(* Every step counts *)

LeftTypes == MainLeft \in Nat /\ WorkerLeft \in Nat

LEMMA LeftIsNat == TypeParts /\ OneWork => LeftTypes
<1> SUFFICES ASSUME TypeParts, OneWork PROVE LeftTypes
  OBVIOUS
<1>1. samples_collected \in 0 .. SAMPLE_SIZE /\ i \in 0 .. SAMPLE_SIZE /\ SAMPLE_SIZE \in Nat
      /\ readin \in 0 .. FILE_SIZE /\ FILE_SIZE \in Nat
  BY SizeAssumption DEF TypeParts, MainTypes, WorkerTypes
<1>2. MainLeft \in Nat
  BY <1>1 DEF MainLeft, Effect, TypeParts, MainTypes, MainPc, Calls, Loops, Destroying
<1>3. WorkerLeft \in Nat
  BY <1>1 DEF WorkerLeft, Effect, TypeParts, WorkerTypes, WorkerPc, Calls, Loops, OneWork
<1> QED BY <1>2, <1>3 DEF LeftTypes

(* A step of main brings main nearer to its end, a step of the worker the  *)
(* worker, or the process ends.                                            *)
Counts ==
  \/ MainLeft' < MainLeft /\ WorkerLeft' = WorkerLeft
  \/ MainLeft' = MainLeft /\ WorkerLeft' < WorkerLeft
  \/ MainLeft' = MainLeft /\ WorkerLeft' = WorkerLeft /\ fate' # "running"

LEMMA WorkerLeftKept ==
  ASSUME UNCHANGED <<wpc, i, readin>>, wStage'["worker"] = wStage["worker"],
         rStage'["worker"] = rStage["worker"]
  PROVE  WorkerLeft' = WorkerLeft
BY DEF WorkerLeft

LEMMA MainLeftKept ==
  ASSUME UNCHANGED <<mpc, samples_collected>>, wStage'["main"] = wStage["main"],
         rStage'["main"] = rStage["main"]
  PROVE  MainLeft' = MainLeft
BY DEF MainLeft

LEMMA UndefinedCounts == ASSUME Undefined PROVE Counts
<1>1. fate' # "running" /\ mpc' = mpc /\ samples_collected' = samples_collected /\ wpc' = wpc
      /\ i' = i /\ readin' = readin /\ wStage' = wStage /\ rStage' = rStage
  BY DEF Undefined, workq, results, mainVars, workerVars
<1> QED BY <1>1, WorkerLeftKept, MainLeftKept DEF Counts

(* A step of main to the next line, which is not within a call.            *)
LEMMA MainMovesOn ==
  ASSUME TypeParts, NEW from, NEW to,
         <<from, to>> \in {<<"init_results", "init_workq">>, <<"init_workq", "create_thread">>,
           <<"create_thread", "create_csv">>, <<"create_csv", "send_work">>,
           <<"destroy_workq", "destroy_results">>, <<"destroy_results", "return">>},
         Main(from, to), UNCHANGED <<samples_collected, wStage, rStage>>
  PROVE  MainLeft' < MainLeft
<1>1. samples_collected \in 0 .. SAMPLE_SIZE /\ SAMPLE_SIZE \in Nat
  BY SizeAssumption DEF TypeParts, MainTypes
<1> QED BY <1>1 DEF Main, MainLeft, Effect

LEMMA NextCounts ==
  ASSUME TypeParts, OneWork, Next PROVE Counts \/ UNCHANGED vars
<1>1. samples_collected \in 0 .. SAMPLE_SIZE /\ i \in 0 .. SAMPLE_SIZE /\ SAMPLE_SIZE \in Nat
      /\ readin \in 0 .. FILE_SIZE /\ FILE_SIZE \in Nat
  BY SizeAssumption DEF TypeParts, MainTypes, WorkerTypes
<1>2. CASE InitResults
  <2>1. UNCHANGED <<wpc, i, readin, samples_collected, wStage, rStage>>
    BY <1>2 DEF InitResults, Results!Open, results, workq, workerVars
  <2> QED BY <1>2, <2>1, MainMovesOn, WorkerLeftKept DEF InitResults, Counts
<1>3. CASE InitWorkq
  <2>1. UNCHANGED <<wpc, i, readin, samples_collected, wStage, rStage>>
    BY <1>3 DEF InitWorkq, WorkQ!Open, results, workq, workerVars
  <2> QED BY <1>3, <2>1, MainMovesOn, WorkerLeftKept DEF InitWorkq, Counts
<1>4. CASE CreateThread
  <2>1. /\ UNCHANGED <<i, readin, samples_collected, wStage, rStage>>
        /\ wpc' = wpc \/ (wpc = "none" /\ wpc' = "recv")
    BY <1>4 DEF CreateThread, Worker, results, workq
  <2>2. WorkerLeft' = WorkerLeft
    BY <2>1 DEF WorkerLeft
  <2> QED BY <1>4, <2>1, <2>2, MainMovesOn DEF CreateThread, Counts
<1>5. CASE create_csv
  <2>1. UNCHANGED <<wpc, i, readin, samples_collected, wStage, rStage>>
    BY <1>5 DEF create_csv, results, workq, workerVars
  <2> QED BY <1>5, <2>1, MainMovesOn, WorkerLeftKept DEF create_csv, Counts
<1>6. CASE SendWork
  <2>1. CASE Main("send_work", "sending") /\ WorkQ!CallSend("main", "work")
    <3>1. /\ wStage["main"] = "idle" /\ wStage'["main"] = "sending"
          /\ wStage'["worker"] = wStage["worker"]
      BY <2>1 DEF WorkQ!CallSend, WorkQ!Move, TypeParts, WorkQ!TypeOK, Thread
    <3>2. /\ mpc = "send_work" /\ mpc' = "sending" /\ samples_collected' = samples_collected
          /\ rStage' = rStage /\ wpc' = wpc /\ i' = i /\ readin' = readin
      BY <1>6, <2>1 DEF SendWork, Main, Undefined, results, mainVars, workerVars
    <3> QED BY <1>1, <3>1, <3>2, WorkerLeftKept DEF Counts, MainLeft, Effect
  <2> QED BY <1>6, <2>1, UndefinedCounts DEF SendWork
<1>7. CASE WorkSent
  <2>1. mpc = "sending" /\ UNCHANGED <<wpc, i, readin, samples_collected, rStage>>
    BY <1>7 DEF WorkSent, results, workerVars
  <2>2. CASE (WorkQ!Send("main") \/ WorkQ!SendFails("main")) /\ mpc' = mpc
    <3>1. /\ wStage["main"] = "sending" /\ wStage'["main"] = "sent"
          /\ wStage'["worker"] = wStage["worker"]
      BY <2>2 DEF WorkQ!Send, WorkQ!SendFails, WorkQ!Move, TypeParts, WorkQ!TypeOK, Thread
    <3> QED BY <1>1, <2>1, <2>2, <3>1, WorkerLeftKept DEF Counts, MainLeft, Effect
  <2>3. CASE WorkQ!Return("main") /\ mpc' = "recv"
    <3>1. /\ wStage["main"] = "sent" /\ wStage'["main"] = "idle"
          /\ wStage'["worker"] = wStage["worker"]
      BY <2>1, <2>3 DEF WorkQ!Return, WorkQ!Move, TypeParts, WorkQ!TypeOK, Thread, Calls
    <3> QED BY <1>1, <2>1, <2>3, <3>1, WorkerLeftKept DEF Counts, MainLeft, Effect
  <2> QED BY <1>7, <2>2, <2>3 DEF WorkSent
<1>8. CASE ReceiveSample
  <2>1. CASE Main("recv", "receiving") /\ Results!CallReceive("main")
    <3>1. /\ rStage["main"] = "idle" /\ rStage'["main"] = "receiving"
          /\ rStage'["worker"] = rStage["worker"]
      BY <2>1 DEF Results!CallReceive, Results!Move, TypeParts, Results!TypeOK, Thread
    <3>2. /\ mpc = "recv" /\ mpc' = "receiving" /\ samples_collected' = samples_collected
          /\ wStage' = wStage /\ wpc' = wpc /\ i' = i /\ readin' = readin
      BY <1>8, <2>1 DEF ReceiveSample, Main, Undefined, workq, mainVars, workerVars
    <3> QED BY <1>1, <3>1, <3>2, WorkerLeftKept DEF Counts, MainLeft, Effect
  <2> QED BY <1>8, <2>1, UndefinedCounts DEF ReceiveSample
<1>9. CASE SampleReceived
  <2>1. mpc = "receiving" /\ UNCHANGED <<wpc, i, readin, samples_collected, wStage>>
    BY <1>9 DEF SampleReceived, workq, workerVars
  <2>2. CASE Results!Receive("main") /\ mpc' = mpc
    <3>1. /\ rStage["main"] = "receiving" /\ rStage'["main"] = "received"
          /\ rStage'["worker"] = rStage["worker"]
      BY <2>2 DEF Results!Receive, Results!Move, TypeParts, Results!TypeOK, Thread
    <3> QED BY <1>1, <2>1, <2>2, <3>1, WorkerLeftKept DEF Counts, MainLeft, Effect
  <2>3. CASE Results!Return("main") /\ mpc' = "write"
    <3>1. /\ rStage["main"] = "received" /\ rStage'["main"] = "idle"
          /\ rStage'["worker"] = rStage["worker"]
      BY <2>1, <2>3 DEF Results!Return, Results!Move, TypeParts, Results!TypeOK, Thread, Calls
    <3> QED BY <1>1, <2>1, <2>3, <3>1, WorkerLeftKept DEF Counts, MainLeft, Effect
  <2> QED BY <1>9, <2>2, <2>3 DEF SampleReceived
<1>10. CASE WriteSample
  <2>1. /\ mpc = "write" /\ mpc' \in {"recv", "destroy_workq"}
        /\ samples_collected' = samples_collected + 1
        /\ UNCHANGED <<wpc, i, readin, wStage, rStage>>
    BY <1>10 DEF WriteSample, CountSample, AfterSample, workq, results, workerVars
  <2>2. wStage["main"] = "idle" /\ rStage["main"] = "idle"
    BY <2>1 DEF TypeParts, Calls
  <2>3. MainLeft = 4 * (SAMPLE_SIZE - samples_collected) - 1
    BY <1>1, <2>1, <2>2 DEF MainLeft, Effect
  <2>4. MainLeft' = 4 * (SAMPLE_SIZE - samples_collected') + 2
    BY <1>1, <2>1, <2>2 DEF MainLeft, Effect
  <2>5. MainLeft' < MainLeft
    BY <1>1, <2>1, <2>3, <2>4
  <2> QED BY <2>1, <2>5, WorkerLeftKept DEF Counts
<1>11. CASE DestroyWorkq
  <2>1. UNCHANGED <<wpc, i, readin, samples_collected, wStage, rStage>>
    BY <1>11 DEF DestroyWorkq, results, workerVars
  <2> QED BY <1>11, <2>1, MainMovesOn, WorkerLeftKept DEF DestroyWorkq, Counts
<1>12. CASE DestroyResults
  <2>1. UNCHANGED <<wpc, i, readin, samples_collected, wStage, rStage>>
    BY <1>12 DEF DestroyResults, workq, workerVars
  <2> QED BY <1>12, <2>1, MainMovesOn, WorkerLeftKept DEF DestroyResults, Counts
<1>13. CASE ReturnFromMain
  <2>1. /\ UNCHANGED <<mpc, wpc, i, readin, samples_collected, wStage, rStage>>
        /\ fate' = "exited"
    BY <1>13 DEF ReturnFromMain, workq, results, mainVars, workerVars
  <2> QED BY <2>1, MainLeftKept, WorkerLeftKept DEF Counts
<1>14. CASE ReceiveWork
  <2>1. CASE Worker("recv", "receiving") /\ WorkQ!CallReceive("worker")
    <3>1. /\ wStage["worker"] = "idle" /\ wStage'["worker"] = "receiving"
          /\ wStage'["main"] = wStage["main"]
      BY <2>1 DEF WorkQ!CallReceive, WorkQ!Move, TypeParts, WorkQ!TypeOK, Thread
    <3>2. /\ wpc = "recv" /\ wpc' = "receiving" /\ i' = i /\ readin' = readin
          /\ rStage' = rStage /\ mpc' = mpc /\ samples_collected' = samples_collected
      BY <1>14, <2>1 DEF ReceiveWork, Worker, Undefined, results, mainVars, workerVars
    <3> QED BY <1>1, <3>1, <3>2, MainLeftKept DEF Counts, WorkerLeft, Effect
  <2> QED BY <1>14, <2>1, UndefinedCounts DEF ReceiveWork
<1>15. CASE WorkReceived
  <2>1. /\ wpc = "receiving" /\ i' = i /\ readin' = readin /\ rStage' = rStage
        /\ mpc' = mpc /\ samples_collected' = samples_collected
    BY <1>15 DEF WorkReceived, results, mainVars
  <2>2. CASE WorkQ!Receive("worker") /\ wpc' = wpc
    <3>1. /\ wStage["worker"] = "receiving" /\ wStage'["worker"] = "received"
          /\ wStage'["main"] = wStage["main"]
      BY <2>2 DEF WorkQ!Receive, WorkQ!Move, TypeParts, WorkQ!TypeOK, Thread
    <3> QED BY <1>1, <2>1, <2>2, <3>1, MainLeftKept DEF Counts, WorkerLeft, Effect
  <2>3. CASE WorkQ!Return("worker") /\ wpc' = "params"
    <3>1. /\ wStage["worker"] = "received" /\ wStage'["worker"] = "idle"
          /\ wStage'["main"] = wStage["main"]
      BY <2>1, <2>3 DEF WorkQ!Return, WorkQ!Move, TypeParts, WorkQ!TypeOK, Thread, Calls
    <3>2. i = 0
      BY <3>1 DEF OneWork
    <3> QED BY <1>1, <2>1, <2>3, <3>1, <3>2, MainLeftKept DEF Counts, WorkerLeft, Effect
  <2> QED BY <1>15, <2>2, <2>3 DEF WorkReceived
<1>16. CASE ReadFreedQueue
  BY <1>16, UndefinedCounts DEF ReadFreedQueue
<1>17. CASE set_bench_params
  <2>1. /\ wpc = "params" /\ wpc' = "read" /\ i = 0 /\ i' = 0 /\ readin' = 0
        /\ UNCHANGED <<mpc, samples_collected, wStage, rStage>>
    BY <1>17 DEF set_bench_params, Worker, workq, results, mainVars, OneWork
  <2>2. WorkerLeft' < WorkerLeft
    BY <1>1, <2>1 DEF WorkerLeft, Effect
  <2> QED BY <2>1, <2>2, MainLeftKept DEF Counts
<1>18. CASE read_all
  <2>1. /\ wpc = "read" /\ wpc' \in {"read", "measure"} /\ i' = i /\ i = 0
        /\ wStage' = wStage /\ rStage' = rStage
        /\ mpc' = mpc /\ samples_collected' = samples_collected
    BY <1>18 DEF read_all, workq, results, mainVars, OneWork
  <2>2. MainLeft' = MainLeft
    BY <2>1, MainLeftKept
  <2>3. WorkerLeft = 3 * SAMPLE_SIZE + (FILE_SIZE - readin + 2)
                       - Effect(wStage["worker"]) - Effect(rStage["worker"])
    BY <1>1, <2>1 DEF WorkerLeft
  <2>4. CASE wpc' = "measure"
    <3>1. WorkerLeft' = 3 * SAMPLE_SIZE + 1 - Effect(wStage["worker"]) - Effect(rStage["worker"])
      BY <1>1, <2>1, <2>4 DEF WorkerLeft
    <3> QED BY <1>1, <2>2, <2>3, <3>1 DEF Counts, Effect
  <2>5. CASE wpc' = "read"
    <3>1. readin' \in Nat /\ readin' >= readin
          /\ (readin' = readin => data' = data /\ failures' = failures)
      <4>1. PICK ret \in 0 .. FILE_SIZE - readin :
              /\ data' = [k \in DOMAIN data |->
                   IF k \in readin .. readin + ret - 1 THEN k ELSE data[k]]
              /\ readin' = readin + ret /\ failures' = failures
        BY <1>18, <2>5 DEF read_all
      <4>2. readin' = readin => ret = 0
        BY <1>1, <4>1
      <4>3. ret = 0 => readin .. readin + ret - 1 = {}
        BY <1>1
      <4>4. data = [k \in DOMAIN data |-> data[k]]
        BY DEF TypeParts, WorkerTypes
      <4>5. ret = 0 => data' = data
        BY <4>1, <4>3, <4>4
      <4> QED BY <1>1, <4>1, <4>2, <4>5
    <3>2. WorkerLeft' = 3 * SAMPLE_SIZE + (FILE_SIZE - readin' + 2)
                          - Effect(wStage["worker"]) - Effect(rStage["worker"])
      BY <1>1, <2>1, <2>5 DEF WorkerLeft
    <3>3. CASE readin' > readin
      <4>1. Effect(wStage["worker"]) \in Nat /\ Effect(rStage["worker"]) \in Nat
        BY DEF Effect
      <4>2. WorkerLeft' < WorkerLeft
        BY <1>1, <2>3, <3>1, <3>2, <3>3, <4>1
      <4> QED BY <2>2, <4>2 DEF Counts
    <3>4. CASE readin' = readin
      BY <1>18, <2>1, <2>5, <3>1, <3>4 DEF read_all, vars, workq, results, mainVars, workerVars
    <3> QED BY <1>1, <3>1, <3>3, <3>4
  <2> QED BY <2>1, <2>4, <2>5
<1>19. CASE MeasureAndSend
  <2>1. CASE Worker("measure", "sending") /\ Results!CallSend("worker", i + 1)
    <3>1. /\ rStage["worker"] = "idle" /\ rStage'["worker"] = "sending"
          /\ rStage'["main"] = rStage["main"]
      BY <2>1 DEF Results!CallSend, Results!Move, TypeParts, Results!TypeOK, Thread
    <3>2. /\ wpc = "measure" /\ wpc' = "sending" /\ i' = i /\ readin' = readin
          /\ wStage' = wStage /\ mpc' = mpc /\ samples_collected' = samples_collected
      BY <1>19, <2>1 DEF MeasureAndSend, Worker, Undefined, workq, mainVars, workerVars
    <3> QED BY <1>1, <3>1, <3>2, MainLeftKept DEF Counts, WorkerLeft, Effect
  <2> QED BY <1>19, <2>1, UndefinedCounts DEF MeasureAndSend
<1>20. CASE SampleSent
  <2>1. /\ wpc = "sending" /\ readin' = readin /\ wStage' = wStage
        /\ mpc' = mpc /\ samples_collected' = samples_collected
    BY <1>20 DEF SampleSent, workq, mainVars
  <2>2. CASE /\ Results!Send("worker") \/ Results!SendFails("worker")
             /\ wpc' = wpc /\ i' = i
    <3>1. /\ rStage["worker"] = "sending" /\ rStage'["worker"] = "sent"
          /\ rStage'["main"] = rStage["main"]
      BY <2>2 DEF Results!Send, Results!SendFails, Results!Move, TypeParts, Results!TypeOK, Thread
    <3> QED BY <1>1, <2>1, <2>2, <3>1, MainLeftKept DEF Counts, WorkerLeft, Effect
  <2>3. CASE Results!Return("worker") /\ i' = i + 1 /\ wpc' = AfterSend
    <3>1. /\ rStage["worker"] = "sent" /\ rStage'["worker"] = "idle"
          /\ rStage'["main"] = rStage["main"] /\ wStage["worker"] = "idle"
      BY <2>1, <2>3 DEF Results!Return, Results!Move, TypeParts, Results!TypeOK, Thread, Calls
    <3>2. i < SAMPLE_SIZE
      BY <2>1 DEF TypeParts, Loops
    <3>3. WorkerLeft = 3 * (SAMPLE_SIZE - i) - 1
      BY <1>1, <2>1, <3>1, <3>2 DEF WorkerLeft, Effect
    <3>4. WorkerLeft' = 3 * (SAMPLE_SIZE - i) - 3 + 1
      <4>1. i' > 0 /\ i' \in Nat /\ SAMPLE_SIZE - i' = SAMPLE_SIZE - i - 1
        BY <1>1, <2>3
      <4>2. wpc' \in {"measure", "recv"}
        BY <2>3 DEF AfterSend
      <4>3. wStage'["worker"] = "idle"
        BY <2>1, <3>1
      <4>4. WorkerLeft' = 3 * (SAMPLE_SIZE - i') + 1
        BY <1>1, <3>1, <4>1, <4>2, <4>3 DEF WorkerLeft, Effect
      <4>5. i' = i + 1 /\ i \in Int /\ SAMPLE_SIZE \in Int
        BY <1>1, <2>3
      <4>6. 3 * (SAMPLE_SIZE - i') = 3 * (SAMPLE_SIZE - i) - 3
        BY <4>5
      <4>7. 3 * (SAMPLE_SIZE - i) \in Int
        BY <4>5
      <4> QED BY <4>4, <4>6, <4>7
    <3>5. MainLeft' = MainLeft
      BY <2>1, <3>1, MainLeftKept
    <3> QED BY <1>1, <3>2, <3>3, <3>4, <3>5 DEF Counts
  <2> QED BY <1>20, <2>2, <2>3 DEF SampleSent
<1> QED BY <1>2, <1>3, <1>4, <1>5, <1>6, <1>7, <1>8, <1>9, <1>10, <1>11, <1>12, <1>13, <1>14,
  <1>15, <1>16, <1>17, <1>18, <1>19, <1>20 DEF Next, MainStep, WorkerStep

(* No run goes on for ever: whatever fails, and in whatever order the      *)
(* threads run, each step uses up one of finitely many.                    *)
THEOREM EveryStepIsCounted == Spec => EveryStepCounts
<1>1. IInv => TypeParts /\ OneWork /\ LeftTypes
  BY TypeInvParts, LeftIsNat DEF IInv
<1>2. TypeParts /\ OneWork /\ LeftTypes /\ LeftTypes' /\ [Next]_vars
        => [StepsLeft' \in 0 .. StepsLeft - 1]_vars
  <2> SUFFICES ASSUME TypeParts, OneWork, LeftTypes, LeftTypes', Next, ~UNCHANGED vars
               PROVE  StepsLeft' \in 0 .. StepsLeft - 1
    OBVIOUS
  <2>1. Counts
    BY NextCounts
  <2>2. fate = "running"
    BY Running
  <2>3. MainLeft \in Nat /\ WorkerLeft \in Nat /\ MainLeft' \in Nat /\ WorkerLeft' \in Nat
    BY DEF LeftTypes
  <2>4. /\ StepsLeft = MainLeft + WorkerLeft + 1
        /\ \/ StepsLeft' = MainLeft' + WorkerLeft'
           \/ StepsLeft' = MainLeft' + WorkerLeft' + 1 /\ fate' = "running"
    BY <2>2, <2>3 DEF StepsLeft
  <2> QED BY <2>1, <2>3, <2>4 DEF Counts
<1> QED BY <1>1, <1>2, Invariant, PTL DEF Spec, EveryStepCounts
==============================================================================
