----------------------------- MODULE BenchDriver -----------------------------
(***************************************************************************)
(* The benchmark that is built, bench_ciphers.c: a process opens the CSV   *)
(* file, measures the cipher with measure_time of bench_timer.h, and       *)
(* writes a row for each sample.  The file outlives the process: one that  *)
(* ended, or was killed, is followed by another that writes to the same    *)
(* file.  open has no O_TRUNC, and what open and dprintf return is not     *)
(* looked at.                                                              *)
(*                                                                         *)
(* A byte of the file is known by the process that wrote it, the line it   *)
(* belongs to (0 is the header) and its place in that line.                *)
(***************************************************************************)
EXTENDS Integers, Sequences, FiniteSets

CONSTANTS
  SAMPLE_SIZE,  \* how many samples are collected
  ITERATIONS,   \* the iterations that collect_samples asks for
  IgnoreIter,   \* the warm-up calls it may ask for; 0 in the code
  Cost,         \* the ticks that a call of the cipher may take
  HeaderWidth,  \* the characters of the header
  NameWidth,    \* the characters of a row in front of its result
  RADIX,        \* of the digits in which a result is printed
  RUNS          \* how many processes run, one after the other

ASSUME SizeAssumption == SAMPLE_SIZE \in Nat \ {0} /\ ITERATIONS \in Nat \ {0}
ASSUME TimerAssumption == IgnoreIter \subseteq Nat /\ Cost \subseteq Nat
ASSUME WidthAssumption ==
  HeaderWidth \in Nat \ {0} /\ NameWidth \in Nat \ {0} /\ RADIX \in Nat \ {0, 1}
ASSUME RunAssumption == RUNS \in Nat \ {0}

VARIABLES
  file,               \* the bytes of the CSV file
  run,                \* which process this is
  pc,                 \* what it does next
  opened, off,        \* whether it could open the file; where it writes next
  samples_collected,
  warm,               \* it warms up the cache, its first call of measure_time
  ignore_iter, i,     \* the parameter and the loop variable of measure_time
  tsc, start,         \* the ticks since measure_time was called; at get_start_time
  result,             \* what measure_time returned
  old,                \* history: the file as this process found it
  failed,             \* history: the processes one of whose writes failed
  timed, spent        \* history: the timed calls, and the ticks they took

fileVars == <<file, off, failed>>
processVars == <<run, opened, old>>
timerVars == <<ignore_iter, i, tsc, start, result, timed, spent>>
vars == <<fileVars, processVars, timerVars, pc, samples_collected, warm>>

Fresh ==
  /\ pc' = "create_csv"
  /\ off' = 0 /\ opened' = FALSE
  /\ samples_collected' = 0 /\ warm' = TRUE
  /\ i' = 0 /\ tsc' = 0 /\ start' = 0 /\ result' = 0 /\ timed' = 0 /\ spent' = 0

Init ==
  /\ file = <<>> /\ old = <<>>
  /\ run = 1
  /\ pc = "create_csv"
  /\ off = 0 /\ opened = FALSE /\ failed = {}
  /\ samples_collected = 0 /\ warm = TRUE
  /\ ignore_iter \in IgnoreIter
  /\ i = 0 /\ tsc = 0 /\ start = 0 /\ result = 0 /\ timed = 0 /\ spent = 0

Go(from, to) == pc = from /\ pc' = to

------------------------------------------------------------------------------
(* Writing *)

Digits(n) == IF n = 0 THEN 1 ELSE Cardinality({d \in 0 .. n : RADIX ^ d <= n})

Line(row, width) == [at \in 1 .. width |-> [run |-> run, row |-> row, at |-> at, of |-> width]]

(* The file f after bytes s were written behind its first n.               *)
Overwrite(f, n, s) ==
  [p \in 1 .. (IF Len(f) > n + Len(s) THEN Len(f) ELSE n + Len(s)) |->
     IF p \in n + 1 .. n + Len(s) THEN s[p - n] ELSE f[p]]

Write(s) ==
  /\ file' = Overwrite(file, off, s)
  /\ off' = off + Len(s)

(* A write may fail, with some of its bytes written; without an open file  *)
(* it always does.                                                         *)
Dprintf(line) ==
  \/ opened /\ Write(line) /\ UNCHANGED failed
  \/ /\ \E n \in 0 .. Len(line) - 1 : (n > 0 => opened) /\ Write(SubSeq(line, 1, n))
     /\ failed' = failed \cup {run}

(* Mutant of OpenAt: the file is opened with O_APPEND.                     *)
OpenAtEnd == off' = Len(file)

OpenAt == off' = 0

create_csv ==
  /\ Go("create_csv", "header")
  /\ opened' \in BOOLEAN
  /\ OpenAt
  /\ UNCHANGED <<file, failed, run, old, timerVars, samples_collected, warm>>

(* Mutant of Header: the header is written with the character that ends    *)
(* its string.                                                             *)
HeaderWithEnd == Append(Line(0, HeaderWidth), [run |-> run, row |-> 0, at |-> 0, of |-> HeaderWidth])

Header == Line(0, HeaderWidth)

WriteHeader ==
  /\ Go("header", "call")
  /\ Dprintf(Header)
  /\ UNCHANGED <<processVars, timerVars, samples_collected, warm>>

Row(n) == Line(n, NameWidth + Digits(result))

(* Mutant of AfterSample: the loop tests its count before it is increased. *)
AfterSampleLate == IF samples_collected < SAMPLE_SIZE THEN "call" ELSE "close"

(* Mutant of AfterSample: the loop ends one sample too early.              *)
AfterSampleEarly == IF samples_collected' < SAMPLE_SIZE - 1 THEN "call" ELSE "close"

AfterSample == IF samples_collected' < SAMPLE_SIZE THEN "call" ELSE "close"

WriteRow ==
  /\ pc = "row"
  /\ samples_collected' = samples_collected + 1
  /\ Dprintf(Row(samples_collected'))
  /\ pc' = AfterSample
  /\ UNCHANGED <<processVars, timerVars, warm>>

Close ==
  /\ Go("close", "done")
  /\ UNCHANGED <<fileVars, processVars, timerVars, samples_collected, warm>>

------------------------------------------------------------------------------
(* measure_time *)

CallMeasure ==
  /\ Go("call", "warmup")
  /\ i' = 0 /\ tsc' = 0 /\ start' = 0 /\ timed' = 0 /\ spent' = 0
  /\ UNCHANGED <<fileVars, processVars, ignore_iter, result, samples_collected, warm>>

WarmUp ==
  /\ pc = "warmup" /\ i < ignore_iter
  /\ \E c \in Cost : tsc' = tsc + c
  /\ i' = i + 1
  /\ UNCHANGED <<fileVars, processVars, ignore_iter, start, result, timed, spent, pc,
                 samples_collected, warm>>

(* Mutant of StartTime: get_start_time is called before the warm-up.       *)
StartTimeEarly == start' = 0

StartTime == start' = tsc

(* i goes on from where the warm-up left it.                               *)
GetStartTime ==
  /\ i >= ignore_iter
  /\ Go("warmup", "timed")
  /\ StartTime
  /\ UNCHANGED <<fileVars, processVars, ignore_iter, i, tsc, result, timed, spent,
                 samples_collected, warm>>

AfterCall == IF i' < ITERATIONS THEN "timed" ELSE "end"

TimedCall ==
  /\ pc = "timed"
  /\ \E c \in Cost : tsc' = tsc + c /\ spent' = spent + c
  /\ timed' = timed + 1
  /\ i' = i + 1
  /\ pc' = AfterCall
  /\ UNCHANGED <<fileVars, processVars, ignore_iter, start, result, samples_collected, warm>>

(* The result of the call that warms up the cache is dropped.              *)
GetEndTime ==
  /\ Go("end", IF warm THEN "call" ELSE "row")
  /\ result' = (tsc - start) \div ITERATIONS
  /\ warm' = FALSE
  /\ UNCHANGED <<fileVars, processVars, ignore_iter, i, tsc, start, timed, spent,
                 samples_collected>>

------------------------------------------------------------------------------
(* Processes *)

(* The process is killed.                                                  *)
Kill ==
  /\ pc \notin {"done", "killed"}
  /\ pc' = "killed"
  /\ UNCHANGED <<fileVars, processVars, timerVars, samples_collected, warm>>

NextProcess ==
  /\ pc \in {"done", "killed"}
  /\ run < RUNS
  /\ run' = run + 1
  /\ old' = file
  /\ Fresh
  /\ UNCHANGED <<file, failed, ignore_iter>>

Next ==
  \/ create_csv \/ WriteHeader \/ WriteRow \/ Close
  \/ CallMeasure \/ WarmUp \/ GetStartTime \/ TimedCall \/ GetEndTime
  \/ Kill \/ NextProcess

Spec == Init /\ [][Next]_vars

------------------------------------------------------------------------------
(* Properties *)

Byte == [run : 1 .. RUNS, row : 0 .. SAMPLE_SIZE, at : Nat \ {0}, of : Nat \ {0}]

TypeOK ==
  /\ file \in Seq(Byte) /\ old \in Seq(Byte)
  /\ run \in 1 .. RUNS
  /\ pc \in {"create_csv", "header", "call", "warmup", "timed", "end", "row", "close",
             "done", "killed"}
  /\ opened \in BOOLEAN /\ warm \in BOOLEAN
  /\ failed \in SUBSET (1 .. RUNS)
  /\ off \in 0 .. Len(file)
  /\ samples_collected \in 0 .. SAMPLE_SIZE
  /\ ignore_iter \in IgnoreIter
  /\ i \in Nat /\ tsc \in Nat /\ start \in 0 .. tsc
  /\ result \in Nat /\ timed \in Nat /\ spent \in Nat

(* The bytes of a process come first in the file, and behind them comes    *)
(* what is left of the file that it found, byte for byte: so bytes of      *)
(* earlier processes never stand in front of those of later ones, however  *)
(* many were killed.                                                       *)
OwnBytesFirst ==
  /\ \A p \in DOMAIN file :
       IF p <= off THEN file[p].run = run
                   ELSE p \in DOMAIN old /\ file[p] = old[p] /\ file[p].run < run
  /\ \A p, q \in DOMAIN file : p < q => file[p].run >= file[q].run

(* b is the byte that belongs behind a.                                    *)
Follows(a, b) ==
  IF a.at = a.of THEN b.run = a.run /\ b.row = a.row + 1 /\ b.at = 1
                 ELSE b = [a EXCEPT !.at = a.at + 1]

(* The places in a file where what follows does not belong there.          *)
Seams(f) == {p \in 1 .. Len(f) - 1 : ~Follows(f[p], f[p + 1])}

(* As long as its writes succeed a process adds one seam to the file, at   *)
(* the place where it writes, and it always stops at the end of a line: a  *)
(* reader finds at most one line per process that is not a row.            *)
OneSeam ==
  run \notin failed =>
    /\ Seams(file) \subseteq Seams(old) \cup {off}
    /\ off > 0 => file[off].at = file[off].of

(* So the seams of a file do not add up, whatever the number of processes  *)
(* that wrote to it, ended or were killed: at most one lies between the    *)
(* bytes of each process and those of the next one that has any left, and  *)
(* others are the work of processes whose writes failed.                   *)
SeamsBounded == Cardinality({p \in Seams(file) : file[p].run \notin failed}) < run

(* A process that ends without a failed write has written its header and   *)
(* one row for each sample; if the file was not longer before, that is all *)
(* there is.                                                               *)
RunComplete ==
  pc = "done" /\ run \notin failed =>
    /\ {file[p].row : p \in 1 .. off} = 0 .. SAMPLE_SIZE
    /\ Len(old) <= off => Len(file) = off

(* What measure_time returns is the mean of the calls that it timed, if    *)
(* it was asked for no warm-up, as it is by collect_samples.  With a       *)
(* warm-up, fewer calls are timed than it divides by, for the loops share  *)
(* i: the result is then below the mean, and never above it.               *)
MeasuresMean ==
  pc = "row" =>
    /\ timed = IF ITERATIONS > ignore_iter THEN ITERATIONS - ignore_iter ELSE 1
    /\ result <= spent \div timed
    /\ ignore_iter = 0 => result = spent \div timed
==============================================================================
