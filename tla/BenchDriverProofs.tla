-------------------------- MODULE BenchDriverProofs --------------------------
(***************************************************************************)
(* What holds of the benchmark's CSV file and of its timer for every       *)
(* number of samples, iterations and processes, and rows of every length.  *)
(***************************************************************************)
EXTENDS BenchDriver, FiniteSetTheorems, SequenceTheorems, TLAPS

(* The parts of TypeOK: the timer, the process, the file.                  *)
TimerTypes ==
  /\ ignore_iter \in Nat /\ ignore_iter \in IgnoreIter
  /\ i \in Nat /\ tsc \in Nat /\ start \in 0 .. tsc
  /\ result \in Nat /\ timed \in Nat /\ spent \in Nat
ProcessTypes ==
  /\ run \in 1 .. RUNS
  /\ pc \in {"create_csv", "header", "call", "warmup", "timed", "end", "row", "close",
             "done", "killed"}
  /\ opened \in BOOLEAN /\ warm \in BOOLEAN
  /\ failed \in SUBSET (1 .. run)
  /\ samples_collected \in 0 .. SAMPLE_SIZE
FileTypes ==
  /\ file \in Seq(Byte) /\ old \in Seq(Byte)
  /\ off \in 0 .. Len(file)

(* The loop of collect_samples: where it stands, and where it ends.        *)
Collecting ==
  /\ pc \in {"create_csv", "header"} => samples_collected = 0
  /\ pc \in {"call", "warmup", "timed", "end", "row"} => samples_collected < SAMPLE_SIZE
  /\ pc \in {"close", "done"} => samples_collected = SAMPLE_SIZE

(* The loops of measure_time: i counts the calls of both.                  *)
Measuring ==
  /\ pc = "warmup" => i <= ignore_iter /\ start = 0 /\ timed = 0 /\ spent = 0
  /\ pc \in {"timed", "end"} => i = ignore_iter + timed /\ tsc - start = spent
  /\ pc = "timed" => timed = 0 \/ i < ITERATIONS
  /\ pc \in {"end", "row"} =>
       timed = IF ITERATIONS > ignore_iter THEN ITERATIONS - ignore_iter ELSE 1
  /\ pc = "row" => result = spent \div ITERATIONS

(* Before the header nothing is written, nor has a write failed.           *)
Beginning ==
  /\ pc \in {"create_csv", "header"} => off = 0
  /\ pc = "create_csv" => run \notin failed

(* What is written stops at the end of the last line, and has all lines.   *)
Lines ==
  run \notin failed =>
    /\ off > 0 => file[off].at = file[off].of
    /\ pc \in {"call", "warmup", "timed", "end", "row", "close", "done"} =>
         /\ off > 0
         /\ file[off].row = samples_collected
         /\ {file[p].row : p \in 1 .. off} = 0 .. samples_collected

(* Where the bytes of one process do not follow each other, its writes     *)
(* failed.                                                                 *)
OwnSeams ==
  \A p \in Seams(file) : file[p].run \in failed \/ file[p].run # file[p + 1].run

IInv ==
  /\ TimerTypes /\ ProcessTypes /\ FileTypes
  /\ Collecting /\ Measuring /\ Beginning
  /\ OwnBytesFirst /\ Lines /\ OneSeam /\ OwnSeams

------------------------------------------------------------------------------
(* The timer *)

LEMMA TimerTypesStep == TimerTypes /\ [Next]_vars => TimerTypes'
<1> SUFFICES ASSUME TimerTypes, [Next]_vars PROVE TimerTypes'
  OBVIOUS
<1> USE SizeAssumption, TimerAssumption
<1>1. CASE create_csv
  BY <1>1 DEF create_csv, Go, OpenAt, timerVars, TimerTypes
<1>2. CASE WriteHeader
  BY <1>2 DEF WriteHeader, Go, processVars, timerVars, TimerTypes
<1>3. CASE WriteRow
  BY <1>3 DEF WriteRow, AfterSample, processVars, timerVars, TimerTypes
<1>4. CASE Close
  BY <1>4 DEF Close, Go, fileVars, processVars, timerVars, TimerTypes
<1>5. CASE CallMeasure
  BY <1>5 DEF CallMeasure, Go, fileVars, processVars, TimerTypes
<1>6. CASE WarmUp
  BY <1>6 DEF WarmUp, fileVars, processVars, TimerTypes
<1>7. CASE GetStartTime
  BY <1>7 DEF GetStartTime, Go, StartTime, fileVars, processVars, TimerTypes
<1>8. CASE TimedCall
  BY <1>8 DEF TimedCall, AfterCall, fileVars, processVars, TimerTypes
<1>9. CASE GetEndTime
  <2>1. tsc - start \in Nat /\ ITERATIONS \in Nat \ {0}
    BY DEF TimerTypes
  <2>2. (tsc - start) \div ITERATIONS \in Nat
    BY <2>1
  <2> QED BY <1>9, <2>2 DEF GetEndTime, Go, TimerTypes
<1>10. CASE Kill
  BY <1>10 DEF Kill, fileVars, processVars, timerVars, TimerTypes
<1>11. CASE NextProcess
  BY <1>11 DEF NextProcess, Fresh, TimerTypes
<1>12. CASE UNCHANGED vars
  BY <1>12 DEF vars, fileVars, processVars, timerVars, TimerTypes
<1> QED BY <1>1, <1>2, <1>3, <1>4, <1>5, <1>6, <1>7, <1>8, <1>9, <1>10, <1>11, <1>12 DEF Next

LEMMA FailedStep == ASSUME ProcessTypes, NEW line, Dprintf(line) PROVE failed' \in SUBSET (1 .. run)
<1>1. failed \subseteq 1 .. run /\ run \in 1 .. run
  BY RunAssumption DEF ProcessTypes
<1>2. failed' = failed \/ failed' = failed \cup {run}
  BY DEF Dprintf
<1> QED BY <1>1, <1>2

LEMMA ProcessTypesStep == ProcessTypes /\ Collecting /\ [Next]_vars => (ProcessTypes /\ Collecting)'
<1> SUFFICES ASSUME ProcessTypes, Collecting, [Next]_vars PROVE (ProcessTypes /\ Collecting)'
  OBVIOUS
<1> USE SizeAssumption, RunAssumption
<1>1. CASE create_csv
  BY <1>1 DEF create_csv, Go, OpenAt, timerVars, ProcessTypes, Collecting, Dprintf
<1>2. CASE WriteHeader
  <2>1. failed' \in SUBSET (1 .. run)
    BY <1>2, FailedStep DEF WriteHeader
  <2> QED BY <1>2, <2>1 DEF WriteHeader, Go, processVars, ProcessTypes, Collecting
<1>3. CASE WriteRow
  <2>1. failed' \in SUBSET (1 .. run)
    BY <1>3, FailedStep DEF WriteRow
  <2> QED BY <1>3, <2>1 DEF WriteRow, AfterSample, processVars, ProcessTypes, Collecting
<1>4. CASE Close
  BY <1>4 DEF Close, Go, fileVars, processVars, timerVars, ProcessTypes, Collecting, Dprintf
<1>5. CASE CallMeasure
  BY <1>5 DEF CallMeasure, Go, fileVars, processVars, ProcessTypes, Collecting, Dprintf
<1>6. CASE WarmUp
  BY <1>6 DEF WarmUp, fileVars, processVars, ProcessTypes, Collecting, Dprintf
<1>7. CASE GetStartTime
  BY <1>7 DEF GetStartTime, Go, StartTime, fileVars, processVars, ProcessTypes, Collecting,
    Dprintf
<1>8. CASE TimedCall
  BY <1>8 DEF TimedCall, AfterCall, fileVars, processVars, ProcessTypes, Collecting, Dprintf
<1>9. CASE GetEndTime
  BY <1>9 DEF GetEndTime, Go, fileVars, processVars, ProcessTypes, Collecting, Dprintf
<1>10. CASE Kill
  BY <1>10 DEF Kill, fileVars, processVars, timerVars, ProcessTypes, Collecting, Dprintf
<1>11. CASE NextProcess
  <2>1. run' \in 1 .. RUNS /\ samples_collected' = 0 /\ pc' = "create_csv"
    BY <1>11 DEF NextProcess, Fresh, ProcessTypes
  <2>2. opened' \in BOOLEAN /\ warm' \in BOOLEAN
    BY <1>11 DEF NextProcess, Fresh
  <2>3. failed' \in SUBSET (1 .. run')
    <3>1. failed \subseteq 1 .. run /\ run \in Nat
      BY DEF ProcessTypes
    <3>2. failed' = failed /\ run' = run + 1
      BY <1>11 DEF NextProcess, Fresh
    <3>3. 1 .. run \subseteq 1 .. run + 1
      BY <3>1
    <3> QED BY <3>1, <3>2, <3>3
  <2> QED BY <2>1, <2>2, <2>3 DEF ProcessTypes, Collecting
<1>12. CASE UNCHANGED vars
  BY <1>12 DEF vars, fileVars, processVars, timerVars, ProcessTypes, Collecting, Dprintf
<1> QED BY <1>1, <1>2, <1>3, <1>4, <1>5, <1>6, <1>7, <1>8, <1>9, <1>10, <1>11, <1>12 DEF Next

LEMMA MeasuringStep == TimerTypes /\ Measuring /\ [Next]_vars => Measuring'
<1> SUFFICES ASSUME TimerTypes, Measuring, [Next]_vars PROVE Measuring'
  OBVIOUS
<1> USE SizeAssumption
<1>1. CASE create_csv
  BY <1>1 DEF create_csv, Go, OpenAt, timerVars, TimerTypes, Measuring
<1>2. CASE WriteHeader
  BY <1>2 DEF WriteHeader, Go, processVars, timerVars, TimerTypes, Measuring
<1>3. CASE WriteRow
  BY <1>3 DEF WriteRow, AfterSample, processVars, timerVars, TimerTypes, Measuring
<1>4. CASE Close
  BY <1>4 DEF Close, Go, fileVars, processVars, timerVars, TimerTypes, Measuring
<1>5. CASE CallMeasure
  BY <1>5 DEF CallMeasure, Go, fileVars, processVars, TimerTypes, Measuring
<1>6. CASE WarmUp
  BY <1>6 DEF WarmUp, fileVars, processVars, TimerTypes, Measuring
<1>7. CASE GetStartTime
  BY <1>7 DEF GetStartTime, Go, StartTime, fileVars, processVars, TimerTypes, Measuring
<1>8. CASE TimedCall
  <2>1. /\ i \in Nat /\ ignore_iter \in Nat /\ timed \in Nat /\ spent \in Nat
        /\ tsc \in Nat /\ start \in Nat /\ ITERATIONS \in Nat \ {0}
        /\ i = ignore_iter + timed /\ tsc - start = spent /\ (timed = 0 \/ i < ITERATIONS)
    BY <1>8 DEF TimedCall, TimerTypes, Measuring
  <2>2. PICK c \in Cost : tsc' = tsc + c /\ spent' = spent + c
    BY <1>8 DEF TimedCall
  <2>3. c \in Nat
    BY TimerAssumption
  <2>4. /\ i' = i + 1 /\ timed' = timed + 1 /\ start' = start /\ ignore_iter' = ignore_iter
        /\ pc' = IF i + 1 < ITERATIONS THEN "timed" ELSE "end"
    BY <1>8 DEF TimedCall, AfterCall
  <2>5. i' = ignore_iter' + timed' /\ tsc' - start' = spent'
    BY <2>1, <2>2, <2>3, <2>4
  <2>6. pc' = "timed" => i' < ITERATIONS
    BY <2>1, <2>4
  <2>7. pc' = "end" => timed' = IF ITERATIONS > ignore_iter' THEN ITERATIONS - ignore_iter' ELSE 1
    BY <2>1, <2>4
  <2>8. pc' \in {"timed", "end"}
    BY <2>4
  <2> QED BY <2>5, <2>6, <2>7, <2>8 DEF Measuring
<1>9. CASE GetEndTime
  BY <1>9 DEF GetEndTime, Go, fileVars, processVars, TimerTypes, Measuring
<1>10. CASE Kill
  BY <1>10 DEF Kill, fileVars, processVars, timerVars, TimerTypes, Measuring
<1>11. CASE NextProcess
  BY <1>11 DEF NextProcess, Fresh, TimerTypes, Measuring
<1>12. CASE UNCHANGED vars
  BY <1>12 DEF vars, fileVars, processVars, timerVars, TimerTypes, Measuring
<1> QED BY <1>1, <1>2, <1>3, <1>4, <1>5, <1>6, <1>7, <1>8, <1>9, <1>10, <1>11, <1>12 DEF Next

LEMMA DividesByMore ==
  ASSUME NEW a \in Nat, NEW m \in Nat \ {0}, NEW n \in Nat \ {0}, n <= m
  PROVE  a \div m <= a \div n
<1> DEFINE q == a \div m
           r == a \div n
<1>1. q \in Nat /\ r \in Nat /\ q * m <= a /\ a < (r + 1) * n
  OBVIOUS
<1> HIDE DEF q, r
<1>2. q * n <= q * m
  BY <1>1
<1>3. q * n < (r + 1) * n
  BY <1>1, <1>2
<1>4. q < r + 1
  BY <1>1, <1>3
<1> QED BY <1>1, <1>4 DEF q, r

------------------------------------------------------------------------------
(* Writing *)

LEMMA OverwriteAt ==
  ASSUME NEW S, NEW f \in Seq(S), NEW n \in 0 .. Len(f), NEW s \in Seq(S),
         NEW g, g = Overwrite(f, n, s)
  PROVE  /\ g \in Seq(S)
         /\ Len(g) = IF Len(f) > n + Len(s) THEN Len(f) ELSE n + Len(s)
         /\ \A p \in 1 .. n : p \in 1 .. Len(f) /\ p \in 1 .. Len(g) /\ g[p] = f[p]
         /\ \A p \in n + 1 .. n + Len(s) :
              p - n \in 1 .. Len(s) /\ p \in 1 .. Len(g) /\ g[p] = s[p - n]
         /\ \A p \in 1 .. Len(g) : p > n + Len(s) => p \in 1 .. Len(f) /\ g[p] = f[p]
<1> DEFINE L == IF Len(f) > n + Len(s) THEN Len(f) ELSE n + Len(s)
<1>1. L \in Nat /\ Len(f) \in Nat /\ Len(s) \in Nat /\ n \in Nat /\ n + Len(s) <= L /\ Len(f) <= L
  OBVIOUS
<1>2. g = [p \in 1 .. L |-> IF p \in n + 1 .. n + Len(s) THEN s[p - n] ELSE f[p]]
  BY DEF Overwrite
<1>3. \A p \in 1 .. L : ~(p \in n + 1 .. n + Len(s)) => p \in 1 .. Len(f)
  BY <1>1
<1>4. \A p \in n + 1 .. n + Len(s) : p - n \in 1 .. Len(s) /\ p \in 1 .. L
  BY <1>1
<1>5. \A p \in 1 .. Len(f) : f[p] \in S
  OBVIOUS
<1>6. \A p \in 1 .. Len(s) : s[p] \in S
  OBVIOUS
<1> HIDE DEF L
<1>7. \A p \in 1 .. L : (IF p \in n + 1 .. n + Len(s) THEN s[p - n] ELSE f[p]) \in S
  BY <1>3, <1>4, <1>5, <1>6
<1>8. g \in [1 .. L -> S]
  BY <1>2, <1>7
<1>9. g \in Seq(S) /\ Len(g) = L
  BY <1>1, <1>8
<1>10. \A p \in 1 .. n : p \in 1 .. Len(f) /\ p \in 1 .. L /\ ~(p \in n + 1 .. n + Len(s))
  BY <1>1
<1>11. \A p \in 1 .. n : p \in 1 .. Len(f) /\ p \in 1 .. Len(g) /\ g[p] = f[p]
  BY <1>2, <1>9, <1>10
<1>12. \A p \in n + 1 .. n + Len(s) : p - n \in 1 .. Len(s) /\ p \in 1 .. Len(g) /\ g[p] = s[p - n]
  BY <1>2, <1>4, <1>9
<1>13. \A p \in 1 .. Len(g) : p > n + Len(s) => p \in 1 .. Len(f) /\ g[p] = f[p]
  BY <1>1, <1>2, <1>3, <1>9
<1> QED BY <1>9, <1>11, <1>12, <1>13 DEF L

LEMMA LineBytes ==
  ASSUME ProcessTypes, NEW row \in 0 .. SAMPLE_SIZE, NEW width \in Nat \ {0}
  PROVE  /\ Line(row, width) \in Seq(Byte) /\ Len(Line(row, width)) = width
         /\ \A k \in 1 .. width :
              Line(row, width)[k] = [run |-> run, row |-> row, at |-> k, of |-> width]
<1>1. \A k \in 1 .. width : [run |-> run, row |-> row, at |-> k, of |-> width] \in Byte
  BY DEF Byte, ProcessTypes
<1> QED BY <1>1 DEF Line

LEMMA RowWidth == ASSUME TimerTypes PROVE NameWidth + Digits(result) \in Nat \ {0}
<1>1. ASSUME NEW n \in Nat PROVE Digits(n) \in Nat
  <2>1. IsFiniteSet(0 .. n)
    BY FS_Interval
  <2>2. Cardinality({d \in 0 .. n : RADIX ^ d <= n}) \in Nat
    BY <2>1, FS_Subset, FS_CardinalityType
  <2> QED BY <2>2 DEF Digits
<1> QED BY <1>1, WidthAssumption DEF TimerTypes

(* A line that is written from the beginning, and may break off.           *)
Writes(row, width) ==
  \E s \in Seq(Byte) :
    /\ file' = Overwrite(file, off, s) /\ off' = off + Len(s)
    /\ Len(s) <= width
    /\ \A k \in 1 .. Len(s) : s[k] = [run |-> run, row |-> row, at |-> k, of |-> width]
    /\ failed \subseteq failed'
    /\ run \notin failed' => run \notin failed /\ Len(s) = width

LEMMA DprintfWrites ==
  ASSUME ProcessTypes, NEW row \in 0 .. SAMPLE_SIZE, NEW width \in Nat \ {0},
         Dprintf(Line(row, width))
  PROVE  Writes(row, width)
<1> DEFINE line == Line(row, width)
<1>1. line \in Seq(Byte) /\ Len(line) = width
      /\ \A k \in 1 .. width : line[k] = [run |-> run, row |-> row, at |-> k, of |-> width]
  BY LineBytes
<1> HIDE DEF line
<1>2. CASE Write(line) /\ UNCHANGED failed
  BY <1>1, <1>2 DEF Write, Writes
<1>3. ASSUME NEW n \in 0 .. Len(line) - 1, Write(SubSeq(line, 1, n)),
             failed' = failed \cup {run}
      PROVE  Writes(row, width)
  <2>1. n \in Nat /\ \A k \in 1 .. n : line[k] \in Byte
    BY <1>1
  <2>2. /\ SubSeq(line, 1, n) \in Seq(Byte) /\ Len(SubSeq(line, 1, n)) = n
        /\ \A k \in 1 .. n : SubSeq(line, 1, n)[k] = line[k]
    BY <2>1, SubSeqProperties, Z3
  <2>3. n <= width /\ \A k \in 1 .. n : k \in 1 .. width
    BY <1>1
  <2> QED BY <1>1, <1>3, <2>2, <2>3 DEF Write, Writes
<1> QED BY <1>2, <1>3 DEF Dprintf, line

LEMMA HeaderWrites ==
  ASSUME ProcessTypes, WriteHeader PROVE Writes(0, HeaderWidth)
<1>1. 0 \in 0 .. SAMPLE_SIZE /\ HeaderWidth \in Nat \ {0}
  BY SizeAssumption, WidthAssumption
<1> QED BY <1>1, DprintfWrites DEF WriteHeader, Header

LEMMA RowWrites ==
  ASSUME TimerTypes, ProcessTypes, Collecting, WriteRow
  PROVE  Writes(samples_collected + 1, NameWidth + Digits(result))
<1>1. samples_collected + 1 \in 0 .. SAMPLE_SIZE
  BY SizeAssumption DEF WriteRow, Collecting, ProcessTypes
<1>2. Dprintf(Line(samples_collected + 1, NameWidth + Digits(result)))
  BY DEF WriteRow, Row
<1>3. NameWidth + Digits(result) \in Nat \ {0}
  BY RowWidth
<1> HIDE DEF Digits
<1> QED BY <1>1, <1>2, <1>3, DprintfWrites

LEMMA FileOverwrite ==
  ASSUME FileTypes, NEW s \in Seq(Byte), file' = Overwrite(file, off, s)
  PROVE  /\ file' \in Seq(Byte)
         /\ \A p \in 1 .. off : p \in 1 .. Len(file) /\ p \in 1 .. Len(file') /\ file'[p] = file[p]
         /\ \A p \in off + 1 .. off + Len(s) :
              p - off \in 1 .. Len(s) /\ p \in 1 .. Len(file') /\ file'[p] = s[p - off]
         /\ \A p \in 1 .. Len(file') :
              p > off + Len(s) => p \in 1 .. Len(file) /\ file'[p] = file[p]
<1>1. file \in Seq(Byte) /\ off \in 0 .. Len(file)
  BY DEF FileTypes
<1> HIDE DEF Overwrite
<1> QED BY <1>1, OverwriteAt

LEMMA WritesFile ==
  ASSUME FileTypes, NEW row, NEW width, Writes(row, width)
  PROVE  file' \in Seq(Byte) /\ off' \in 0 .. Len(file')
<1>1. PICK s \in Seq(Byte) : file' = Overwrite(file, off, s) /\ off' = off + Len(s)
  BY DEF Writes
<1>2. file \in Seq(Byte) /\ off \in 0 .. Len(file)
  BY DEF FileTypes
<1>3. file' \in Seq(Byte) /\ Len(file') = IF Len(file) > off + Len(s) THEN Len(file) ELSE off + Len(s)
  BY <1>1, <1>2, OverwriteAt
<1> QED BY <1>1, <1>2, <1>3

LEMMA FileTypesStep == TimerTypes /\ ProcessTypes /\ Collecting /\ FileTypes /\ [Next]_vars => FileTypes'
<1> SUFFICES ASSUME TimerTypes, ProcessTypes, Collecting, FileTypes,
     [Next]_vars PROVE FileTypes'
  OBVIOUS
<1> USE SizeAssumption
<1>1. CASE create_csv
  <2>1. file' = file /\ old' = old /\ off' = 0
    BY <1>1 DEF create_csv, OpenAt
  <2> QED BY <2>1 DEF FileTypes
<1>2. CASE WriteHeader
  BY <1>2, HeaderWrites, WritesFile DEF WriteHeader, processVars, FileTypes
<1>3. CASE WriteRow
  BY <1>3, RowWrites, WritesFile DEF WriteRow, processVars, FileTypes
<1>4. CASE Close
  BY <1>4 DEF Close, Go, fileVars, processVars, timerVars, FileTypes
<1>5. CASE CallMeasure
  BY <1>5 DEF CallMeasure, Go, fileVars, processVars, FileTypes
<1>6. CASE WarmUp
  BY <1>6 DEF WarmUp, fileVars, processVars, FileTypes
<1>7. CASE GetStartTime
  BY <1>7 DEF GetStartTime, Go, StartTime, fileVars, processVars, FileTypes
<1>8. CASE TimedCall
  BY <1>8 DEF TimedCall, AfterCall, fileVars, processVars, FileTypes
<1>9. CASE GetEndTime
  BY <1>9 DEF GetEndTime, Go, fileVars, processVars, FileTypes
<1>10. CASE Kill
  BY <1>10 DEF Kill, fileVars, processVars, timerVars, FileTypes
<1>11. CASE NextProcess
  BY <1>11 DEF NextProcess, Fresh, FileTypes
<1>12. CASE UNCHANGED vars
  BY <1>12 DEF vars, fileVars, processVars, timerVars, FileTypes
<1> QED BY <1>1, <1>2, <1>3, <1>4, <1>5, <1>6, <1>7, <1>8, <1>9, <1>10, <1>11, <1>12 DEF Next

LEMMA BeginningStep == ProcessTypes /\ Beginning /\ [Next]_vars => Beginning'
<1> SUFFICES ASSUME ProcessTypes, Beginning, [Next]_vars PROVE Beginning'
  OBVIOUS
<1> USE SizeAssumption
<1>1. CASE create_csv
  BY <1>1 DEF create_csv, Go, OpenAt, timerVars, ProcessTypes, Beginning
<1>2. CASE WriteHeader
  BY <1>2 DEF WriteHeader, Go, processVars, timerVars, ProcessTypes, Beginning
<1>3. CASE WriteRow
  BY <1>3 DEF WriteRow, AfterSample, processVars, timerVars, ProcessTypes, Beginning
<1>4. CASE Close
  BY <1>4 DEF Close, Go, fileVars, processVars, timerVars, ProcessTypes, Beginning
<1>5. CASE CallMeasure
  BY <1>5 DEF CallMeasure, Go, fileVars, processVars, ProcessTypes, Beginning
<1>6. CASE WarmUp
  BY <1>6 DEF WarmUp, fileVars, processVars, ProcessTypes, Beginning
<1>7. CASE GetStartTime
  BY <1>7 DEF GetStartTime, Go, StartTime, fileVars, processVars, ProcessTypes, Beginning
<1>8. CASE TimedCall
  BY <1>8 DEF TimedCall, AfterCall, fileVars, processVars, ProcessTypes, Beginning
<1>9. CASE GetEndTime
  BY <1>9 DEF GetEndTime, Go, fileVars, processVars, ProcessTypes, Beginning
<1>10. CASE Kill
  BY <1>10 DEF Kill, fileVars, processVars, timerVars, ProcessTypes, Beginning
<1>11. CASE NextProcess
  BY <1>11 DEF NextProcess, Fresh, ProcessTypes, Beginning
<1>12. CASE UNCHANGED vars
  BY <1>12 DEF vars, fileVars, processVars, timerVars, ProcessTypes, Beginning
<1> QED BY <1>1, <1>2, <1>3, <1>4, <1>5, <1>6, <1>7, <1>8, <1>9, <1>10, <1>11, <1>12 DEF Next

LEMMA WritesOwn ==
  ASSUME FileTypes, ProcessTypes, OwnBytesFirst, NEW row, NEW width, Writes(row, width),
         run' = run, old' = old
  PROVE  OwnBytesFirst'
<1>1. PICK s \in Seq(Byte) :
        /\ file' = Overwrite(file, off, s) /\ off' = off + Len(s)
        /\ \A k \in 1 .. Len(s) : s[k] = [run |-> run, row |-> row, at |-> k, of |-> width]
  BY DEF Writes
<1>2. file \in Seq(Byte) /\ off \in 0 .. Len(file) /\ old \in Seq(Byte) /\ run \in Nat
  BY DEF FileTypes, ProcessTypes
<1>3. /\ file' \in Seq(Byte)
      /\ \A p \in 1 .. off : p \in 1 .. Len(file) /\ file'[p] = file[p]
      /\ \A p \in off + 1 .. off + Len(s) : p - off \in 1 .. Len(s) /\ file'[p] = s[p - off]
      /\ \A p \in 1 .. Len(file') : p > off + Len(s) => p \in 1 .. Len(file) /\ file'[p] = file[p]
  BY <1>1, <1>2, FileOverwrite
<1>4. DOMAIN file = 1 .. Len(file) /\ DOMAIN file' = 1 .. Len(file') /\ Len(s) \in Nat
      /\ Len(file') \in Nat
  BY <1>2, <1>3
<1>5. \A p \in 1 .. off : file'[p].run = run
  BY <1>2, <1>3, <1>4 DEF OwnBytesFirst
<1>6. \A p \in off + 1 .. off + Len(s) : file'[p].run = run
  <2> SUFFICES ASSUME NEW p \in off + 1 .. off + Len(s) PROVE file'[p].run = run
    OBVIOUS
  <2>1. p - off \in 1 .. Len(s) /\ file'[p] = s[p - off]
    BY <1>3
  <2>2. s[p - off] = [run |-> run, row |-> row, at |-> p - off, of |-> width]
    BY <1>1, <2>1
  <2> QED BY <2>1, <2>2
<1>7. \A p \in 1 .. Len(file') : p <= off' => file'[p].run = run
  BY <1>1, <1>2, <1>4, <1>5, <1>6
<1>8. \A p \in 1 .. Len(file') : p > off' =>
        p \in DOMAIN file /\ p > off /\ file'[p] = file[p] /\ p \in DOMAIN old
        /\ file'[p] = old[p] /\ file'[p].run < run
  BY <1>1, <1>2, <1>3, <1>4 DEF OwnBytesFirst
<1>9. \A p, q \in DOMAIN file' : p < q => file'[p].run >= file'[q].run
  <2> SUFFICES ASSUME NEW p \in DOMAIN file', NEW q \in DOMAIN file', p < q
               PROVE  file'[p].run >= file'[q].run
    OBVIOUS
  <2>1. p \in Nat /\ q \in Nat /\ off' \in Nat /\ q \in 1 .. Len(file')
    BY <1>1, <1>2, <1>4
  <2>4. file'[q].run <= run
    <3>1. file'[q] \in Byte
      BY <1>3, <2>1
    <3>2. file'[q].run \in Nat
      BY <3>1 DEF Byte
    <3> QED BY <1>2, <1>7, <1>8, <2>1, <3>2
  <2>2. CASE p <= off'
    BY <1>2, <1>4, <1>7, <2>1, <2>2, <2>4
  <2>3. CASE p > off'
    BY <1>4, <1>8, <2>1, <2>3 DEF OwnBytesFirst
  <2> QED BY <2>1, <2>2, <2>3
<1>10. \A p \in DOMAIN file' :
         IF p <= off' THEN file'[p].run = run'
                      ELSE p \in DOMAIN old' /\ file'[p] = old'[p] /\ file'[p].run < run'
  <2> SUFFICES ASSUME NEW p \in DOMAIN file'
               PROVE  IF p <= off' THEN file'[p].run = run
                      ELSE p \in DOMAIN old /\ file'[p] = old[p] /\ file'[p].run < run
    OBVIOUS
  <2>1. p \in 1 .. Len(file') /\ p \in Nat /\ off' \in Nat
    BY <1>1, <1>2, <1>4
  <2> QED BY <1>7, <1>8, <2>1
<1> QED BY <1>9, <1>10 DEF OwnBytesFirst

LEMMA ByteRuns == ASSUME FileTypes, OwnBytesFirst, ProcessTypes
                  PROVE  \A p \in DOMAIN file : file[p].run \in Nat /\ file[p].run <= run
<1>1. \A p \in DOMAIN file : file[p] \in Byte
  BY DEF FileTypes
<1>2. \A p \in DOMAIN file : file[p].run \in Nat
  BY <1>1 DEF Byte
<1> QED BY <1>2 DEF OwnBytesFirst, ProcessTypes, FileTypes

LEMMA OwnStep == TimerTypes /\ ProcessTypes /\ Collecting /\ Beginning /\ FileTypes /\ OwnBytesFirst /\ [Next]_vars => OwnBytesFirst'
<1> SUFFICES ASSUME TimerTypes, ProcessTypes, Collecting, Beginning, FileTypes,
     OwnBytesFirst, [Next]_vars PROVE OwnBytesFirst'
  OBVIOUS
<1> USE SizeAssumption
<1>1. CASE create_csv
  <2>1. file' = file /\ off' = off /\ old' = old /\ run' = run
    BY <1>1 DEF create_csv, Go, OpenAt, Beginning
  <2> QED BY <2>1 DEF OwnBytesFirst
<1>2. CASE WriteHeader
  BY <1>2, HeaderWrites, WritesOwn DEF WriteHeader, processVars
<1>3. CASE WriteRow
  BY <1>3, RowWrites, WritesOwn DEF WriteRow, processVars
<1>4. CASE Close
  BY <1>4 DEF Close, Go, fileVars, processVars, timerVars, OwnBytesFirst
<1>5. CASE CallMeasure
  BY <1>5 DEF CallMeasure, Go, fileVars, processVars, OwnBytesFirst
<1>6. CASE WarmUp
  BY <1>6 DEF WarmUp, fileVars, processVars, OwnBytesFirst
<1>7. CASE GetStartTime
  BY <1>7 DEF GetStartTime, Go, StartTime, fileVars, processVars, OwnBytesFirst
<1>8. CASE TimedCall
  BY <1>8 DEF TimedCall, AfterCall, fileVars, processVars, OwnBytesFirst
<1>9. CASE GetEndTime
  BY <1>9 DEF GetEndTime, Go, fileVars, processVars, OwnBytesFirst
<1>10. CASE Kill
  BY <1>10 DEF Kill, fileVars, processVars, timerVars, OwnBytesFirst
<1>11. CASE NextProcess
  <2>1. file' = file /\ off' = 0 /\ old' = file /\ run' = run + 1 /\ run \in Nat
    BY <1>11 DEF NextProcess, Fresh, ProcessTypes
  <2>2. \A p \in DOMAIN file : p \in Nat \ {0} /\ file[p].run < run + 1
    BY <2>1, ByteRuns DEF FileTypes
  <2> QED BY <2>1, <2>2 DEF OwnBytesFirst
<1>12. CASE UNCHANGED vars
  BY <1>12 DEF vars, fileVars, processVars, timerVars, OwnBytesFirst
<1> QED BY <1>1, <1>2, <1>3, <1>4, <1>5, <1>6, <1>7, <1>8, <1>9, <1>10, <1>11, <1>12 DEF Next

------------------------------------------------------------------------------
(* Lines *)

(* A seam that was there before the write, away from its place.            *)
KeptSeam(p) ==
  /\ p \in Seams(file) /\ p # off
  /\ file'[p] = file[p] /\ file'[p + 1] = file[p + 1]

LEMMA WritesLine ==
  ASSUME FileTypes, NEW row \in Nat, NEW width \in Nat \ {0}, Writes(row, width),
         run \notin failed', run' = run,
         off > 0 => /\ file[off].at = file[off].of /\ file[off].run = run
                    /\ file[off].row + 1 = row
  PROVE  /\ off' > 0 /\ file'[off'].at = file'[off'].of /\ file'[off'].row = row
         /\ \A p \in Seams(file') : p = off' \/ KeptSeam(p)
         /\ {file'[p].row : p \in 1 .. off'} = {file[p].row : p \in 1 .. off} \cup {row}
<1>1. PICK s \in Seq(Byte) :
        /\ file' = Overwrite(file, off, s) /\ off' = off + Len(s) /\ Len(s) = width
        /\ \A k \in 1 .. Len(s) : s[k] = [run |-> run, row |-> row, at |-> k, of |-> width]
  BY DEF Writes
<1>2. file \in Seq(Byte) /\ off \in 0 .. Len(file) /\ Len(file) \in Nat /\ width \in Nat /\ width > 0
  BY DEF FileTypes
<1>3. /\ file' \in Seq(Byte) /\ Len(file') \in Nat
      /\ \A p \in 1 .. off : p \in 1 .. Len(file) /\ file'[p] = file[p]
      /\ \A p \in off + 1 .. off + width : p - off \in 1 .. width /\ file'[p] = s[p - off]
      /\ \A p \in 1 .. Len(file') : p > off + width => p \in 1 .. Len(file) /\ file'[p] = file[p]
  <2>1. /\ file' \in Seq(Byte)
        /\ \A p \in 1 .. off : p \in 1 .. Len(file) /\ file'[p] = file[p]
        /\ \A p \in off + 1 .. off + Len(s) : p - off \in 1 .. Len(s) /\ file'[p] = s[p - off]
        /\ \A p \in 1 .. Len(file') :
             p > off + Len(s) => p \in 1 .. Len(file) /\ file'[p] = file[p]
    BY <1>1, FileOverwrite
  <2>2. Len(file') \in Nat /\ Len(s) = width
    BY <1>1, <2>1
  <2> QED BY <2>1, <2>2
<1>4. \A p \in off + 1 .. off + width :
        file'[p] = [run |-> run, row |-> row, at |-> p - off, of |-> width]
  BY <1>1, <1>3
<1>5. off' = off + width /\ off' \in off + 1 .. off + width /\ off' - off = width
  BY <1>1, <1>2
<1>6. file'[off'] = [run |-> run, row |-> row, at |-> width, of |-> width]
  BY <1>4, <1>5
<1>7. off' > 0 /\ file'[off'].at = file'[off'].of /\ file'[off'].row = row
  BY <1>2, <1>5, <1>6
<1>8. ASSUME NEW p \in Seams(file') PROVE p = off' \/ KeptSeam(p)
  <2>1. p \in 1 .. Len(file') - 1 /\ p \in Nat /\ ~Follows(file'[p], file'[p + 1])
    BY <1>3 DEF Seams
  <2>2. CASE p < off
    <3>1. p \in 1 .. off /\ p + 1 \in 1 .. off /\ p \in 1 .. Len(file) - 1
      BY <1>2, <2>1, <2>2
    <3>2. file'[p] = file[p] /\ file'[p + 1] = file[p + 1]
      BY <1>3, <3>1
    <3>3. p \in Seams(file) /\ p # off
      BY <2>1, <2>2, <3>1, <3>2, <1>2 DEF Seams
    <3> QED BY <3>2, <3>3 DEF KeptSeam
  <2>3. CASE p = off
    <3>1. p \in 1 .. off /\ p + 1 \in off + 1 .. off + width /\ off > 0 /\ p + 1 - off = 1
      BY <1>2, <2>1, <2>3
    <3>2. file'[p] = file[p]
      BY <1>3, <3>1
    <3>3. file'[p + 1] = [run |-> run, row |-> row, at |-> 1, of |-> width]
      <4> DEFINE q == p + 1
      <4>1. q \in off + 1 .. off + width /\ q - off = 1
        BY <1>2, <2>1, <2>3, <3>1
      <4> HIDE DEF q
      <4>2. file'[q] = [run |-> run, row |-> row, at |-> q - off, of |-> width]
        BY <1>4, <4>1
      <4>3. file'[q] = [run |-> run, row |-> row, at |-> 1, of |-> width]
        BY <4>1, <4>2
      <4> QED BY <4>3 DEF q
    <3>4. Follows(file'[p], file'[p + 1])
      BY <2>3, <3>1, <3>2, <3>3 DEF Follows
    <3> QED BY <2>1, <3>4
  <2>4. CASE p > off /\ p < off'
    <3>1. p \in off + 1 .. off + width /\ p + 1 \in off + 1 .. off + width
          /\ p - off # width /\ p + 1 - off = p - off + 1
      BY <1>2, <1>5, <2>1, <2>4
    <3>2. /\ file'[p] = [run |-> run, row |-> row, at |-> p - off, of |-> width]
          /\ file'[p + 1] = [run |-> run, row |-> row, at |-> p - off + 1, of |-> width]
      <4>1. file'[p] = [run |-> run, row |-> row, at |-> p - off, of |-> width]
        BY <1>4, <3>1
      <4> DEFINE q == p + 1
      <4>2. q \in off + 1 .. off + width /\ q - off = p - off + 1
        BY <1>2, <2>1, <3>1
      <4> HIDE DEF q
      <4>3. file'[q] = [run |-> run, row |-> row, at |-> q - off, of |-> width]
        BY <1>4, <4>2
      <4>4. file'[q] = [run |-> run, row |-> row, at |-> p - off + 1, of |-> width]
        BY <4>2, <4>3
      <4> QED BY <4>1, <4>4 DEF q
    <3>3. Follows(file'[p], file'[p + 1])
      BY <3>1, <3>2 DEF Follows
    <3> QED BY <2>1, <3>3
  <2>5. CASE p > off'
    <3>1. p \in 1 .. Len(file') /\ p + 1 \in 1 .. Len(file') /\ p > off + width /\ p + 1 > off + width
      BY <1>2, <1>3, <1>5, <2>1, <2>5
    <3>2. /\ p \in 1 .. Len(file) /\ p + 1 \in 1 .. Len(file)
          /\ file'[p] = file[p] /\ file'[p + 1] = file[p + 1]
      BY <1>3, <3>1
    <3>3. p \in Seams(file) /\ p # off
      BY <2>1, <2>5, <3>2, <1>2, <1>5 DEF Seams
    <3> QED BY <3>2, <3>3 DEF KeptSeam
  <2> QED BY <1>2, <1>5, <2>1, <2>2, <2>3, <2>4, <2>5
<1>9. {file'[p].row : p \in 1 .. off'} = {file[p].row : p \in 1 .. off} \cup {row}
  <2>1. \A p \in 1 .. off : file'[p].row = file[p].row /\ p \in 1 .. off'
    BY <1>2, <1>3, <1>5
  <2>2. \A p \in 1 .. off' : p \in 1 .. off \/ p \in off + 1 .. off + width
    BY <1>2, <1>5
  <2>3. ASSUME NEW p \in off + 1 .. off + width PROVE file'[p].row = row
    <3>1. file'[p] = [run |-> run, row |-> row, at |-> p - off, of |-> width]
      BY <1>4
    <3> QED BY <3>1
  <2>4. off' \in 1 .. off'
    BY <1>2, <1>5
  <2> QED BY <1>7, <2>1, <2>2, <2>3, <2>4
<1> QED BY <1>7, <1>8, <1>9

LEMMA KeptSeamIsOld ==
  ASSUME OneSeam, run \notin failed, NEW p, KeptSeam(p)
  PROVE  p \in Seams(old)
BY DEF OneSeam, KeptSeam

LEMMA LinesStep == TimerTypes /\ ProcessTypes /\ Collecting /\ Beginning /\ FileTypes /\ OwnBytesFirst /\ Lines /\ OneSeam /\ [Next]_vars 
    => (Lines /\ OneSeam)'
<1> SUFFICES ASSUME TimerTypes, ProcessTypes, Collecting, Beginning, FileTypes,
     OwnBytesFirst, Lines, OneSeam, [Next]_vars 
             PROVE  (Lines /\ OneSeam)'
  OBVIOUS
<1> USE SizeAssumption
<1>1. CASE create_csv
  <2>1. /\ file' = file /\ off' = off /\ off = 0 /\ old' = old /\ failed' = failed
        /\ run' = run /\ pc' = "header"
    BY <1>1 DEF create_csv, Go, OpenAt, Beginning
  <2> QED BY <2>1 DEF Lines, OneSeam, Seams
<1>2. CASE WriteHeader
  <2> SUFFICES ASSUME run' \notin failed' PROVE Lines' /\ OneSeam'
    BY DEF Lines, OneSeam
  <2>1. /\ off = 0 /\ samples_collected' = 0 /\ run' = run /\ old' = old /\ pc' = "call"
        /\ Writes(0, HeaderWidth) /\ HeaderWidth \in Nat \ {0} /\ 0 \in Nat
    BY <1>2, HeaderWrites, WidthAssumption DEF WriteHeader, Go, Beginning, Collecting,
      processVars
  <2>2. /\ off' > 0 /\ file'[off'].at = file'[off'].of /\ file'[off'].row = 0
        /\ \A p \in Seams(file') : p = off' \/ KeptSeam(p)
        /\ {file'[p].row : p \in 1 .. off'} = {file[p].row : p \in 1 .. off} \cup {0}
    BY <2>1, WritesLine
  <2>3. {file[p].row : p \in 1 .. off} \cup {0} = 0 .. 0
    BY <2>1
  <2>4. Seams(file') \subseteq Seams(old) \cup {off'}
    BY <2>1, <2>2, KeptSeamIsOld DEF Writes
  <2> QED BY <2>1, <2>2, <2>3, <2>4 DEF Lines, OneSeam, Seams
<1>3. CASE WriteRow
  <2> SUFFICES ASSUME run' \notin failed' PROVE Lines' /\ OneSeam'
    BY DEF Lines, OneSeam
  <2>1. /\ samples_collected' = samples_collected + 1 /\ run' = run /\ old' = old
        /\ pc = "row" /\ pc' \in {"call", "close"} /\ samples_collected \in Nat
    BY <1>3 DEF WriteRow, AfterSample, processVars, ProcessTypes
  <2>2. /\ Writes(samples_collected + 1, NameWidth + Digits(result))
        /\ NameWidth + Digits(result) \in Nat \ {0} /\ samples_collected + 1 \in Nat
    BY <1>3, <2>1, RowWrites, RowWidth
  <2>3. run \notin failed
    BY <2>1, <2>2 DEF Writes
  <2>4. /\ off > 0 /\ file[off].at = file[off].of /\ file[off].row = samples_collected
        /\ {file[p].row : p \in 1 .. off} = 0 .. samples_collected
    BY <2>1, <2>3 DEF Lines
  <2>5. file[off].run = run
    BY <2>4 DEF OwnBytesFirst, FileTypes
  <2> HIDE DEF Digits
  <2>6. /\ off' > 0 /\ file'[off'].at = file'[off'].of /\ file'[off'].row = samples_collected + 1
        /\ \A p \in Seams(file') : p = off' \/ KeptSeam(p)
        /\ {file'[p].row : p \in 1 .. off'}
             = {file[p].row : p \in 1 .. off} \cup {samples_collected + 1}
    BY <2>1, <2>2, <2>4, <2>5, WritesLine
  <2>7. 0 .. samples_collected + 1 = (0 .. samples_collected) \cup {samples_collected + 1}
    BY <2>1
  <2>8. Seams(file') \subseteq Seams(old) \cup {off'}
    BY <2>3, <2>6, KeptSeamIsOld
  <2> QED BY <2>1, <2>4, <2>6, <2>7, <2>8 DEF Lines, OneSeam, Seams
<1>4. CASE Close
  BY <1>4 DEF Close, Go, fileVars, processVars, timerVars, Lines, OneSeam, Seams, ProcessTypes
<1>5. CASE CallMeasure
  BY <1>5 DEF CallMeasure, Go, fileVars, processVars, Lines, OneSeam, Seams, ProcessTypes
<1>6. CASE WarmUp
  BY <1>6 DEF WarmUp, fileVars, processVars, Lines, OneSeam, Seams, ProcessTypes
<1>7. CASE GetStartTime
  BY <1>7 DEF GetStartTime, Go, StartTime, fileVars, processVars, Lines, OneSeam, Seams,
    ProcessTypes
<1>8. CASE TimedCall
  BY <1>8 DEF TimedCall, AfterCall, fileVars, processVars, Lines, OneSeam, Seams, ProcessTypes
<1>9. CASE GetEndTime
  BY <1>9 DEF GetEndTime, Go, fileVars, processVars, Lines, OneSeam, Seams, ProcessTypes
<1>10. CASE Kill
  BY <1>10 DEF Kill, fileVars, processVars, timerVars, Lines, OneSeam, Seams, ProcessTypes
<1>11. CASE NextProcess
  BY <1>11 DEF NextProcess, Fresh, Lines, OneSeam, Seams
<1>12. CASE UNCHANGED vars
  BY <1>12 DEF vars, fileVars, processVars, timerVars, Lines, OneSeam, Seams, ProcessTypes
<1> QED BY <1>1, <1>2, <1>3, <1>4, <1>5, <1>6, <1>7, <1>8, <1>9, <1>10, <1>11, <1>12 DEF Next

------------------------------------------------------------------------------
(* Seams *)

(* A write keeps OwnSeams, also one that breaks off: the bytes in front of *)
(* its end are this process's, and behind it are those of others.          *)
LEMMA WritesSeams ==
  ASSUME FileTypes, ProcessTypes, OwnBytesFirst, OwnSeams, Lines,
         OwnBytesFirst', run' = run,
         NEW row \in Nat, NEW width \in Nat \ {0}, Writes(row, width),
         run \notin failed' /\ off > 0 => file[off].row + 1 = row
  PROVE  OwnSeams'
<1>1. PICK s \in Seq(Byte) :
        /\ file' = Overwrite(file, off, s) /\ off' = off + Len(s)
        /\ failed \subseteq failed'
        /\ run \notin failed' => run \notin failed
  BY DEF Writes
<1>2. file \in Seq(Byte) /\ off \in 0 .. Len(file) /\ run \in Nat
  BY DEF FileTypes, ProcessTypes
<1>3. /\ file' \in Seq(Byte)
      /\ \A p \in 1 .. Len(file') : p > off' => p \in 1 .. Len(file) /\ file'[p] = file[p]
  BY <1>1, <1>2, FileOverwrite
<1> SUFFICES ASSUME NEW p \in Seams(file')
             PROVE  file'[p].run \in failed' \/ file'[p].run # file'[p + 1].run
  BY DEF OwnSeams
<1>4. /\ p \in Nat /\ p + 1 \in Nat /\ off \in Nat /\ off' \in Nat
      /\ p \in DOMAIN file' /\ p + 1 \in DOMAIN file' /\ ~Follows(file'[p], file'[p + 1])
  BY <1>1, <1>2, <1>3 DEF Seams
<1>5. CASE p > off'
  <2>1. p + 1 > off' /\ p \in 1 .. Len(file') /\ p + 1 \in 1 .. Len(file')
    BY <1>3, <1>4, <1>5
  <2>2. /\ p \in 1 .. Len(file) /\ file'[p] = file[p]
        /\ p + 1 \in 1 .. Len(file) /\ file'[p + 1] = file[p + 1]
    BY <1>3, <1>4, <1>5, <2>1
  <2>3. p \in Seams(file)
    BY <1>2, <1>4, <2>2 DEF Seams
  <2>. QED BY <1>1, <2>2, <2>3 DEF OwnSeams
<1>6. CASE p = off'
  <2>1. file'[p].run = run /\ file'[p + 1].run < run
    BY <1>4, <1>6 DEF OwnBytesFirst
  <2>. QED BY <1>2, <2>1
<1>7. CASE p < off' /\ run \in failed'
  <2>1. file'[p].run = run
    BY <1>4, <1>7 DEF OwnBytesFirst
  <2>. QED BY <1>7, <2>1
<1>8. CASE p < off' /\ run \notin failed'
  <2>1. run \notin failed
    BY <1>1, <1>8
  <2>2. off > 0 => /\ file[off].at = file[off].of /\ file[off].run = run
                   /\ file[off].row + 1 = row
    <3>1. off > 0 => off \in DOMAIN file
      BY <1>2
    <3>. QED BY <1>4, <1>8, <2>1, <3>1 DEF OwnBytesFirst, Lines
  <2>3. p = off' \/ KeptSeam(p)
    BY <1>8, <2>2, WritesLine
  <2>4. KeptSeam(p)
    BY <1>4, <1>8, <2>3
  <2>. QED BY <1>1, <2>4 DEF OwnSeams, KeptSeam
<1>. QED BY <1>4, <1>5, <1>6, <1>7, <1>8

LEMMA OwnSeamsStep ==
  TimerTypes /\ ProcessTypes /\ Collecting /\ Beginning /\ FileTypes /\ OwnBytesFirst
    /\ Lines /\ OwnSeams /\ [Next]_vars => OwnSeams'
<1> SUFFICES ASSUME TimerTypes, ProcessTypes, Collecting, Beginning, FileTypes,
                    OwnBytesFirst, Lines, OwnSeams, [Next]_vars
             PROVE  OwnSeams'
  OBVIOUS
<1>1. CASE WriteHeader
  <2>1. /\ off = 0 /\ run' = run /\ 0 \in Nat /\ HeaderWidth \in Nat \ {0}
        /\ Writes(0, HeaderWidth)
    BY <1>1, HeaderWrites, WidthAssumption DEF WriteHeader, Go, Beginning, processVars
  <2>2. OwnBytesFirst'
    BY OwnStep
  <2>. QED BY <2>1, <2>2, WritesSeams
<1>2. CASE WriteRow
  <2>1. /\ run' = run /\ pc = "row" /\ samples_collected + 1 \in Nat
        /\ Writes(samples_collected + 1, NameWidth + Digits(result))
        /\ NameWidth + Digits(result) \in Nat \ {0}
    BY <1>2, RowWrites, RowWidth DEF WriteRow, processVars, ProcessTypes
  <2>2. OwnBytesFirst'
    BY OwnStep
  <2>3. run \notin failed' => file[off].row + 1 = samples_collected + 1
    BY <2>1 DEF Lines, Writes
  <2> HIDE DEF Digits
  <2>. QED BY <2>1, <2>2, <2>3, WritesSeams
<1>3. CASE ~WriteHeader /\ ~WriteRow
  <2>1. file' = file /\ failed' = failed
    BY <1>3 DEF Next, vars, fileVars, create_csv, Close, CallMeasure, WarmUp, GetStartTime,
      TimedCall, GetEndTime, Kill, NextProcess
  <2>. QED BY <2>1 DEF OwnSeams, Seams
<1>. QED BY <1>1, <1>2, <1>3

(* Behind each seam that nobody's failure made stands a byte of an earlier *)
(* process, and behind different seams of different ones.                  *)
LEMMA SeamsAreBounded ==
  ASSUME ProcessTypes, FileTypes, OwnBytesFirst, OwnSeams
  PROVE  SeamsBounded
<1> DEFINE T == {p \in Seams(file) : file[p].run \notin failed}
           f == [p \in T |-> file[p + 1].run]
<1>1. file \in Seq(Byte) /\ Len(file) \in Nat /\ DOMAIN file = 1 .. Len(file) /\ run \in Nat
  BY DEF FileTypes, ProcessTypes
<1>2. ASSUME NEW p \in T
      PROVE  /\ p \in Nat /\ p \in DOMAIN file /\ p + 1 \in DOMAIN file
             /\ file[p].run \in Nat /\ file[p + 1].run \in Nat \ {0}
             /\ file[p].run <= run /\ file[p + 1].run < file[p].run
  <2>1. p \in Nat /\ p \in DOMAIN file /\ p + 1 \in DOMAIN file /\ p < p + 1
    BY <1>1 DEF Seams
  <2>2. file[p] \in Byte /\ file[p + 1] \in Byte
    BY <1>1, <2>1
  <2>3. file[p].run \in 1 .. RUNS /\ file[p + 1].run \in 1 .. RUNS
    BY <2>2 DEF Byte
  <2>4. file[p].run >= file[p + 1].run /\ (file[p].run = run \/ file[p].run < run)
    BY <2>1 DEF OwnBytesFirst
  <2>5. file[p].run # file[p + 1].run
    BY DEF OwnSeams
  <2>. QED BY <1>1, <2>1, <2>3, <2>4, <2>5, RunAssumption
<1>3. f \in [T -> 1 .. run - 1]
  BY <1>1, <1>2
<1>4. ASSUME NEW p \in T, NEW q \in T, p < q PROVE f[p] > f[q]
  <2>1. p + 1 <= q
    BY <1>2, <1>4
  <2>2. file[p + 1].run >= file[q].run
    BY <1>2, <2>1 DEF OwnBytesFirst
  <2>. QED BY <1>2, <2>2
<1>5. ASSUME NEW p \in T, NEW q \in T, f[p] = f[q] PROVE p = q
  <2>1. p \in Nat /\ q \in Nat /\ f[p] \in Nat /\ f[q] \in Nat
    BY <1>2
  <2>2. ~(p < q) /\ ~(q < p)
    <3> HIDE DEF T, f
    <3> QED BY <1>4, <1>5, <2>1
  <2> QED BY <2>1, <2>2
<1>6. f \in Injection(T, 1 .. run - 1)
  BY <1>3, <1>5 DEF Injection, IsInjective
<1>7. IsFiniteSet(1 .. run - 1) /\ Cardinality(1 .. run - 1) = run - 1
  <2> DEFINE r == run - 1
  <2>1. r \in Nat
    BY RunAssumption DEF ProcessTypes
  <2> HIDE DEF r
  <2>2. IsFiniteSet(1 .. r) /\ Cardinality(1 .. r) = IF 1 > r THEN 0 ELSE r - 1 + 1
    BY <2>1, FS_Interval
  <2>3. IsFiniteSet(1 .. r) /\ Cardinality(1 .. r) = r
    BY <2>1, <2>2
  <2> QED BY <2>3 DEF r
<1>8. Cardinality(T) \in Nat /\ Cardinality(T) <= run - 1
  BY <1>6, <1>7, FS_Injection, FS_CardinalityType
<1>. QED BY <1>1, <1>8 DEF SeamsBounded

------------------------------------------------------------------------------
(* The invariant *)

LEMMA IInvInit == Init => IInv
<1> SUFFICES ASSUME Init PROVE IInv
  OBVIOUS
<1> USE SizeAssumption, TimerAssumption, RunAssumption DEF Init
<1>1. <<>> \in Seq(Byte) /\ DOMAIN <<>> = {} /\ Len(<<>>) = 0
  OBVIOUS
<1>2. FileTypes
  BY <1>1 DEF FileTypes
<1>3. opened \in BOOLEAN /\ failed \in SUBSET (1 .. run) /\ warm \in BOOLEAN
  OBVIOUS
<1>4. ProcessTypes
  BY <1>3 DEF ProcessTypes
<1>5. TimerTypes /\ Collecting /\ Measuring /\ Beginning /\ Lines
  BY DEF TimerTypes, Collecting, Measuring, Beginning, Lines
<1>6. OwnBytesFirst /\ OneSeam /\ OwnSeams
  BY <1>1 DEF OwnBytesFirst, OneSeam, OwnSeams, Seams
<1> QED BY <1>2, <1>4, <1>5, <1>6 DEF IInv

LEMMA IInvStep == IInv /\ [Next]_vars => IInv'
  BY TimerTypesStep, ProcessTypesStep, FileTypesStep, MeasuringStep, BeginningStep, OwnStep,
     LinesStep, OwnSeamsStep DEF IInv

(* The inductive invariant: the parts above, each kept by every step.      *)
THEOREM Invariant == Spec => []IInv
  BY IInvInit, IInvStep, PTL DEF Spec

(* Type correctness, for any number of processes and samples.              *)
THEOREM TypeCorrect == Spec => []TypeOK
<1>1. IInv => TypeOK
  <2> SUFFICES ASSUME IInv PROVE TypeOK
    OBVIOUS
  <2>1. failed \subseteq 1 .. run /\ run \in 1 .. RUNS
    BY DEF IInv, ProcessTypes
  <2>2. 1 .. run \subseteq 1 .. RUNS
    BY <2>1, RunAssumption
  <2> QED BY <2>1, <2>2 DEF IInv, TypeOK, TimerTypes, ProcessTypes, FileTypes
<1> QED BY <1>1, Invariant, PTL

(* The file is what this process wrote and then what it found, whatever    *)
(* processes came before and wherever they were killed.                    *)
THEOREM OwnBytesAreFirst == Spec => []OwnBytesFirst
<1>1. IInv => OwnBytesFirst
  BY DEF IInv
<1> QED BY <1>1, Invariant, PTL

(* A process adds one broken line at most, for rows of any lengths.        *)
THEOREM OneSeamIsAdded == Spec => []OneSeam
<1>1. IInv => OneSeam
  BY DEF IInv
<1> QED BY <1>1, Invariant, PTL

(* After any number of processes, ended or killed anywhere, there are      *)
(* fewer seams than processes, but for what failed writes left.            *)
THEOREM SeamsStayBounded == Spec => []SeamsBounded
<1>1. IInv => SeamsBounded
  BY SeamsAreBounded DEF IInv
<1> QED BY <1>1, Invariant, PTL

(* A process that ends has written its header and all its rows.            *)
THEOREM RunIsComplete == Spec => []RunComplete
<1>1. IInv => RunComplete
  <2> SUFFICES ASSUME IInv, pc = "done", run \notin failed
               PROVE  /\ {file[p].row : p \in 1 .. off} = 0 .. SAMPLE_SIZE
                      /\ Len(old) <= off => Len(file) = off
    BY DEF RunComplete
  <2>1. {file[p].row : p \in 1 .. off} = 0 .. SAMPLE_SIZE
    BY DEF IInv, Lines, Collecting
  <2>2. off \in 0 .. Len(file) /\ Len(file) \in Nat /\ Len(old) \in Nat
        /\ DOMAIN file = 1 .. Len(file) /\ DOMAIN old = 1 .. Len(old)
    BY DEF IInv, FileTypes
  <2>3. Len(file) > off => Len(file) \in 1 .. Len(old)
    <3>1. Len(file) > off => Len(file) \in DOMAIN file
      BY <2>2
    <3>2. \A p \in DOMAIN file : p <= off \/ p \in DOMAIN old
      BY DEF IInv, OwnBytesFirst
    <3> QED BY <2>2, <3>1, <3>2
  <2>4. Len(old) <= off => Len(file) = off
    <3>1. off \in Nat /\ off <= Len(file) /\ Len(file) \in Nat /\ Len(old) \in Nat
      BY <2>2
    <3>2. Len(file) > off => Len(file) <= Len(old)
      BY <2>3, <3>1
    <3> QED BY <3>1, <3>2
  <2> QED BY <2>1, <2>4
<1> QED BY <1>1, Invariant, PTL

(* Without a warm-up the result is the mean of the calls that were timed;  *)
(* with any warm-up it is at most that mean.                               *)
THEOREM MeanIsMeasured == Spec => []MeasuresMean
<1>1. IInv => MeasuresMean
  <2> SUFFICES ASSUME IInv, pc = "row" PROVE MeasuresMean
    BY DEF MeasuresMean
  <2>1. /\ timed = IF ITERATIONS > ignore_iter THEN ITERATIONS - ignore_iter ELSE 1
        /\ result = spent \div ITERATIONS
    BY DEF IInv, Measuring
  <2>2. spent \in Nat /\ ignore_iter \in Nat /\ ITERATIONS \in Nat \ {0}
    BY SizeAssumption DEF IInv, TimerTypes
  <2>3. timed \in Nat \ {0} /\ timed <= ITERATIONS
    BY <2>1, <2>2
  <2>4. spent \div ITERATIONS <= spent \div timed
    BY <2>2, <2>3, DividesByMore
  <2>5. ignore_iter = 0 => timed = ITERATIONS
    BY <2>1, <2>2
  <2> QED BY <2>1, <2>4, <2>5 DEF MeasuresMean
<1> QED BY <1>1, Invariant, PTL
==============================================================================
