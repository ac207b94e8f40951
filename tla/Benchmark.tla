------------------------------ MODULE Benchmark ------------------------------
(***************************************************************************)
(* What the threaded benchmark promises to the reader of its CSV file,     *)
(* without threads and mailboxes: samples are made one after the other,    *)
(* each is under way to main or lost at once, main counts them in the      *)
(* order in which they were made, writes at most one row for each, and     *)
(* ends when it has counted all.                                           *)
(*                                                                         *)
(* BenchPipeline.tla is shown to implement Spec.                           *)
(***************************************************************************)
EXTENDS Naturals, Sequences

CONSTANT SAMPLE_SIZE  \* how many samples a run is to have

VARIABLES
  made,     \* how many samples were measured
  transit,  \* the samples that main has not counted, oldest first
  counted,  \* how many samples main has counted
  rows,     \* the samples in the CSV file
  ended     \* the run is over

vars == <<made, transit, counted, rows, ended>>

Init ==
  /\ made = 0 /\ transit = <<>>
  /\ counted = 0 /\ rows = <<>>
  /\ ended = FALSE

(* A sample is made, and lost if it cannot be sent.                        *)
Make ==
  /\ made < SAMPLE_SIZE
  /\ made' = made + 1
  /\ transit' \in {transit, Append(transit, made')}
  /\ UNCHANGED <<counted, rows, ended>>

(* A sample is counted, with or without a row.                             *)
Count ==
  /\ transit # <<>>
  /\ counted' = counted + 1
  /\ transit' = Tail(transit)
  /\ rows' \in {rows, Append(rows, Head(transit))}
  /\ UNCHANGED <<made, ended>>

End ==
  /\ counted = SAMPLE_SIZE
  /\ ended' = TRUE
  /\ UNCHANGED <<made, transit, counted, rows>>

Next == ~ended /\ (Make \/ Count \/ End)

Spec == Init /\ [][Next]_vars
==============================================================================
