\* Three queued items and a fourth buffer that a caller holds.
CONSTANTS
  Node = {n1, n2, n3}
  Buf = {b1, b2, b3, b4}
  Msg = {m1, m2}
  NULL = NULL
  Junk = Junk
SPECIFICATION Spec
SYMMETRY Symmetry
INVARIANTS
  TypeOK
  ListShape
  Ownership
  FreeSafeUpToOneItem
PROPERTIES
  JobsStable
  ImplementsFifo
\* free_nodes ends the process when several items are queued.
CHECK_DEADLOCK FALSE
