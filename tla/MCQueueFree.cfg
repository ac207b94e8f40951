\* Two queued items are the fewest that make free_nodes go round twice.
CONSTANTS
  Node = {n1, n2}
  Buf = {b1, b2}
  Msg = {m1, m2}
  NULL = NULL
  Junk = Junk
SPECIFICATION Spec
SYMMETRY Symmetry
INVARIANT FreeQueueDefined
CHECK_DEADLOCK FALSE
