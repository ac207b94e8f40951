\* Two threads on each side, and room for an item more than there are
\* receivers.
CONSTANTS
  Sender = {s1, s2}
  Receiver = {r1, r2}
  Msg = {m1, m2}
  NULL = NULL
  NoThread = NoThread
  Capacity = 3
SPECIFICATION Spec
SYMMETRY Symmetry
INVARIANTS
  TypeOK
  MutualExclusion
  NoLostWakeup
  RecvReturnsItem
PROPERTY ImplementsChannel
