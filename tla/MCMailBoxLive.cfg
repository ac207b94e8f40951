\* No symmetry: the properties are temporal.
CONSTANTS
  Sender = {s1, s2}
  Receiver = {r1, r2}
  Msg = {m1}
  NULL = NULL
  NoThread = NoThread
  Capacity = 2
SPECIFICATION FairSpec
PROPERTIES
  SendReturns
  ItemsAreReceived
