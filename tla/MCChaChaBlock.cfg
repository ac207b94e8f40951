CONSTANTS
  Word <- MCWord
  Add <- MCAdd
  Xor <- MCXor
  Rotl <- MCRotl
  One <- MCOne
  Sigma <- MCSigma
  Key <- MCKey
  Input <- MCInput
SPECIFICATION Spec
INVARIANTS
  TypeOK
  SseAgrees
  AvxAgrees
  KnownAnswer
\* A call ends when the block is stored.
CHECK_DEADLOCK FALSE
