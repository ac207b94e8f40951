\* The sizes of the code.  Three blocks in all, in calls that end with a
\* block, within one, and at once.
CONSTANTS
  BLK_BYTES = 16
  ByteMod = 256
  Cipher <- aes_encryption
  Key <- Keys
  Start <- Starts
  MaxBlocks = 3
  PtLength <- Lengths
SPECIFICATION Spec
INVARIANTS
  TypeOK
  OutputComplete
  StreamOfWideCounter
  CipherRight
\* A caller need not call again.
CHECK_DEADLOCK FALSE
