\* As in MCAesCtr.cfg; two blocks are enough.
CONSTANTS
  BLK_BYTES = 16
  ByteMod = 256
  Cipher <- aes_encryption
  Key <- Keys
  Start <- Starts
  MaxBlocks = 2
  PtLength <- Lengths
SPECIFICATION Spec
INVARIANT BlockCounterIncremented
CHECK_DEADLOCK FALSE
