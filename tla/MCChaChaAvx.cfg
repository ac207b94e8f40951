\* Blocks of two bytes: three double blocks.
CONSTANTS
  BlockBytes = 2
  WordMod = 9
  ByteMod = 3
  MaxLen = 12
SPECIFICATION Spec
INVARIANT AvxKeystreamRight
CHECK_DEADLOCK FALSE
