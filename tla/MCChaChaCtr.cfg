\* Words of two bytes with three values each, so that the word and its low
\* byte wrap at different times; blocks of two bytes.  The longest input
\* uses a counter more blocks than it has values, and ends within a block.
CONSTANTS
  BlockBytes = 2
  WordMod = 9
  ByteMod = 3
  MaxLen = 21
SPECIFICATION Spec
INVARIANTS
  TypeOK
  KeystreamRight
  AvxStream
  OutputComplete
\* A call ends.
CHECK_DEADLOCK FALSE
