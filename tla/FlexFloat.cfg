\* Small formats over a backend of 4 exponent and 5 fraction bits.
SPECIFICATION MCSpec
CONSTANTS
  a = a
  b = b
  c = c
  Objects = {a, b, c}
  Unmade = Unmade
  NoResult = NoResult
  NUM_BITS_EXP = 4
  NUM_BITS_FRAC = 5
  Types <- MCTypes
  Words <- MCWords
  MAX_TYPES = 2
  MaxOps = 3
INVARIANTS
  InFormat
  RoundedRight
  DifferenceIsZero
  CountedOnce
\* A search of a full table does not return.
CHECK_DEADLOCK FALSE
