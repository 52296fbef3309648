CONSTANTS
  a1 = a1  a2 = a2  b1 = b1
  KeysA = {a1, a2}
  KeysB = {b1}
  StartB = 3
  Keys <- MCKeys
  Hash <- MCHash
  Objects <- MCKeys
  KeyOf <- MCKeyOf
  GROUP_SIZE = 2
  UPPER_DIV = 2
  Hints = {3}
  MAX_GROUPS = 4
  MallocMayFail = FALSE
  NULL = NULL
  FREED = FREED
  JUNK = JUNK
SYMMETRY MCSymmetry
SPECIFICATION IterSpec
INVARIANTS EndIsNull
