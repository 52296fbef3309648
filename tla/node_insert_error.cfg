CONSTANTS
  a1 = a1  a2 = a2   b1 = b1  b2 = b2  t1 = t1
  First = a1
  Twin = t1
  OthersA = {a2}
  OthersB = {b1, b2}
  Keys <- MCKeys
  Hash <- MCHash
  Objects <- MCObjects
  KeyOf <- MCKeyOf
  GROUP_SIZE = 2
  UPPER_DIV = 4
  Hints = {0, 3, 7}
  MAX_GROUPS = 4
  MallocMayFail = TRUE
  NULL = NULL
  FREED = FREED
  JUNK = JUNK
SYMMETRY MCSymmetry
SPECIFICATION Spec
INVARIANTS ErrorMeansNotStored
