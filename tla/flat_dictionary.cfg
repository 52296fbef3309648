CONSTANTS
  a1 = a1  a2 = a2  a3 = a3  b1 = b1  b2 = b2  b3 = b3  x = x  y = y
  KeysA = {}
  KeysB = {b1, b2, b3}
  StartB = 3
  Keys <- MCKeys
  Hash <- MCHash
  GROUP_SIZE = 2
  UPPER_DIV = 2
  Entries = {x, y}
  Hints = {3, 7}
  SPARSE_LIN_PROBE = TRUE
  MAX_GROUPS = 4
  MallocMayFail = TRUE
  NULL = NULL
  FREED = FREED
  JUNK = JUNK
SPECIFICATION FairSpec
PROPERTIES ImplementsHashMap ResizeReturns
