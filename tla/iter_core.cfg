CONSTANTS
  a1 = a1  a2 = a2  b1 = b1  b2 = b2  x = x
  KeysA = {a1, a2}
  KeysB = {b1, b2}
  StartB = 3
  Keys <- MCKeys
  Hash <- MCHash
  GROUP_SIZE = 2
  UPPER_DIV = 4
  Entries = {x}
  Hints = {3, 8}
  SPARSE_LIN_PROBE = TRUE
  MAX_GROUPS = 4
  MallocMayFail = FALSE
  NULL = NULL
  FREED = FREED
  JUNK = JUNK
SYMMETRY MCSymmetry
SPECIFICATION IterSpec
INVARIANTS ForwardWalkIsExact ForwardStaysInTable BackwardWalkIsExactToGroup0
