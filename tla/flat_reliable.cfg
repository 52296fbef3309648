CONSTANTS
  a1 = a1  a2 = a2  a3 = a3  b1 = b1  b2 = b2  x = x  y = y
  KeysA = {a1, a2, a3}
  KeysB = {b1, b2}
  StartB = 1
  Keys <- MCKeys
  Hash <- MCHash
  GROUP_SIZE = 2
  UPPER_DIV = 4
  Entries = {x}
  Hints = {3, 8}
  SPARSE_LIN_PROBE = FALSE
  MAX_GROUPS = 4
  MallocMayFail = FALSE
  NULL = NULL
  FREED = FREED
  JUNK = JUNK
SYMMETRY MCSymmetry
SPECIFICATION Spec
INVARIANTS LoadWithinLimit ReturnedEntryIsLive HungTableHasNoEmptySlot OnlyTombstonesHang
