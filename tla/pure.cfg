CONSTANTS
  LAST = 65535
  SHIFTS = 4
  SMALL = 200
  Buckets = {2, 3, 8, 12, 64, 1000}
  LONGEST = 400
  K0 = 12345677
  WORD = 8
  BYTE = 4
SPECIFICATION Spec
INVARIANTS FoldingRoundsUp BlockHoldsTable DecodeFindsFirst ReversalIsReflection
  EveryByteIsRead OnlyTheKeyIsRead IntegersNeverCollide OneByteDecides
CHECK_DEADLOCK FALSE
