SPECIFICATION Spec
CONSTANTS
  MaxHeight = 5
  NoPtr = NoPtr
  Ptrs = {NoPtr}
  Lens = {4, 8}
  Ones = {0, 1}
  MaxBlocks = 5
  MaxShift = 32
INVARIANTS Contiguous FindsEveryBit RankCounts
PROPERTY ImplementsSequence
