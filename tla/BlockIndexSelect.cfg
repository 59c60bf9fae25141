SPECIFICATION Spec
CONSTANTS
  MaxHeight = 4
  NoPtr = NoPtr
  Ptrs = {NoPtr}
  Lens = {4, 8}
  Ones = {0, 1}
  MaxBlocks = 4
  MaxShift = 32
INVARIANT SelectPosition
