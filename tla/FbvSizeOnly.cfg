SPECIFICATION SpecShrinking
CONSTANTS
  MaxHeight = 4
  Ptrs <- StoredWords
  NoPtr = NoPtr
  NullNode = NullNode
  CacheSizes = {2}
  v1 = v1
  Vector = {v1}
  a = a
  Word = {a}
  Data <- SingleWords
  Count <- CountNothing
  JunkOnes = {0}
  ChunkSize = 8
  Miscounts = {}
  MaxWords = 4
  MaxShift = 32
INVARIANTS SizeRight
