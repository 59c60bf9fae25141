SPECIFICATION SpecOnes
CONSTANTS
  MaxHeight = 6
  Ptrs <- StoredWords
  NoPtr = NoPtr
  NullNode = NullNode
  CacheSizes = {2}
  v1 = v1
  Vector = {v1}
  Word = {0, 1}
  Data <- OnesAndEdges
  Count <- CountOnes
  JunkOnes = {0}
  ChunkSize = 8
  Miscounts = {"merge"}
  MaxWords = 6
  MaxShift = 64
INVARIANTS RankRight
