SPECIFICATION SpecInBounds
CONSTANTS
  MaxHeight = 7
  Ptrs <- StoredWords
  NoPtr = NoPtr
  NullNode = NullNode
  CacheSizes = {1, 2, 3}
  v1 = v1
  v2 = v2
  Vector = {v1, v2}
  a = a
  b = b
  Word <- MCWord
  Data <- MCData
  Count <- CountOne
  JunkOnes = {0}
  ChunkSize = 8
  Miscounts = {}
  MaxWords = 7
  MaxShift = 32
INVARIANTS CacheAgrees SizeRight PartnerIsNeighbour AccessRight RankRight
PROPERTY ImplementsWords
SYMMETRY WordSymmetry
