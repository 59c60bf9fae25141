SPECIFICATION Spec
CONSTANTS
  MaxHeight = 12
  IntBit = 2
  ChunkInts = 2
  MaxBlocks = 3
  Touched = {1, 2, 3}
  Added <- MCAdded
  Compress <- MCCompress
  Decompress <- MCDecompress
INVARIANTS TreesRight SameBits RankRight SelectRight
PROPERTY ImplementsArray
