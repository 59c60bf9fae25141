SPECIFICATION SpecBuffers
CONSTANTS
  N = 2
  NULL = NULL
  NumberOfBlocks = 4
  IntBit = 2
  ChunkInts = 2
  MaxBlocks = 3
  Touched = {3}
  Block <- MCBlock
  Added <- MCAdded
  Words <- MCWords
  Compress <- MCCompress
  Decompress <- MCDecompress
  p1 = p1
  p2 = p2
  p3 = p3
  p4 = p4
  Ptrs <- MCPtrs
  nullptr = nullptr
  Value = {0, 1}
  elimNum = 3
  Nibble = 4
  Group = 3
  chunkSize = 4
  Word <- MCWord
  MaxArray = 2
INVARIANTS AccessReturnsBlock
CHECK_DEADLOCK FALSE
