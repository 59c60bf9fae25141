SPECIFICATION Spec
CONSTANTS
  Ptrs = {p1, p2, p3, p4}
  Chunks = {c1, c2, c3}
  ChunkSize = 3
  Lens = {1, 2}
  Data = {d1}
  Uninit = Uninit
  NULL = NULL
  Byte <- MCByte
  Images <- MCImages
SYMMETRY Symmetry
INVARIANT
  TypeOK
  Layout
  OnlyHeadHasRoom
  PoolOK
  NoOverlap
  NoFragmentation
PROPERTY
  MovesOnlyIntoHole
  ImplementsStore
