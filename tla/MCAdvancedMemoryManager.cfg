SPECIFICATION Spec
CONSTANTS
  Ptrs = {p1, p2, p3, p4}
  ChunkSize = 5
  Lens = {2, 3}
  Data = {d1, d2}
  Uninit = Uninit
  Byte <- MCByte
  Images <- MCImages
SYMMETRY Symmetry
INVARIANTS Layout ListsComplete
PROPERTIES MovesOnlyNewest ImplementsStore
