---------------------- MODULE MCAdvancedMemoryManager ----------------------
EXTENDS AdvancedMemoryManager, TLC

CONSTANT Data               \* contents of a block

MCImages(l) == {[i \in 0..(l - 1) |-> <<d, i>>] : d \in Data}
MCByte == {<<d, i>> : d \in Data, i \in 0..(ChunkSize - 1)} \cup {Uninit}

Symmetry == Permutations(Ptrs)
=============================================================================
