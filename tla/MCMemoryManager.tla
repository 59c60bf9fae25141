-------------------------- MODULE MCMemoryManager --------------------------
EXTENDS MemoryManager, TLC

CONSTANT Data               \* contents of a block

(* A block's contents are one value of Data; its i-th byte is <<d, i>>, so *)
(* that every byte of every block is told apart from every other.          *)
MCImages(len) == {[i \in 0..(len - 1) |-> <<d, i>>] : d \in Data}
MCByte == {<<d, i>> : d \in Data, i \in 0..(ChunkSize - 1)} \cup {Uninit}

Symmetry == Permutations(Ptrs) \cup Permutations(Chunks)
=============================================================================
