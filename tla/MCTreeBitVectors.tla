------------------------- MODULE MCTreeBitVectors -------------------------
EXTENDS TreeBitVectors

(* A compressor that loses nothing, whose output is no block.              *)
MCCompress(b) == [data |-> b]
MCDecompress(c) == c.data

(* Empty blocks, and blocks with a one in some words only.                 *)
MCAdded == {[k \in Bits |-> 0], [k \in Bits |-> IF k = 3 THEN 1 ELSE 0]}
=============================================================================
