----------------------------- MODULE MCBuffers -----------------------------
(***************************************************************************)
(* The components that keep blocks behind a few buffers: DynamicBitVector  *)
(* with its SimpleCache, CacheProvider and CompressedArray. They have      *)
(* nothing to do with each other, and a behaviour is one of a single one.  *)
(***************************************************************************)
EXTENDS DynamicBitVector, CacheProvider, CompressedArray

VARIABLE part

CONSTANTS p1, p2, p3, p4

(* A compressor that loses nothing, whose output is no block.              *)
MCCompress(b) == [data |-> b]
MCDecompress(c) == c.data

MCBlock == [Bits -> {0, 1}]
MCAdded == {[k \in Bits |-> 0]}
MCWords == {[k \in 0 .. IntBit - 1 |-> IF k = 0 THEN 1 ELSE 0]}

MCPtrs == {p1, p2, p3, p4}

(* Words of four nibbles, whose upper nibbles are 0, 1 and 3.              *)
MCWord == {0, 100, 255}

InitBuffers == /\ part \in {"bit vector", "cache", "array"}
               /\ Init /\ LruInit /\ ArrayInit
               /\ part # "array" => compressor = "nocomp"
               /\ part # "cache" => \A b \in Buffers : arr[b] = 0

NextBuffers ==
  \/ part = "bit vector" /\ Next /\ UNCHANGED <<part, lruVars, arrayVars>>
  \/ part = "cache" /\ LruNext /\ UNCHANGED <<part, vars, arrayVars>>
  \/ part = "array" /\ ArrayNext /\ UNCHANGED <<part, vars, lruVars>>

SpecBuffers == InitBuffers /\ [][NextBuffers]_<<part, vars, lruVars, arrayVars>>
=============================================================================
