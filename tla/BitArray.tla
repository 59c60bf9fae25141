------------------------------ MODULE BitArray ------------------------------
(***************************************************************************)
(* What a bit vector without insertion promises: the bits of a block are   *)
(* put behind the others, and a modification changes one bit.              *)
(***************************************************************************)
EXTENDS Integers, Sequences

CONSTANT ChunkBits          \* bits in a block

VARIABLE bits

Init == bits = <<>>

AddBlock ==
  /\ Len(bits') = Len(bits) + ChunkBits
  /\ SubSeq(bits', 1, Len(bits)) = bits
  /\ \A i \in Len(bits) + 1 .. Len(bits') : bits'[i] \in {0, 1}

Modify == \E i \in 1 .. Len(bits), val \in {0, 1} : bits' = [bits EXCEPT ![i] = val]

Next == AddBlock \/ Modify

Spec == Init /\ [][Next]_bits
=============================================================================
