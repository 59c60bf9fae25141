----------------------------- MODULE BlockArray -----------------------------
(***************************************************************************)
(* What a DynamicBitVector promises of its blocks: they are kept in the    *)
(* order in which they were added, and an operation adds one behind the    *)
(* last or replaces one. Which of them are cached is not visible here.     *)
(***************************************************************************)
EXTENDS Integers, Sequences

CONSTANT Block

VARIABLE blocks

Init == blocks = <<>>

Next == \/ \E b \in Block : blocks' = Append(blocks, b)
        \/ \E i \in 1 .. Len(blocks), b \in Block : blocks' = [blocks EXCEPT ![i] = b]

Spec == Init /\ [][Next]_blocks
=============================================================================
