--------------------------- MODULE BlockSequence ---------------------------
(***************************************************************************)
(* What the tree of a bit vector promises its client: the blocks of the    *)
(* vector in their order, each with its length in bytes and its number of  *)
(* ones. An operation replaces one block, or two neighbours, and leaves    *)
(* every other block as it is.                                             *)
(***************************************************************************)
EXTENDS Integers, Sequences

CONSTANTS Lens,             \* lengths a block can have
          Ones,             \* numbers of ones a block can have
          Word              \* bytes in the word an operation adds or takes

VARIABLE blocks

Block == [len : Lens, ones : Ones]

Init == blocks = <<>>

(* The m blocks of old from place i on give way to blocks of lengths lens. *)
Replace(old, new, i, m, lens) ==
  LET n == Len(lens)
  IN  /\ Len(new) = Len(old) - m + n
      /\ \A j \in 1 .. i - 1 : new[j] = old[j]
      /\ \A j \in 1 .. n : new[i + j - 1] \in Block /\ new[i + j - 1].len = lens[j]
      /\ \A j \in i + m .. Len(old) : new[j - m + n] = old[j]

Add(old, new) == \E len \in Lens : Replace(old, new, Len(old) + 1, 0, <<len>>)

Change(old, new, i) ==
  \E d \in {-Word, 0, Word} : Replace(old, new, i, 1, <<old[i].len + d>>)

Split(old, new, i) ==
  LET len == old[i].len + Word
  IN  Replace(old, new, i, 1, <<len \div 2, len - len \div 2>>)

Merge(old, new, i) ==
  /\ i < Len(old)
  /\ LET len == old[i].len + old[i + 1].len - Word
         l1  == ((len \div 2) \div Word) * Word
     IN  Replace(old, new, i, 2, <<len>>) \/ Replace(old, new, i, 2, <<l1, len - l1>>)

Operation(old, new) ==
  \/ Add(old, new)
  \/ \E i \in 1 .. Len(old) : Change(old, new, i) \/ Split(old, new, i) \/ Merge(old, new, i)

Next == Operation(blocks, blocks')

Spec == Init /\ [][Next]_blocks
=============================================================================
