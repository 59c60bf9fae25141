-------------------------- MODULE DynamicBitVector --------------------------
(***************************************************************************)
(* src/memorymanager/datastructures/DynamicBitVector.cc: a bit vector of   *)
(* blocks of one size behind a SimpleCache, with the ones of the blocks    *)
(* summed up in a segment tree for rank and select. Bits are modified in   *)
(* place, and blocks are only added at the end.                            *)
(*                                                                         *)
(* A block is its bits; bit k of the code's char buffer is bit k here, and *)
(* word k / IntBit of it holds it at place k % IntBit, as on the machines  *)
(* with the lowest byte first the code is written for.                     *)
(***************************************************************************)
EXTENDS SimpleCache, FiniteSets

CONSTANTS NumberOfBlocks,   \* leaves of the segment tree, a power of two
          IntBit,           \* bits of a uint32_t
          ChunkInts,        \* uint32_t in a block
          Added,            \* blocks clients add
          Words,            \* words clients write
          Touched,          \* places of a block at which clients modify bits
          MaxBlocks         \* bound: blocks in the vector

ChunkBits == ChunkInts * IntBit
Bits == 0 .. ChunkBits - 1

(* What roundToPowerOf2 returns: res is 1, and doubled in every round.     *)
IsPowerOf2(num) ==
  \E rounds \in 0 .. num : \E res \in [0 .. rounds -> 1 .. num] :
    /\ res[0] = 1 /\ res[rounds] = num
    /\ \A k \in 1 .. rounds : res[k] = 2 * res[k - 1]

ASSUME SizeAssumption ==
  /\ NumberOfBlocks \in Nat \ {0} /\ IntBit \in Nat \ {0} /\ ChunkInts \in Nat \ {0}
  /\ MaxBlocks \in Nat /\ MaxBlocks <= NumberOfBlocks
ASSUME PowerAssumption == IsPowerOf2(NumberOfBlocks)
ASSUME BlockAssumption == Block = [Bits -> {0, 1}]
ASSUME ClientAssumption ==
  /\ Added \subseteq Block
  /\ Words \subseteq [0 .. IntBit - 1 -> {0, 1}]
  /\ Touched \subseteq Bits

VARIABLES numberOfOnes, counter

vars == <<cacheVars, numberOfOnes, counter>>

Nodes == 0 .. 2 * NumberOfBlocks - 2
Leaf(i) == i + NumberOfBlocks - 1

(* Mutant: the parent is computed as if the nodes were numbered from 1.    *)
ParentFromOne(index) == index \div 2

Parent(index) == (index - 1) \div 2

(* A node and those above it.                                              *)
Path[index \in Nodes] == {index} \cup IF index = 0 THEN {} ELSE Path[Parent(index)]

(* countInt, summed up over the bits from..to of a block.                  *)
Ones(block, from, to) == Cardinality({k \in from .. to : block[k] = 1})

AddOnes(index, add) ==
  numberOfOnes' = [n \in Nodes |-> IF n \in Path[index] THEN numberOfOnes[n] + add
                                   ELSE numberOfOnes[n]]
-----------------------------------------------------------------------------
Init == /\ CacheInit
        /\ numberOfOnes = [n \in Nodes |-> 0]
        /\ counter = 0

AddBlock(block) ==
  LET val == Ones(block, 0, ChunkBits - 1)
  IN  /\ counter < MaxBlocks
      /\ Push(block)
      /\ numberOfOnes' = [n \in Nodes |->
           IF n = Leaf(counter) THEN val
           ELSE IF n \in Path[Leaf(counter)] THEN numberOfOnes[n] + val
           ELSE numberOfOnes[n]]
      /\ counter' = counter + 1

(* access, accessUint32_t, rank and select get one block and change none.  *)
Read(i) == i < counter /\ Get(i, Content(i)) /\ UNCHANGED <<numberOfOnes, counter>>

(* modify of bit k of block i.                                             *)
Modify(i, k, val) ==
  /\ i < counter
  /\ Get(i, [Content(i) EXCEPT ![k] = val])
  /\ IF Content(i)[k] # val THEN AddOnes(Leaf(i), IF val = 1 THEN 1 ELSE -1)
     ELSE UNCHANGED numberOfOnes
  /\ UNCHANGED counter

(* modifyUint32_t of word j of block i.                                    *)
ModifyUint32(i, j, val) ==
  LET old == Content(i)
      new == [k \in Bits |-> IF k \div IntBit = j THEN val[k % IntBit] ELSE old[k]]
  IN  /\ i < counter
      /\ Get(i, new)
      /\ AddOnes(Leaf(i), Ones(val, 0, IntBit - 1)
                          - Ones(old, j * IntBit, j * IntBit + IntBit - 1))
      /\ UNCHANGED counter

Next == \/ \E block \in Added : AddBlock(block)
        \/ \E i \in Indices :
             \/ Read(i)
             \/ \E k \in Touched, val \in {0, 1} : Modify(i, k, val)
             \/ \E j \in 0 .. ChunkInts - 1, val \in Words : ModifyUint32(i, j, val)

Spec == Init /\ [][Next]_vars
-----------------------------------------------------------------------------
(* The walk up of rank: a right child adds what its left sibling has.      *)
SumOfLeft ==
  LET walk[index \in Nodes] ==
        IF index = 0 THEN 0
        ELSE LET help == Parent(index)
             IN  walk[help] + IF index = 2 * help + 2 THEN numberOfOnes[2 * help + 1] ELSE 0
  IN  walk

Rank(pos) ==
  LET i == pos \div ChunkBits
  IN  Ones(Content(i), 0, pos % ChunkBits) + SumOfLeft[Leaf(i)]

GoesRight(index, num) == numberOfOnes[2 * index + 1] < num

(* Mutant: the ones passed over on the left are not taken off.             *)
SelectLeafKeepsNum(num) ==
  LET walk[index \in Nodes] == [k \in Nat |->
        IF 2 * index + 2 > 2 * NumberOfBlocks - 1 THEN [leaf |-> index, num |-> k]
        ELSE IF GoesRight(index, k) THEN walk[2 * index + 2][k]
        ELSE walk[2 * index + 1][k]]
  IN  walk[0][num]

(* The walk down of select: the leaf with the num-th one, and which of its *)
(* ones that is.                                                           *)
SelectLeaf(num) ==
  LET walk[index \in Nodes] == [k \in Nat |->
        IF 2 * index + 2 > 2 * NumberOfBlocks - 1 THEN [leaf |-> index, num |-> k]
        ELSE IF GoesRight(index, k) THEN walk[2 * index + 2][k - numberOfOnes[2 * index + 1]]
        ELSE walk[2 * index + 1][k]]
  IN  walk[0][num]

Select(num) ==
  LET found == SelectLeaf(num + 1)
      i     == found.leaf - (NumberOfBlocks - 1)
  IN  IF numberOfOnes[found.leaf] < found.num THEN -1
      ELSE i * ChunkBits + CHOOSE k \in Bits : /\ Content(i)[k] = 1
                                              /\ Ones(Content(i), 0, k) = found.num
-----------------------------------------------------------------------------
TypeOK == /\ ptrArr \in [Slots -> {-1} \cup Indices]
          /\ chArr \in [Slots -> Block \cup {NULL}]
          /\ ptrList \in Seq({Compress(b) : b \in Block} \cup {NULL})
          /\ numberOfOnes \in [Nodes -> Nat]
          /\ counter = Len(ptrList)

(* The places of the ones of the whole vector, up to bit pos.              *)
OnesUpTo(pos) == {p \in 0 .. pos : Content(p \div ChunkBits)[p % ChunkBits] = 1}

LastBit == counter * ChunkBits - 1

(* rank counts the ones up to a bit: the sums in the segment tree agree    *)
(* with the bits of every block, the cached and the stored ones.           *)
RankRight ==
  TypeOK /\ \A pos \in 0 .. LastBit : Rank(pos) = Cardinality(OnesUpTo(pos))

(* select finds the place of every one, and -1 when there are not as many. *)
SelectRight ==
  LET ones == OnesUpTo(LastBit)
  IN  /\ \A p \in ones : Select(Cardinality(OnesUpTo(p)) - 1) = p
      /\ Select(Cardinality(ones)) = -1
=============================================================================
