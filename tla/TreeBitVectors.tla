-------------------------- MODULE TreeBitVectors --------------------------
(***************************************************************************)
(* The bit vectors of src/memorymanager/datastructures/ that keep an AVL   *)
(* tree and no cache, under the same calls, as test_fun_datastructures.cc  *)
(* and experiment_time.cc make them through a template parameter:          *)
(* SetBitVector.cc, a tree of the places of the ones; AdvancedSetBitVector,*)
(* a tree of words; BlockBitVector.cc, a tree of the blocks it has a       *)
(* memory manager store. access, rank and select change no state here.     *)
(***************************************************************************)
EXTENDS AdvancedAVLTree, BlockAVLTree, Sequences

CONSTANTS ChunkInts,        \* words in a block
          Added,            \* blocks clients add
          Compress(_), Decompress(_),
          Touched,          \* places of a block at which clients modify bits
          MaxBlocks         \* bound: blocks in a vector

ChunkBits == ChunkInts * IntBit
Bits == 0 .. ChunkBits - 1
Block == [Bits -> {0, 1}]

ASSUME SizeAssumption == ChunkInts \in Nat \ {0} /\ MaxBlocks \in Nat
ASSUME ClientAssumption == Added \subseteq Block /\ Touched \subseteq Bits
ASSUME EnoughHeight == MaxHeight >= MaxBlocks * ChunkBits
ASSUME RoundTrip == \A b \in Block : Decompress(Compress(b)) = b

VARIABLES setTree,          \* of SetBitVector
          wordTree,         \* of AdvancedSetBitVector
          blockTree,        \* of BlockBitVector
          store,            \* the blocks BlockBitVector has stored, by pointer
          counter           \* blocks added to each of them

vars == <<setTree, wordTree, blockTree, store, counter>>

Ones(block, from, to) == Cardinality({k \in from .. to : block[k] = 1})

Init == /\ setTree = Nil /\ wordTree = Nil /\ blockTree = Nil
        /\ store = [p \in {} |-> p]
        /\ counter = 0
-----------------------------------------------------------------------------
(* The loops of addBlock: the places of the ones; the words.               *)
InsertOnes(t, block, start) ==
  LET inserted[k \in 0 .. ChunkBits] ==
        IF k = 0 THEN t
        ELSE IF block[k - 1] = 1 THEN Insert(inserted[k - 1], start + k - 1, NoItem, 1)
        ELSE inserted[k - 1]
  IN  inserted[ChunkBits]

WordOf(block, n) == {k \in 0 .. IntBit - 1 : block[n * IntBit + k] = 1}

InsertWords(t, block, start) ==
  LET inserted[n \in 0 .. ChunkInts] ==
        IF n = 0 THEN t
        ELSE InsertWord(inserted[n - 1], start + (n - 1) * IntBit, WordOf(block, n - 1))
  IN  inserted[ChunkInts]

(* A new block in the memory manager, and one gone.                        *)
NewPtr(st) == CHOOSE p \in 1 .. Cardinality(DOMAIN st) + 1 : p \notin DOMAIN st
Created(st, p, block) == [q \in DOMAIN st \cup {p} |-> IF q = p THEN Compress(block) ELSE st[q]]
Removed(st, p) == [q \in DOMAIN st \ {p} |-> st[q]]

(* A later insertion sums mysize up from numOnes again (rebalance), so     *)
(* that BlockBitVector cannot take a block after a bit has been changed;   *)
(* its clients add all blocks first.                                       *)
NumOnesUpToDate == \A n \in Nodes(blockTree) : n.ones = OwnOnes(n)

AddBlock(block) ==
  LET start == counter * ChunkBits
      ptr   == NewPtr(store)
  IN  /\ counter < MaxBlocks
      /\ NumOnesUpToDate
      /\ setTree' = InsertOnes(setTree, block, start)
      /\ wordTree' = InsertWords(wordTree, block, start)
      /\ store' = Created(store, ptr, block)
      /\ blockTree' = InsertBlock(blockTree, start, ptr, Ones(block, 0, ChunkBits - 1), ChunkBits)
      /\ counter' = counter + 1

(* The three modify operations.                                            *)
ModifySet(pos, val) ==
  setTree' = IF Find(setTree, pos) = (val = 1) THEN setTree
             ELSE IF val = 1 THEN Insert(setTree, pos, NoItem, 1)
             ELSE DeleteElem(setTree, pos)

ModifyWord(pos, val) == wordTree' = ModifyBit(wordTree, pos, val)

(* Mutant: the old block stays stored.                                     *)
ModifyBlockKeepsOld(pos, val) ==
  LET node  == FindBlock(blockTree, pos)
      block == Decompress(store[node.item.ptr])
      k     == pos - node.elem
      ptr   == NewPtr(store)
  IN  IF block[k] = val THEN UNCHANGED <<blockTree, store>>
      ELSE /\ store' = Created(store, ptr, [block EXCEPT ![k] = val])
           /\ blockTree' = UpdatePath(SetPtr(blockTree, node.elem, ptr), node.elem,
                                      IF val = 1 THEN 1 ELSE -1)

(* The changed block is stored anew, after the old one has been removed.   *)
ModifyBlock(pos, val) ==
  LET node    == FindBlock(blockTree, pos)
      block   == Decompress(store[node.item.ptr])
      k       == pos - node.elem
      without == Removed(store, node.item.ptr)
      ptr     == NewPtr(without)
  IN  IF block[k] = val THEN UNCHANGED <<blockTree, store>>
      ELSE /\ store' = Created(without, ptr, [block EXCEPT ![k] = val])
           /\ blockTree' = UpdatePath(SetPtr(blockTree, node.elem, ptr), node.elem,
                                      IF val = 1 THEN 1 ELSE -1)

Modify(pos, val) ==
  /\ ModifySet(pos, val) /\ ModifyWord(pos, val) /\ ModifyBlock(pos, val)
  /\ UNCHANGED counter

Next == \/ \E block \in Added : AddBlock(block)
        \/ \E j \in 0 .. counter - 1, k \in Touched, val \in {0, 1} :
             Modify(j * ChunkBits + k, val)

Spec == Init /\ [][Next]_vars
-----------------------------------------------------------------------------
(* access of SetBitVector, AdvancedSetBitVector and BlockBitVector.        *)
AccessSet(pos) == IF Find(setTree, pos) THEN 1 ELSE 0
AccessWord(pos) == IF FindBit(wordTree, pos) THEN 1 ELSE 0
AccessBlock(pos) ==
  LET node == FindBlock(blockTree, pos)
  IN  IF node = Nil THEN 0 ELSE Decompress(store[node.item.ptr])[pos - node.elem]

(* rank and select of BlockBitVector; those of the others are the trees'.  *)
RankBlock(pos) ==
  LET r == RankBlocks(blockTree, pos)
  IN  r.elements + IF r.node = Nil THEN 0
                   ELSE Ones(Decompress(store[r.node.item.ptr]), 0, pos - r.node.elem)

SelectPlace(num) ==
  LET r     == SelectBlock(blockTree, num)
      block == Decompress(store[r.node.item.ptr])
  IN  IF r.node = Nil THEN -1
      ELSE r.node.elem + CHOOSE k \in Bits : block[k] = 1 /\ Ones(block, 0, k) = r.ones
-----------------------------------------------------------------------------
LastBit == counter * ChunkBits - 1
SetBits == {p \in 0 .. LastBit : AccessSet(p) = 1}
CountUpTo(ones, pos) == Cardinality({p \in ones : p <= pos})

TypeOK ==
  /\ counter \in 0 .. MaxBlocks
  /\ \A n \in Nodes(setTree) : n.elem \in 0 .. LastBit /\ n.mysize \in Nat
  /\ \A n \in Nodes(wordTree) : n.item.data \subseteq 0 .. IntBit - 1 /\ n.mysize \in Nat
  /\ \A n \in Nodes(blockTree) : n.item.ptr \in DOMAIN store /\ n.mysize \in Nat

(* The three bit vectors hold the same bits after the same calls, which is *)
(* what makes them interchangeable for the template's clients.             *)
SameBits == \A pos \in 0 .. LastBit :
  AccessWord(pos) = AccessSet(pos) /\ AccessBlock(pos) = AccessSet(pos)

(* They are an array of bits: whatever a rotation or deletion does to the  *)
(* tree, modify changes one bit and addBlock none of those before it.      *)
Array == INSTANCE BitArray WITH
  bits <- [i \in 1 .. LastBit + 1 |-> AccessSet(i - 1)]
ImplementsArray == Array!Spec

(* rank counts the ones up to a bit, in each of the three.                 *)
RankRight ==
  LET ones == SetBits
  IN  \A pos \in 0 .. LastBit :
        /\ Rank(setTree, pos) = CountUpTo(ones, pos)
        /\ RankBits(wordTree, pos) = CountUpTo(ones, pos)
        /\ RankBlock(pos) = CountUpTo(ones, pos)

(* select finds the place of every one, and -1 when there are not as many. *)
SelectRight ==
  LET ones == SetBits
      Finds(num, p) ==
        Select(setTree, num) = p /\ SelectBits(wordTree, num) = p /\ SelectPlace(num) = p
  IN  /\ \A p \in ones : Finds(CountUpTo(ones, p) - 1, p)
      /\ Finds(Cardinality(ones), -1)

(* Every stored block belongs to one node and every node has one: modify,  *)
(* which stores the block anew, neither loses the old one nor shares it.   *)
OwnsItsBlocks ==
  LET nodes == Nodes(blockTree)
  IN  /\ {n.item.ptr : n \in nodes} = DOMAIN store
      /\ Cardinality(nodes) = Cardinality(DOMAIN store)

(* The heights by which rotations are decided are those of the subtrees,   *)
(* also where a deletion has put another element in a node (the trees are  *)
(* not always balanced: that node is not rebalanced).                      *)
HeightsOf(t) == \A n \in Nodes(t) : n.height = RealHeight(n)
HeightsRight == HeightsOf(setTree) /\ HeightsOf(wordTree) /\ HeightsOf(blockTree)

(* What the operations rely on in the trees.                               *)
TreesRight == TypeOK /\ OwnsItsBlocks /\ HeightsRight
=============================================================================
