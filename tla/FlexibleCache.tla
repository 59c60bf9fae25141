--------------------------- MODULE FlexibleCache ---------------------------
(***************************************************************************)
(* src/memorymanager/datastructures/FlexibleCache.cc: the slots in which   *)
(* the blocks of bit vectors are held uncompressed. A slot belongs to a    *)
(* node of one of the trees and remembers the bit position where the block *)
(* starts, so that nearby accesses find it without a walk down the tree.   *)
(* While a block is in a slot its words in memory may be out of date.      *)
(*                                                                         *)
(* The operations are functions on a state s of the slots and the trees:   *)
(* evicting a block sets the ptr of its node. ptr is the stored words, for *)
(* NoCompressor, whose compress and decompress copy (NoCompressor.cc), and *)
(* for a memory manager that returns what was stored (BlockStore). A       *)
(* buffer is the words of its block; what lies behind them in chArr is not *)
(* kept. Slot n of the code is slot n + 1 here.                            *)
(***************************************************************************)
EXTENDS FlexibleAVLTree, FiniteSets

CONSTANTS CacheSizes,       \* N of the code, the number of slots: any of these
          NullNode          \* nullptr in ptrArr

ASSUME CacheSizesAssumption == CacheSizes \subseteq Nat \ {0}

LOCAL Seqs == INSTANCE SequencesExt

WORD == 4                   \* sizeof(uint32_t)
INT_BIT == 32

EmptySlot == [node |-> NullNode, start |-> 0, tree |-> NullNode, words |-> <<>>]
NoSlots(size) == [n \in 1 .. size |-> EmptySlot]

InCache(slots, id) == \E n \in DOMAIN slots : slots[n].node = id
SlotOf(slots, id) == CHOOSE n \in DOMAIN slots : slots[n].node = id

SetWords(s, id, words) ==
  [s EXCEPT !.slots = [n \in DOMAIN @ |->
     IF @[n].node = id THEN [@[n] EXCEPT !.words = words] ELSE @[n]]]

SetLenIn(s, v, id, len) == [s EXCEPT !.trees[v] = SetLen(@, id, len)]

(* store, for the NoCompressor.                                            *)
Store(s, n) ==
  [s EXCEPT !.trees = [v \in DOMAIN @ |-> SetPtr(@[v], s.slots[n].node, s.slots[n].words)]]

(* makeFree: the first free slot, or else the last slot once its block is  *)
(* stored, moves to the front.                                             *)
MakeFree(s) ==
  LET free  == {n \in DOMAIN s.slots : s.slots[n].node = NullNode}
      index == IF free = {} THEN Len(s.slots) ELSE CHOOSE n \in free : \A m \in free : n <= m
  IN  [(IF free = {} THEN Store(s, index) ELSE s) EXCEPT
         !.slots = <<@[index]>> \o Seqs!RemoveAt(@, index)]

Push(s, words, id, beginPos, v) ==
  [MakeFree(s) EXCEPT
     !.slots[1] = [node |-> id, start |-> beginPos, tree |-> v, words |-> words]]

(* get and load: a block that is there already keeps its slot and its      *)
(* start; another one is read from its stored words.                       *)
Get(s, node, beginPos, v) ==
  IF InCache(s.slots, node.id) THEN s ELSE Push(s, node.ptr, node.id, beginPos, v)

(* Mutant: a block that starts at refIndex is moved as well.               *)
UpdateStartPosHere(s, refIndex, addValue, v) ==
  [s EXCEPT !.slots = [n \in DOMAIN @ |->
     IF @[n].node # NullNode /\ @[n].start >= refIndex /\ @[n].tree = v
     THEN [@[n] EXCEPT !.start = @ + addValue] ELSE @[n]]]

(* updateStartPos: the slots of one tree behind a bit.                     *)
UpdateStartPos(s, refIndex, addValue, v) ==
  [s EXCEPT !.slots = [n \in DOMAIN @ |->
     IF @[n].node # NullNode /\ @[n].start > refIndex /\ @[n].tree = v
     THEN [@[n] EXCEPT !.start = @ + addValue] ELSE @[n]]]

(* Mutant: the stored words, even if the cached ones are newer.            *)
LoadIntoBufferStored(s, node) ==
  IF node.ptr # NoPtr THEN node.ptr ELSE s.slots[SlotOf(s.slots, node.id)].words

(* loadIntoBuffer: the words of a block that is about to be deleted.       *)
LoadIntoBuffer(s, node) ==
  IF InCache(s.slots, node.id) THEN s.slots[SlotOf(s.slots, node.id)].words ELSE node.ptr

RemoveItemAtIndex(s, n) == [s EXCEPT !.slots = Append(Seqs!RemoveAt(@, n), EmptySlot)]

DeletePointer(s, id) ==
  IF InCache(s.slots, id) THEN RemoveItemAtIndex(s, SlotOf(s.slots, id)) ELSE s

(* Mutant: the words are not swapped when both blocks are there.           *)
MagicNoSwap(s, id1, id2, beginPos, v) ==
  IF InCache(s.slots, id1) /\ InCache(s.slots, id2) THEN s
  ELSE IF InCache(s.slots, id2)
  THEN [s EXCEPT !.slots[SlotOf(s.slots, id2)] =
          [@ EXCEPT !.node = id1, !.start = beginPos, !.tree = v]]
  ELSE DeletePointer(s, id1)

(* magic: node id1 takes over the block of node id2, which is deleted      *)
(* next.                                                                   *)
Magic(s, id1, id2, beginPos, v) ==
  IF InCache(s.slots, id1) /\ InCache(s.slots, id2)
  THEN LET n1 == SlotOf(s.slots, id1)
           n2 == SlotOf(s.slots, id2)
       IN  [s EXCEPT !.slots = [n \in DOMAIN @ |->
              CASE n = n1 -> [@[n2] EXCEPT !.node = id1]
                [] n = n2 -> [@[n1] EXCEPT !.node = id2]
                [] OTHER  -> @[n]]]
  ELSE IF InCache(s.slots, id2)
  THEN [s EXCEPT !.slots[SlotOf(s.slots, id2)] =
          [@ EXCEPT !.node = id1, !.start = beginPos, !.tree = v]]
  ELSE DeletePointer(s, id1)

(* getObjectByIndex: the block whose slot claims bit pos. The test adds    *)
(* the length in bytes to a position in bits, so that a block answers for  *)
(* its first eighth only.                                                  *)
Claims(s, n, pos, v) ==
  LET slot == s.slots[n]
  IN  /\ slot.node # NullNode /\ slot.tree = v
      /\ slot.start <= pos /\ pos < slot.start + WORD * Len(slot.words)

(* deleteElem with what it does to the cache: the node of bit elem itself  *)
(* is deleted, or its successor once the node has taken over its block.    *)
DeleteElemIn(s, v, elem) ==
  LET found == Find(s.trees[v], elem)
      n     == PropagateAddPos(found.node)
      add   == found.start - GetStartIndex(found.node)
      min   == Leftmost(n.right, 0)
      cut   == [s EXCEPT !.trees[v] = DeleteElem(@, elem)]
  IN  IF found.node = Nil THEN s
      ELSE IF n.left = Nil \/ n.right = Nil THEN DeletePointer(cut, n.id)
      ELSE DeletePointer(Magic(cut, n.id, min.node.id, add + min.add2 + min.node.elem, v),
                         min.node.id)
=============================================================================
