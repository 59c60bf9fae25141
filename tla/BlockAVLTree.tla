---------------------------- MODULE BlockAVLTree ----------------------------
(***************************************************************************)
(* src/memorymanager/avl/BlockAVLTree.cc and BlockAVLNode.cc: the tree of  *)
(* BlockBitVector. A node stands for the stored block (item.ptr) of        *)
(* item.bits bits from bit elem on. Its ones are in mysize; numOnes (ones) *)
(* is what they were when the block was added.                             *)
(***************************************************************************)
EXTENDS AVLTree

InsertBlock(t, elem, ptr, numOnes, bits) ==
  Insert(t, elem, [NoItem EXCEPT !.ptr = ptr, !.bits = bits], numOnes)

Holds(t, elem) == elem \in t.elem .. t.elem + t.item.bits - 1

(* find: the node whose block holds bit elem.                              *)
FindBlock(t, elem) ==
  LET find[u \in Trees] ==
        IF u = Nil \/ Holds(u, elem) THEN u
        ELSE find[IF elem < u.elem THEN u.left ELSE u.right]
  IN  find[t]

(* Mutant: the block itself is not counted.                                *)
UpdatePathAbove(t, elem, add) ==
  LET update[u \in Trees] ==
        IF u = Nil \/ Holds(u, elem) THEN u
        ELSE IF elem < u.elem THEN [u EXCEPT !.mysize = @ + add, !.left = update[@]]
        ELSE [u EXCEPT !.mysize = @ + add, !.right = update[@]]
  IN  update[t]

(* updatePath: mysize from the root down to the block, but not numOnes.    *)
UpdatePath(t, elem, add) ==
  LET update[u \in Trees] ==
        IF u = Nil THEN Nil
        ELSE IF Holds(u, elem) THEN [u EXCEPT !.mysize = @ + add]
        ELSE IF elem < u.elem THEN [u EXCEPT !.mysize = @ + add, !.left = update[@]]
        ELSE [u EXCEPT !.mysize = @ + add, !.right = update[@]]
  IN  update[t]

(* node->ptr = ptr, for the node of the block that starts at elem.         *)
SetPtr(t, elem, ptr) ==
  LET set[u \in Trees] ==
        IF u = Nil THEN Nil
        ELSE IF elem = u.elem THEN [u EXCEPT !.item.ptr = ptr]
        ELSE IF elem < u.elem THEN [u EXCEPT !.left = set[@]]
        ELSE [u EXCEPT !.right = set[@]]
  IN  set[t]

OwnOnes(t) == MySize(t) - MySize(t.left) - MySize(t.right)

(* rank: the ones in the whole blocks up to bit elem, and the block of     *)
(* which only a part counts, if any.                                       *)
RankBlocks(t, elem) ==
  LET rank[u \in Trees] ==
        IF u = Nil THEN [elements |-> 0, node |-> Nil]
        ELSE IF elem < u.elem THEN rank[u.left]
        ELSE IF elem - u.elem >= u.item.bits - 1
        THEN [rank[u.right] EXCEPT !.elements = @ + MySize(u.left) + OwnOnes(u)]
        ELSE [elements |-> MySize(u.left), node |-> u]
  IN  rank[t]

(* select: the block with the size-th one, and which of its ones that is.  *)
SelectBlockFrom(t, size) ==
  LET select[u \in Trees] ==
        [s \in Int |->
           IF u = Nil THEN [ones |-> -1, node |-> Nil]
           ELSE LET val == MySize(u.left)
                IN  IF s <= val THEN select[u.left][s]
                    ELSE IF s <= val + OwnOnes(u) THEN [ones |-> s - val, node |-> u]
                    ELSE select[u.right][s - (val + OwnOnes(u))]]
  IN  select[t][size]

SelectBlock(t, size) == SelectBlockFrom(t, size + 1)
=============================================================================
