-------------------------- MODULE FlexibleAVLTree --------------------------
(***************************************************************************)
(* src/memorymanager/avl/FlexibleAVLTree.cc and FlexibleAVLNode.cc: an AVL *)
(* tree over the blocks of a bit vector, searched by bit position. A node  *)
(* stores the position of its block (elem), the number of its ones and of  *)
(* the ones below it (mysize), and a pending shift (addPos) that counts    *)
(* for its whole subtree, so that inserting or deleting a word moves all   *)
(* the blocks to its right in one walk.                                    *)
(*                                                                         *)
(* A tree is a nested record or Nil. id is the identity of the node object *)
(* and ptr its compressed block; the tree only carries them. The walks of  *)
(* the code that collect a path and then rebalance it are recursive        *)
(* functions on trees that rebalance on the way back; a walk that changes  *)
(* the position it looks for, or sums up the shifts it has passed, is for  *)
(* each tree a function of that number.                                    *)
(***************************************************************************)
EXTENDS Integers, Sequences

CONSTANTS MaxHeight,        \* bound: nodes on a path
          Ptrs,             \* what ptr of a node can be
          NoPtr             \* nullptr among them

ASSUME HeightAssumption == MaxHeight \in Nat
ASSUME PtrAssumption == NoPtr \in Ptrs

Nil == [null |-> TRUE]      \* a record that is no node

(* The trees with at most n nodes on a path, and those the walks work on.  *)
TreesUpTo[n \in Nat] ==
  IF n = 0 THEN {Nil}
  ELSE LET smaller == TreesUpTo[n - 1]
       IN  {Nil} \cup [id : Nat, elem : Int, ptr : Ptrs, height : Nat, mysize : Int, len : Int,
                       numOnes : Int, addPos : Int, left : smaller, right : smaller]

Trees == TreesUpTo[MaxHeight]

CHAR_BIT == 8

LOCAL Greater(a, b) == IF a > b THEN a ELSE b

NewNode(id, elem, ptr, numOnes, len) ==
  [id |-> id, elem |-> elem, ptr |-> ptr, height |-> 0, mysize |-> numOnes, len |-> len,
   numOnes |-> numOnes, addPos |-> 0, left |-> Nil, right |-> Nil]

GetStartIndex(t) == t.elem + t.addPos
Height(t) == IF t = Nil THEN -1 ELSE t.height
MySize(t) == IF t = Nil THEN 0 ELSE t.mysize
AddPos(t, d) == IF t = Nil THEN Nil ELSE [t EXCEPT !.addPos = @ + d]

(* propagateAddPos: the children take over the pending shift.             *)
PropagateAddPos(t) ==
  [t EXCEPT !.elem = @ + t.addPos, !.left = AddPos(@, t.addPos),
            !.right = AddPos(@, t.addPos), !.addPos = 0]

(* Steps B and C of rebalance, and of the rotations.                       *)
Recompute(t) ==
  [t EXCEPT !.height = 1 + Greater(Height(t.left), Height(t.right)),
            !.mysize = t.numOnes + MySize(t.left) + MySize(t.right)]

LeftRotate(t) ==
  LET k2 == PropagateAddPos(t)
      k1 == PropagateAddPos(k2.left)
  IN  Recompute([k1 EXCEPT !.right = Recompute([k2 EXCEPT !.left = k1.right])])

RightRotate(t) ==
  LET k2 == PropagateAddPos(t)
      k1 == PropagateAddPos(k2.right)
  IN  Recompute([k1 EXCEPT !.left = Recompute([k2 EXCEPT !.right = k1.left])])

(* rebalance, at one node of the path.                                     *)
Rebalance(dad) ==
  LET balance == Height(dad.right) - Height(dad.left)
      l == dad.left
      r == dad.right
  IN  IF balance < -1
      THEN Recompute(LeftRotate([dad EXCEPT
             !.left = IF Height(l.right) > Height(l.left) THEN RightRotate(@) ELSE @]))
      ELSE IF balance > 1
      THEN Recompute(RightRotate([dad EXCEPT
             !.right = IF Height(r.left) > Height(r.right) THEN LeftRotate(@) ELSE @]))
      ELSE Recompute(dad)
-----------------------------------------------------------------------------
Found(t, start) == [node |-> t, start |-> start]

(* Mutant: the bit behind a block is taken for one of its own.             *)
FindFromInclusive(t, elem, add) ==
  LET find[u \in Trees] == [a \in Int |->
        LET start == a + GetStartIndex(u)
        IN  IF u = Nil THEN Found(Nil, 0)
            ELSE IF elem < start THEN find[u.left][a + u.addPos]
            ELSE IF elem <= start + u.len * CHAR_BIT THEN Found(u, start)
            ELSE find[u.right][a + u.addPos]]
  IN  find[t][add]

(* find: the node whose block holds bit elem, and the block's position.    *)
FindFrom(t, elem, add) ==
  LET find[u \in Trees] == [a \in Int |->
        LET start == a + GetStartIndex(u)
        IN  IF u = Nil THEN Found(Nil, 0)
            ELSE IF elem < start THEN find[u.left][a + u.addPos]
            ELSE IF elem < start + u.len * CHAR_BIT THEN Found(u, start)
            ELSE IF elem > start THEN find[u.right][a + u.addPos]
            ELSE Found(Nil, 0)]
  IN  find[t][add]

Find(t, elem) == FindFrom(t, elem, 0)

(* Mutant: a node to the right of elem does not shift its right subtree.   *)
UpdatePathNoRight(t, elem, addOnes, addPlus) ==
  LET update[u \in Trees] == [e \in Int |->
        IF u = Nil THEN Nil
        ELSE IF e < GetStartIndex(u)
        THEN [u EXCEPT !.mysize = @ + addOnes, !.elem = @ + addPlus,
                       !.left = update[u.left][e - u.addPos]]
        ELSE IF e < GetStartIndex(u) + u.len * CHAR_BIT
        THEN [u EXCEPT !.mysize = @ + addOnes, !.numOnes = @ + addOnes,
                       !.right = AddPos(u.right, addPlus)]
        ELSE IF e > GetStartIndex(u)
        THEN [u EXCEPT !.mysize = @ + addOnes, !.right = update[u.right][e - u.addPos]]
        ELSE [u EXCEPT !.mysize = @ + addOnes]]
  IN  update[t][elem]

(* updatePath2: find with its side effects. addOnes is added to the block  *)
(* of bit elem and to mysize on the way, addPlus to the positions of all   *)
(* blocks right of it.                                                     *)
UpdatePath2(t, elem, addOnes, addPlus) ==
  LET update[u \in Trees] == [e \in Int |->
        IF u = Nil THEN Nil
        ELSE IF e < GetStartIndex(u)
        THEN [u EXCEPT !.mysize = @ + addOnes, !.elem = @ + addPlus,
                       !.right = AddPos(u.right, addPlus),
                       !.left = update[u.left][e - u.addPos]]
        ELSE IF e < GetStartIndex(u) + u.len * CHAR_BIT
        THEN [u EXCEPT !.mysize = @ + addOnes, !.numOnes = @ + addOnes,
                       !.right = AddPos(u.right, addPlus)]
        ELSE IF e > GetStartIndex(u)
        THEN [u EXCEPT !.mysize = @ + addOnes, !.right = update[u.right][e - u.addPos]]
        ELSE [u EXCEPT !.mysize = @ + addOnes]]
  IN  update[t][elem]

(* insert: a block whose position is taken already is not inserted.        *)
InsertNew(t, id, elem, numOnes, len) ==
  LET insert[u \in Trees] == [e \in Int |->
        IF u = Nil THEN NewNode(id, e, NoPtr, numOnes, len)
        ELSE Rebalance(IF e < GetStartIndex(u)
                       THEN [u EXCEPT !.left = insert[@][e - u.addPos]]
                       ELSE [u EXCEPT !.right = insert[@][e - u.addPos]])]
  IN  insert[t][elem]

Taken(t, elem) ==
  LET taken[u \in Trees] == [e \in Int |->
        IF u = Nil THEN FALSE
        ELSE IF e < GetStartIndex(u) THEN taken[u.left][e - u.addPos]
        ELSE IF e > GetStartIndex(u) THEN taken[u.right][e - u.addPos]
        ELSE TRUE]
  IN  taken[t][elem]

Insert(t, id, elem, numOnes, len) ==
  IF Taken(t, elem) THEN t ELSE InsertNew(t, id, elem, numOnes, len)

(* The leftmost node of a subtree and its position with the shifts of the  *)
(* nodes above it in that subtree (add2).                                  *)
Leftmost(t, add2) ==
  LET leftmost[u \in Trees] == [a \in Int |->
        IF u = Nil THEN [node |-> Nil, add2 |-> a]
        ELSE IF u.left = Nil THEN [node |-> PropagateAddPos(u), add2 |-> a]
        ELSE leftmost[u.left][a + u.addPos]]
  IN  leftmost[t][add2]

(* The subtree without its leftmost node, rebalanced along path2.          *)
WithoutLeftmost(t) ==
  LET without[u \in Trees] ==
        IF u = Nil THEN Nil
        ELSE IF u.left = Nil THEN PropagateAddPos(u).right
        ELSE Rebalance([u EXCEPT !.left = without[@]])
  IN  without[t]

(* Mutants: the ones, or the length, stay those of the deleted block.      *)
SetToNodeKeepsOnes(t, node2, val) ==
  [t EXCEPT !.elem = node2.elem + val, !.ptr = node2.ptr, !.len = node2.len,
            !.addPos = node2.addPos]
SetToNodeKeepsLen(t, node2, val) ==
  [t EXCEPT !.elem = node2.elem + val, !.numOnes = node2.numOnes, !.ptr = node2.ptr,
            !.addPos = node2.addPos]

(* setToNode: all the values but mysize and height, and not the identity.  *)
SetToNode(t, node2, val) ==
  [t EXCEPT !.elem = node2.elem + val, !.numOnes = node2.numOnes, !.ptr = node2.ptr,
            !.len = node2.len, !.addPos = node2.addPos]

(* The node n gone: replaced by its child, or by its successor node2. The  *)
(* height of n is recomputed only if that is its child (line 116), and n   *)
(* itself is never rebalanced.                                             *)
DeleteNode(node) ==
  LET n == PropagateAddPos(node)
  IN  IF n.left = Nil THEN n.right
      ELSE IF n.right = Nil THEN n.left
      ELSE LET min  == Leftmost(n.right, 0)
               rest == WithoutLeftmost(n.right)
           IN  [SetToNode(n, min.node, min.add2) EXCEPT
                  !.right = rest,
                  !.height = IF n.right.left = Nil
                             THEN 1 + Greater(Height(n.left), Height(rest)) ELSE @]

DeleteFrom(t, elem) ==
  LET delete[u \in Trees] == [e \in Int |->
        IF u = Nil THEN Nil
        ELSE IF e < GetStartIndex(u)
        THEN Rebalance([u EXCEPT !.left = delete[@][e - u.addPos]])
        ELSE IF e < GetStartIndex(u) + u.len * CHAR_BIT THEN DeleteNode(u)
        ELSE Rebalance([u EXCEPT !.right = delete[@][e - u.addPos]])]
  IN  delete[t][elem]

(* deleteElem: the node whose block holds bit elem.                        *)
DeleteElem(t, elem) == IF Find(t, elem).node = Nil THEN t ELSE DeleteFrom(t, elem)

(* rank: the ones in the blocks before the one that holds bit elem, that   *)
(* block (Nil if the whole block counts), and the place of elem in it.     *)
Rank(t, elem) ==
  LET rank[u \in Trees] == [e \in Int |->
        LET num == e - GetStartIndex(u)
        IN  IF u = Nil THEN [elements |-> 0, node |-> Nil, num |-> 0]
            ELSE IF e < GetStartIndex(u) THEN rank[u.left][e - u.addPos]
            ELSE IF num >= u.len * CHAR_BIT - 1
            THEN [rank[u.right][e - u.addPos] EXCEPT
                    !.elements = @ + MySize(u) - MySize(u.right)]
            ELSE [elements |-> MySize(u.left), node |-> u, num |-> num]]
  IN  rank[t][elem]

(* select: the block with the size-th one, how many ones to count in it,   *)
(* and its position as getStartIndex gives it.                             *)
SelectFrom(t, size) ==
  LET select[u \in Trees] == [k \in Int |->
        LET val   == MySize(u.left)
            count == MySize(u) - MySize(u.left) - MySize(u.right)
        IN  IF u = Nil THEN [ones |-> -1, node |-> Nil, start |-> 0]
            ELSE IF k <= val THEN select[u.left][k]
            ELSE IF k <= val + count
            THEN [ones |-> k - val, node |-> u, start |-> GetStartIndex(u)]
            ELSE select[u.right][k - (val + count)]]
  IN  select[t][size]

Select(t, size) == SelectFrom(t, size + 1)
-----------------------------------------------------------------------------
(* node->len = len and node->ptr = ptr, through a pointer to the node.     *)
SetLen(t, id, len) ==
  LET set[u \in Trees] ==
        IF u = Nil THEN Nil
        ELSE IF u.id = id THEN [u EXCEPT !.len = len]
        ELSE [u EXCEPT !.left = set[@], !.right = set[@]]
  IN  set[t]

SetPtr(t, id, ptr) ==
  LET set[u \in Trees] ==
        IF u = Nil THEN Nil
        ELSE IF u.id = id THEN [u EXCEPT !.ptr = ptr]
        ELSE [u EXCEPT !.left = set[@], !.right = set[@]]
  IN  set[t]

(* The blocks from left to right, with the positions getStartIndex gives   *)
(* once the shifts of the nodes above are added.                           *)
BlockOf(t, add) ==
  [id |-> t.id, ptr |-> t.ptr, len |-> t.len, ones |-> t.numOnes, start |-> add + GetStartIndex(t)]

InOrderFrom(t, add) ==
  LET inOrder[u \in Trees] == [a \in Int |->
        IF u = Nil THEN <<>>
        ELSE inOrder[u.left][a + u.addPos] \o <<BlockOf(u, a)>>
             \o inOrder[u.right][a + u.addPos]]
  IN  inOrder[t][add]

InOrder(t) == InOrderFrom(t, 0)

(* Bounds the pending shifts. A node under which blocks come and go while  *)
(* its left neighbour grows and shrinks can gather any addPos, with an     *)
(* elem that makes up for it.                                              *)
ShiftsBounded(t, max) ==
  LET bounded[u \in Trees] ==
        u # Nil => u.addPos \in -max .. max /\ bounded[u.left] /\ bounded[u.right]
  IN  bounded[t]
=============================================================================
