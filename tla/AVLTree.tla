------------------------------ MODULE AVLTree ------------------------------
(***************************************************************************)
(* src/memorymanager/avl/AVLTree.cpp: the AVL tree of SetBitVector, whose  *)
(* nodes are the places of the ones. AdvancedAVLTree.cpp and               *)
(* BlockAVLTree.cc are copies of it that carry a payload (item) and count  *)
(* its ones (getOnes) where this one counts 1; they share the operators up *)
(* to Insert. A tree is a nested record or Nil, and the walks that record  *)
(* a path and rebalance it backwards are recursive functions on trees.     *)
(***************************************************************************)
EXTENDS Integers

CONSTANT MaxHeight          \* bound: nodes on a path

ASSUME HeightAssumption == MaxHeight \in Nat

Nil == [null |-> TRUE]      \* a record that is no node

(* What the nodes of the copies hold besides: data is the word of an       *)
(* AdvancedAVLTree, ptr and bits the block of a BlockAVLTree.              *)
Item == [data : SUBSET Nat, ptr : Nat, bits : Nat]
NoItem == [data |-> {}, ptr |-> 0, bits |-> 0]

(* The trees with at most n nodes on a path, and those the walks work on.  *)
TreesUpTo[n \in Nat] ==
  IF n = 0 THEN {Nil}
  ELSE LET smaller == TreesUpTo[n - 1]
       IN  {Nil} \cup [elem : Int, item : Item, ones : Int, height : Int, mysize : Int,
                       left : smaller, right : smaller]

Trees == TreesUpTo[MaxHeight]

Greater(a, b) == IF a > b THEN a ELSE b

NewNode(elem, item, ones) ==
  [elem |-> elem, item |-> item, ones |-> ones, height |-> 0, mysize |-> ones,
   left |-> Nil, right |-> Nil]

Height(t) == IF t = Nil THEN -1 ELSE t.height
MySize(t) == IF t = Nil THEN 0 ELSE t.mysize

WithHeight(t) == [t EXCEPT !.height = 1 + Greater(Height(t.left), Height(t.right))]
WithMySize(t) == [t EXCEPT !.mysize = t.ones + MySize(t.left) + MySize(t.right)]
Recompute(t) == WithHeight(WithMySize(t))

(* Mutant: the subtree between the two nodes is left behind.               *)
LeftRotateLoses(k2) ==
  LET k1 == k2.left
  IN  Recompute([k1 EXCEPT !.right = Recompute([k2 EXCEPT !.left = Nil])])

LeftRotate(k2) ==
  LET k1 == k2.left
  IN  Recompute([k1 EXCEPT !.right = Recompute([k2 EXCEPT !.left = k1.right])])

RightRotate(k2) ==
  LET k1 == k2.right
  IN  Recompute([k1 EXCEPT !.left = Recompute([k2 EXCEPT !.right = k1.left])])

(* rebalance, at one node of the path.                                     *)
Rebalance(dad) ==
  LET balance == Height(dad.right) - Height(dad.left)
      l == dad.left
      r == dad.right
  IN  Recompute(
        IF balance < -1
        THEN LeftRotate([dad EXCEPT
               !.left = IF Height(l.right) > Height(l.left) THEN RightRotate(@) ELSE @])
        ELSE IF balance > 1
        THEN RightRotate([dad EXCEPT
               !.right = IF Height(r.left) > Height(r.right) THEN LeftRotate(@) ELSE @])
        ELSE dad)
-----------------------------------------------------------------------------
Find(t, elem) ==
  LET find[u \in Trees] ==
        u # Nil /\ \/ elem = u.elem
                   \/ elem < u.elem /\ find[u.left]
                   \/ elem > u.elem /\ find[u.right]
  IN  find[t]

InsertNew(t, elem, item, ones) ==
  LET insert[u \in Trees] ==
        IF u = Nil THEN NewNode(elem, item, ones)
        ELSE Rebalance(IF elem < u.elem THEN [u EXCEPT !.left = insert[@]]
                       ELSE [u EXCEPT !.right = insert[@]])
  IN  insert[t]

(* insert: a duplicate leaves the tree alone, heights included.            *)
Insert(t, elem, item, ones) ==
  IF Find(t, elem) THEN t ELSE InsertNew(t, elem, item, ones)

Min(t) ==
  LET min[u \in Trees \ {Nil}] == IF u.left = Nil THEN u.elem ELSE min[u.left]
  IN  min[t]

DeleteMin(t) ==
  LET delete[u \in Trees \ {Nil}] ==
        IF u.left = Nil THEN u.right ELSE Rebalance([u EXCEPT !.left = delete[@]])
  IN  delete[t]

(* The node n gone, or with the least element on its right in its place;   *)
(* path holds the nodes above n, so that n itself is not rebalanced.       *)
DeleteNode(n) ==
  IF n.left = Nil THEN n.right
  ELSE IF n.right = Nil THEN n.left
  ELSE Recompute([n EXCEPT !.elem = Min(n.right), !.right = DeleteMin(@)])

DeleteFrom(t, elem) ==
  LET delete[u \in Trees] ==
        IF u = Nil THEN Nil
        ELSE IF elem = u.elem THEN DeleteNode(u)
        ELSE Rebalance(IF elem < u.elem THEN [u EXCEPT !.left = delete[@]]
                       ELSE [u EXCEPT !.right = delete[@]])
  IN  delete[t]

DeleteElem(t, elem) == IF Find(t, elem) THEN DeleteFrom(t, elem) ELSE t

(* The elements up to elem.                                                *)
Rank(t, elem) ==
  LET rank[u \in Trees] ==
        IF u = Nil THEN 0
        ELSE IF elem < u.elem THEN rank[u.left]
        ELSE 1 + MySize(u.left) + rank[u.right]
  IN  rank[t]

(* Mutant: the element passed over is not counted.                         *)
SelectFromSkips(t, size) ==
  LET select[u \in Trees] ==
        [s \in Int |->
           IF u = Nil THEN -1
           ELSE IF s <= MySize(u.left) THEN select[u.left][s]
           ELSE IF s = MySize(u.left) + 1 THEN u.elem
           ELSE select[u.right][s - MySize(u.left)]]
  IN  select[t][size]

SelectFrom(t, size) ==
  LET select[u \in Trees] ==
        [s \in Int |->
           IF u = Nil THEN -1
           ELSE IF s <= MySize(u.left) THEN select[u.left][s]
           ELSE IF s = MySize(u.left) + 1 THEN u.elem
           ELSE select[u.right][s - (MySize(u.left) + 1)]]
  IN  select[t][size]

Select(t, size) == SelectFrom(t, size + 1)
-----------------------------------------------------------------------------
Nodes(t) ==
  LET nodes[u \in Trees] == IF u = Nil THEN {} ELSE {u} \cup nodes[u.left] \cup nodes[u.right]
  IN  nodes[t]

RealHeight(t) ==
  LET height[u \in Trees] ==
        IF u = Nil THEN -1 ELSE 1 + Greater(height[u.left], height[u.right])
  IN  height[t]
=============================================================================
