-------------------------- MODULE AdvancedAVLTree --------------------------
(***************************************************************************)
(* src/memorymanager/avl/AdvancedAVLTree.cpp and .h: the tree of           *)
(* AdvancedSetBitVector. A node holds the 32-bit word that starts at bit   *)
(* elem; here data is the set of places at which that word has a one.       *)
(***************************************************************************)
EXTENDS AVLTree, FiniteSets

CONSTANT IntBit             \* bits of a word: 32 in the code

ASSUME IntBitAssumption == IntBit \in Nat \ {0}

GetOnes(data) == Cardinality(data)
GetOnes2(data, num) == Cardinality({k \in data : k <= num})

InsertWord(t, elem, data) == Insert(t, elem, [NoItem EXCEPT !.data = data], GetOnes(data))

FindBit(t, elem) ==
  LET find[u \in Trees] ==
        u # Nil /\ \/ elem < u.elem /\ find[u.left]
                   \/ elem \in u.elem .. u.elem + IntBit - 1 /\ elem - u.elem \in u.item.data
                   \/ elem > u.elem + IntBit - 1 /\ find[u.right]
  IN  find[t]

RankBits(t, elem) ==
  LET rank[u \in Trees] ==
        IF u = Nil THEN 0
        ELSE IF elem < u.elem THEN rank[u.left]
        ELSE GetOnes2(u.item.data, elem - u.elem) + MySize(u.left) + rank[u.right]
  IN  rank[t]

(* The place of the num-th one.                                            *)
GetXOnePos(data, num) == CHOOSE k \in data : GetOnes2(data, k) = num

SelectBitsFrom(t, size) ==
  LET select[u \in Trees] ==
        [s \in Int |->
           LET val   == MySize(u.left)
               count == GetOnes(u.item.data)
           IN  IF u = Nil THEN -1
               ELSE IF s <= val THEN select[u.left][s]
               ELSE IF s <= val + count THEN u.elem + GetXOnePos(u.item.data, s - val)
               ELSE select[u.right][s - (val + count)]]
  IN  select[t][size]

SelectBits(t, size) == SelectBitsFrom(t, size + 1)

SetData(t, data) == [t EXCEPT !.item.data = data, !.ones = GetOnes(data)]

(* Mutant: the last bit of a word is looked for on the right of the word.  *)
ModifyBitShort(t, elem, val) ==
  LET modify[u \in Trees] ==
        IF u = Nil THEN Nil
        ELSE WithMySize(
               IF elem < u.elem THEN [u EXCEPT !.left = modify[@]]
               ELSE IF elem < u.elem + IntBit - 1
               THEN SetData(u, IF val = 1 THEN u.item.data \cup {elem - u.elem}
                               ELSE u.item.data \ {elem - u.elem})
               ELSE [u EXCEPT !.right = modify[@]])
  IN  modify[t]

(* modify: set or clear the bit, and sum up mysize again on the way back.  *)
ModifyBit(t, elem, val) ==
  LET modify[u \in Trees] ==
        IF u = Nil THEN Nil
        ELSE WithMySize(
               IF elem < u.elem THEN [u EXCEPT !.left = modify[@]]
               ELSE IF elem <= u.elem + IntBit - 1
               THEN SetData(u, IF val = 1 THEN u.item.data \cup {elem - u.elem}
                               ELSE u.item.data \ {elem - u.elem})
               ELSE [u EXCEPT !.right = modify[@]])
  IN  modify[t]
=============================================================================
