---------------------------- MODULE BlockIndex ----------------------------
(***************************************************************************)
(* The AVL tree as FlexibleBitVector drives it: each action is the series  *)
(* of tree calls of one operation, with the lengths and positions the bit  *)
(* vector computes. The words themselves, and so the numbers of ones the   *)
(* bit vector gives its blocks, are its business: here any number in Ones, *)
(* below 0 even, for the bit vector can lose count (FlexibleBitVector).    *)
(***************************************************************************)
EXTENDS FlexibleAVLTree

CONSTANTS Lens,             \* lengths in bytes a block can have
          Ones,             \* numbers of ones a block can be given
          MaxBlocks,        \* bound: blocks at the same time
          MaxShift          \* bound: the pending shift of a node, in bits

ASSUME LensAssumption == \A l \in Lens : l \in Nat /\ l > 0 /\ l % 4 = 0
ASSUME OnesAssumption == Ones \subseteq Int
ASSUME BlocksAssumption == MaxBlocks \in Nat /\ MaxHeight >= MaxBlocks

VARIABLE tree

WORD == 4                   \* sizeof(uint32_t)

Blocks == InOrder(tree)
Total == LET bs == Blocks
         IN  IF bs = <<>> THEN 0 ELSE bs[Len(bs)].start + CHAR_BIT * bs[Len(bs)].len

(* The block behind b, as find returns it for the bit behind b.            *)
After(b) == Find(tree, b.start + CHAR_BIT * b.node.len)

(* node->len = len, for the node whose block is at bit position elem.      *)
SetLenAt(t, elem, len) ==
  LET set[u \in Trees] == [e \in Int |->
        IF u = Nil THEN Nil
        ELSE IF e < GetStartIndex(u) THEN [u EXCEPT !.left = set[@][e - u.addPos]]
        ELSE IF e < GetStartIndex(u) + u.len * CHAR_BIT THEN [u EXCEPT !.len = len]
        ELSE [u EXCEPT !.right = set[@][e - u.addPos]]]
  IN  set[t][elem]
-----------------------------------------------------------------------------
Init == tree = Nil

(* addBlock: a block behind all the others.                                *)
AddBlock(len, ones) ==
  /\ Len(Blocks) < MaxBlocks
  /\ tree' = Insert(tree, 0, Total, ones, len)

(* insertUint32_t without a split and deleteUint32_tSimple: the length of  *)
(* the node first, then its ones and the positions behind it.              *)
Resize(b, len, ones) ==
  tree' = UpdatePath2(SetLenAt(tree, b.start, len), b.start, ones - b.node.numOnes,
                      CHAR_BIT * (len - b.node.len))

(* modify: the length stays, the ones change.                              *)
Modify(b, ones) == tree' = UpdatePath2(tree, b.start, ones - b.node.numOnes, 0)

(* insertUint32_t with a split: the node keeps the first half.             *)
Split(b, ones1, ones2) ==
  LET len  == b.node.len + WORD
      half == len \div 2
  IN  /\ Len(Blocks) < MaxBlocks
      /\ half \in Lens /\ half % WORD = 0
      /\ tree' = Insert(UpdatePath2(SetLenAt(tree, b.start, half), b.start,
                                    ones1 - b.node.numOnes, CHAR_BIT * WORD),
                        0, b.start + CHAR_BIT * half, ones2, len - half)

(* deleteUint32_t: the right one of two neighbours taken out. The blocks   *)
(* behind it have moved down by then while it still has its full length,   *)
(* so that deleteElem may meet the next block first if it has one word     *)
(* only; the bit vector keeps its blocks longer (see FlexibleBitVector).   *)
WithoutRight(r) ==
  DeleteElem(UpdatePath2(tree, r.start, -r.node.numOnes, -(CHAR_BIT * WORD)), r.start)

(* Both neighbours fit into the left one.                                  *)
Merge(l, r, ones) ==
  LET len == l.node.len + r.node.len - WORD
  IN  /\ r.node.len > WORD
      /\ len \in Lens
      /\ tree' = UpdatePath2(SetLenAt(WithoutRight(r), l.start, len), l.start,
                             ones - l.node.numOnes, 0)

(* They do not, and each gets half of the words.                           *)
Redistribute(l, r, ones1, ones2) ==
  LET len  == l.node.len + r.node.len - WORD
      len1 == ((len \div 2) \div WORD) * WORD
  IN  /\ r.node.len > WORD
      /\ len1 \in Lens /\ len - len1 \in Lens
      /\ tree' = Insert(UpdatePath2(SetLenAt(WithoutRight(r), l.start, len1), l.start,
                                    ones1 - l.node.numOnes, 0),
                        0, l.start + CHAR_BIT * len1, ones2, len - len1)

Operation ==
  \/ \E len \in Lens, ones \in Ones : AddBlock(len, ones)
  \/ LET bs == Blocks IN \E i \in 1 .. Len(bs) : LET b == Find(tree, bs[i].start) IN
       \/ \E ones \in Ones : Modify(b, ones)
       \/ \E ones \in Ones, len \in {b.node.len - WORD, b.node.len + WORD} \cap Lens :
            Resize(b, len, ones)
       \/ \E ones1, ones2 \in Ones : Split(b, ones1, ones2)
       \/ /\ i < Len(bs)
          /\ \E ones1, ones2 \in Ones : \/ Merge(b, After(b), ones1)
                                        \/ Redistribute(b, After(b), ones1, ones2)

Next == Operation /\ ShiftsBounded(tree', MaxShift)

Spec == Init /\ [][Next]_tree
-----------------------------------------------------------------------------
SumTo(bs, i) ==
  LET sum[k \in 0 .. Len(bs)] == IF k = 0 THEN 0 ELSE sum[k - 1] + bs[k].ones
  IN  sum[i]

(* Each block starts where the one before it ends, whatever shifts are     *)
(* still pending above it: the elem fields, the addPos fields and the      *)
(* lengths agree (addIndexRight, propagateAddPos, setToNode).              *)
Contiguous ==
  LET bs == Blocks
  IN  \A i \in 1 .. Len(bs) :
        bs[i].start = IF i = 1 THEN 0 ELSE bs[i - 1].start + CHAR_BIT * bs[i - 1].len

(* find returns, for every bit, the block that holds it and that block's   *)
(* position, and nothing for the bit behind the last.                      *)
FindsEveryBit ==
  LET bs == Blocks
  IN  /\ \A i \in 1 .. Len(bs) : \A d \in 0 .. CHAR_BIT * bs[i].len - 1 :
             LET f == Find(tree, bs[i].start + d)
             IN  /\ f.node # Nil
                 /\ f.start = bs[i].start
                 /\ f.node.len = bs[i].len /\ f.node.numOnes = bs[i].ones
      /\ Find(tree, Total).node = Nil

(* rank counts the ones of all the blocks before the bit, and gives the    *)
(* block in which to count the rest; a bit that is the last of its block   *)
(* needs no block. So the mysize fields that updatePath2, setToNode and    *)
(* the rotations keep must sum up at every node rank passes.               *)
RankCounts ==
  LET bs == Blocks
  IN  \A i \in 1 .. Len(bs) :
        /\ \A d \in {0, CHAR_BIT * bs[i].len - 2} :
             LET r == Rank(tree, bs[i].start + d)
             IN  /\ r.elements = SumTo(bs, i - 1)
                 /\ r.node # Nil /\ r.node.len = bs[i].len /\ r.num = d
        /\ LET r == Rank(tree, bs[i].start + CHAR_BIT * bs[i].len - 1)
           IN  r.node = Nil /\ r.elements = SumTo(bs, i)

(* The tree implements the sequence of blocks: what a series of tree calls *)
(* does to one block leaves all the others as they were.                   *)
LensAndOnes(t) ==
  LET inOrder[u \in Trees] ==
        IF u = Nil THEN <<>>
        ELSE inOrder[u.left] \o <<[len |-> u.len, ones |-> u.numOnes]>> \o inOrder[u.right]
  IN  inOrder[t]

Sequence == INSTANCE BlockSequence WITH Word <- WORD, blocks <- LensAndOnes(tree)
ImplementsSequence == Sequence!Spec
-----------------------------------------------------------------------------
(* What a comment says of the tree and the code does not do: select knows  *)
(* "at what position is the ith bit set" (FlexibleBitVector.cc:505), so    *)
(* the block it returns starts where it says.                              *)
SelectPosition ==
  LET bs == Blocks
  IN  \A i \in 1 .. Len(bs) : bs[i].ones > 0 =>
        Select(tree, SumTo(bs, i - 1)).start = bs[i].start
=============================================================================
