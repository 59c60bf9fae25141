------------------------- MODULE FlexibleBitVector -------------------------
(***************************************************************************)
(* src/memorymanager/datastructures/FlexibleBitVector.cc: bit vectors that *)
(* keep their words in blocks of chunkSize / 2 to 2 * chunkSize bytes, in  *)
(* the order of an AVL tree (FlexibleAVLTree), and reach them through one  *)
(* cache (FlexibleCache, shared by MemoryProvider.cc).                     *)
(*                                                                         *)
(* A word stands for a 32-bit word whose ones, Count(w) of them, are its   *)
(* lowest bits. s holds the slots of the cache and the trees; every        *)
(* operation is a function on s with the calls of the code in their order. *)
(***************************************************************************)
EXTENDS FlexibleCache

CONSTANTS Vector,           \* the bit vectors that share the cache
          Word,             \* the words a client stores
          Data,             \* the sequences of them that it inserts
          Count(_),         \* Helper::countInt
          JunkOnes,         \* ones that may lie in the buffer behind a block
          ChunkSize,        \* bytes in the block of addBlock
          Miscounts,        \* the kinds of miscounting operations SpecOnes has
          MaxWords,         \* bound: words in all the vectors
          MaxShift          \* bound: the pending shift of a node, in bits

ASSUME CountAssumption == \A w \in Word : Count(w) \in 0 .. INT_BIT
ASSUME HeightSuffices == MaxHeight >= MaxWords
ASSUME DataAssumption == Data \subseteq Seq(Word) \ {<<>>}
ASSUME ChunkSizeAssumption == ChunkSize \in Nat \ {0} /\ ChunkSize % WORD = 0
ASSUME MiscountsAssumption == Miscounts \subseteq {"block", "append", "split", "merge"}

VARIABLES s,                \* the slots of the cache and the trees
          bitElementCounter

vars == <<s, bitElementCounter>>

LOCAL Seqs == INSTANCE SequencesExt

(* The first n and the other words of a buffer.                            *)
First(words, n) == SubSeq(words, 1, IF n < Len(words) THEN n ELSE Len(words))
Rest(words, n) == SubSeq(words, n + 1, Len(words))

RECURSIVE OnesIn(_)
OnesIn(words) == IF words = <<>> THEN 0 ELSE Count(Head(words)) + OnesIn(Tail(words))

(* A pointer no node of a tree has.                                        *)
NewId(st) ==
  LET used == UNION {{b.id : b \in Seqs!ToSet(InOrder(st.trees[v]))} : v \in Vector}
  IN  CHOOSE id \in 1 .. Cardinality(used) + 1 : id \notin used

InsertNode(st, v, id, elem, numOnes, len) ==
  [st EXCEPT !.trees[v] = Insert(@, id, elem, numOnes, len)]

Update(st, v, elem, addOnes, addPlus) ==
  [st EXCEPT !.trees[v] = UpdatePath2(@, elem, addOnes, addPlus)]

RECURSIVE NodeOf(_, _)
NodeOf(t, id) ==
  IF t = Nil THEN Nil
  ELSE IF t.id = id THEN t
  ELSE IF NodeOf(t.left, id) # Nil THEN NodeOf(t.left, id) ELSE NodeOf(t.right, id)

(* The block with bit pos: from a slot that claims it, or from the tree.   *)
Lookup(v, pos) ==
  LET claims == {n \in DOMAIN s.slots : Claims(s, n, pos, v)}
  IN  IF claims = {} THEN Find(s.trees[v], pos)
      ELSE LET n == CHOOSE n \in claims : \A m \in claims : n <= m
           IN  [node |-> NodeOf(s.trees[v], s.slots[n].node), start |-> s.slots[n].start]

(* The place of bit pos in the words of a block. The division of the code  *)
(* truncates: a start of -1 counts as 0.                                   *)
WordIndex(pos, start) == IF start < 0 THEN pos \div INT_BIT ELSE (pos - start) \div INT_BIT

BufferOf(st, id) == st.slots[SlotOf(st.slots, id)].words

(* The words of vector v: of each block the cached ones, if it is cached.  *)
BlockWords(b) == IF InCache(s.slots, b.id) THEN BufferOf(s, b.id) ELSE b.ptr
RECURSIVE Concat(_)
Concat(bs) == IF bs = <<>> THEN <<>> ELSE BlockWords(Head(bs)) \o Concat(Tail(bs))
Words(v) == Concat(InOrder(s.trees[v]))
Size(v) == Len(Words(v))
AllWords == Cardinality(UNION {{v} \X (1 .. Size(v)) : v \in Vector})
-----------------------------------------------------------------------------
Init == /\ \E n \in CacheSizes : s = [slots |-> NoSlots(n), trees |-> [v \in Vector |-> Nil]]
        /\ bitElementCounter = [v \in Vector |-> 0]

Becomes(st, v, addBits) ==
  /\ s' = st
  /\ bitElementCounter' = [bitElementCounter EXCEPT ![v] = @ + addBits]

AddBlock(v, words) ==
  LET id == NewId(s)
      st == InsertNode(s, v, id, bitElementCounter[v], OnesIn(words), ChunkSize)
  IN  /\ AllWords + Len(words) <= MaxWords
      /\ Becomes(Push(st, words, id, bitElementCounter[v], v), v, CHAR_BIT * ChunkSize)

(* What insertBlock takes for the ones of its data: line 322 keeps those   *)
(* of the last word only.                                                  *)
AddNum(data) == Count(data[Len(data)])

(* insertBlock into an empty vector; insertUint32_t is it for one word.    *)
InsertFirst(v, data) ==
  LET id == NewId(s)
  IN  /\ bitElementCounter[v] = 0 /\ AllWords + Len(data) <= MaxWords
      /\ Becomes(Push(InsertNode(s, v, id, 0, AddNum(data), WORD * Len(data)), data, id, 0, v),
                 v, INT_BIT * Len(data))

(* insertBlock at pos, where the vector is not empty: get the block, put   *)
(* the words in, and give the second half of a block that has become too   *)
(* long to a new node. The ones of the first half are counted from the     *)
(* new words on (line 410), past the end of the block if need be.          *)
(*                                                                         *)
(* Left out are insertions that make a block of an odd number of words too *)
(* long: line 401 then cuts a word in half. Single words never do, nor do  *)
(* the experiments with blocks of 256 words and edges of three.            *)
InsertInto(v, pos, data, junk) ==
  LET bit    == pos * INT_BIT
      last   == bit = bitElementCounter[v]
      res    == Lookup(v, IF last THEN bit - INT_BIT ELSE bit)
      node   == res.node
      add    == INT_BIT * Len(data)
      st     == Get(UpdateStartPos(s, bit, add, v), node, res.start, v)
      index  == WordIndex(bit, res.start)
      buffer == LET old == BufferOf(st, node.id)
                IN  First(old, index) \o data \o Rest(old, index)
      len    == node.len + WORD * Len(data)
      half   == len \div 2
      id     == NewId(s)
      start  == res.start + CHAR_BIT * half
      grown  == SetLenIn(SetWords(st, node.id, buffer), v, node.id, len)
      first  == OnesIn(First(Rest(buffer, index), half \div WORD))
                + IF half \div WORD > Len(buffer) - index THEN junk ELSE 0
      cut    == Update(SetLenIn(SetWords(st, node.id, First(buffer, half \div WORD)),
                                v, node.id, half),
                       v, res.start, first - node.numOnes, add)
  IN  /\ AllWords + Len(data) <= MaxWords
      /\ node # Nil
      /\ len < 2 * ChunkSize \/ half % WORD = 0
      /\ Becomes(IF len < 2 * ChunkSize
                 THEN IF last THEN grown ELSE Update(grown, v, res.start, AddNum(data), add)
                 ELSE Push(InsertNode(cut, v, id, start, node.numOnes + AddNum(data) - first,
                                      len - half),
                           Rest(buffer, half \div WORD), id, start, v),
                 v, add)

Without(words, index) == First(words, index) \o Rest(words, index + 1)

(* deleteUint32_tSimple                                                    *)
DeleteSimple(st0, v, bit, res) ==
  LET st     == Get(st0, res.node, res.start, v)
      index  == WordIndex(bit, res.start)
      buffer == BufferOf(st, res.node.id)
  IN  Update(SetLenIn(SetWords(st, res.node.id, Without(buffer, index)),
                      v, res.node.id, res.node.len - WORD),
             v, res.start, -Count(buffer[index + 1]), -INT_BIT)

(* The two blocks a deletion in a short block works on: the block behind   *)
(* it, or else the block before it (Nil if it is the only one).            *)
Partners(t, bit, res) ==
  LET behind == Find(t, bit + CHAR_BIT * res.node.len)
  IN  IF behind.node # Nil THEN [left |-> res, right |-> behind]
      ELSE [left |-> Find(t, res.start - 1), right |-> res]

(* The length of two blocks without a word, and whether it is one block's. *)
MergedLen(left, right) == left.len + right.len - WORD
FitsInOne(left, right) == MergedLen(left, right) <= ChunkSize + ChunkSize \div 2

(* The end of deleteUint32_t: the right block goes, and its words are all  *)
(* put into the left one or shared with a new block behind it. The ones of *)
(* the right block are set to 0 in its node (line 252) before they are     *)
(* read for the left one (line 255).                                       *)
DeleteMerging(st0, v, bit, res, left, right) ==
  LET st1     == Get(st0, left.node, left.start, v)
      rnode   == NodeOf(st1.trees[v], right.node.id)
      both    == BufferOf(st1, left.node.id) \o LoadIntoBuffer(st1, rnode)
      index   == WordIndex(bit, left.start)
      words   == Without(both, index)
      deleted == Count(both[index + 1])
      len     == MergedLen(left.node, right.node)
      sum     == left.node.numOnes + right.node.numOnes - deleted
      cut     == Update(st1, v, right.start, -right.node.numOnes, -INT_BIT)
      rones   == NodeOf(cut.trees[v], right.node.id).numOnes
      st2     == DeleteElemIn(cut, v, right.start)
      len1    == ((len \div 2) \div WORD) * WORD
      first   == First(words, len1 \div WORD)
      id      == NewId(st2)
      start   == left.start + CHAR_BIT * len1
  IN  IF FitsInOne(left.node, right.node)
      THEN Update(SetLenIn(SetWords(st2, left.node.id, words), v, left.node.id, len),
                  v, left.start, rones - deleted, 0)
      ELSE Push(InsertNode(
                  Update(SetLenIn(SetWords(st2, left.node.id, first), v, left.node.id, len1),
                         v, left.start, OnesIn(first) - left.node.numOnes, 0),
                  v, id, start, sum - OnesIn(first), len - len1),
                Rest(words, len1 \div WORD), id, start, v)

(* Mutant: blocks are merged as soon as they are shorter than a chunk.     *)
IsShortChunk(node) == node.len - WORD <= ChunkSize

IsShort(node) == node.len - WORD <= ChunkSize \div 2

Delete(v, pos) ==
  LET bit == pos * INT_BIT
      res == Lookup(v, bit)
      st  == UpdateStartPos(s, bit, -INT_BIT, v)
      p   == Partners(s.trees[v], bit, res)
  IN  /\ res.node # Nil
      /\ IF ~IsShort(res.node) THEN Becomes(DeleteSimple(st, v, bit, res), v, -INT_BIT)
         ELSE /\ p.left.node # Nil
              /\ Becomes(DeleteMerging(st, v, bit, res, p.left, p.right), v, -INT_BIT)

(* deleteUint32_t in the only block, once it is short: the return of line  *)
(* 209 leaves bitElementCounter as it is.                                  *)
DeleteInOnly(v, pos) ==
  LET bit == pos * INT_BIT
      res == Lookup(v, bit)
  IN  /\ res.node # Nil /\ IsShort(res.node)
      /\ Partners(s.trees[v], bit, res).left.node = Nil
      /\ Becomes(DeleteSimple(UpdateStartPos(s, bit, -INT_BIT, v), v, bit, res), v, 0)

(* modifyUint32_t; modify with a lookup in the tree.                       *)
ModifyIn(v, pos, w, res) ==
  LET st    == Get(s, res.node, res.start, v)
      index == WordIndex(pos * INT_BIT, res.start)
      old   == BufferOf(st, res.node.id)
  IN  /\ res.node # Nil
      /\ Becomes(Update(SetWords(st, res.node.id, [old EXCEPT ![index + 1] = w]),
                        v, res.start, Count(w) - Count(old[index + 1]), 0), v, 0)

ModifyUint32(v, pos, w) == ModifyIn(v, pos, w, Lookup(v, pos * INT_BIT))
Modify(v, pos, w) == ModifyIn(v, pos, w, Find(s.trees[v], pos * INT_BIT))

(* accessUint32_t and access leave a block in the cache that was not there.*)
AccessUint32(v, pos) ==
  LET res == Lookup(v, pos * INT_BIT)
  IN  res.node # Nil /\ Becomes(Get(s, res.node, res.start, v), v, 0)

(* rank and select, too, but with -1 for the position of the block.        *)
RankOrSelect(v, node) == node # Nil /\ Becomes(Get(s, node, -1, v), v, 0)
RankAt(v, pos) == RankOrSelect(v, Rank(s.trees[v], pos * INT_BIT).node)
SelectAt(v, num) == RankOrSelect(v, Select(s.trees[v], num).node)
-----------------------------------------------------------------------------
(* The operations by which the words of the vectors are read and changed,  *)
(* with the words and the data that clients use.                           *)
WordOperation(words, inserted) ==
  \E v \in Vector :
    \/ \E block \in [1 .. ChunkSize \div WORD -> words] : AddBlock(v, block)
    \/ \E data \in inserted : InsertFirst(v, data)
    \/ \E pos \in 0 .. Size(v), data \in inserted, junk \in JunkOnes :
         InsertInto(v, pos, data, junk)
    \/ \E pos \in 0 .. Size(v) - 1 :
         \/ Delete(v, pos)
         \/ AccessUint32(v, pos)
         \/ \E w \in words : ModifyUint32(v, pos, w) \/ Modify(v, pos, w)

Bounded(max) == \A v \in Vector : ShiftsBounded(s.trees[v], max)

NextWords == WordOperation(Word, Data) /\ Bounded(MaxShift)'
SpecWords == Init /\ [][NextWords]_vars

(* With rank and select.                                                   *)
NextReads ==
  /\ \/ WordOperation(Word, Data)
     \/ \E v \in Vector : \E pos \in 0 .. Size(v) - 1 : RankAt(v, pos) \/ SelectAt(v, pos)
  /\ Bounded(MaxShift)'
SpecReads == Init /\ [][NextReads]_vars

(* With deletions in the only block of a vector down to nothing.           *)
NextShrinking ==
  /\ \/ WordOperation(Word, Data)
     \/ \E v \in Vector : \E pos \in 0 .. Size(v) - 1 : DeleteInOnly(v, pos)
  /\ Bounded(MaxShift)'
SpecShrinking == Init /\ [][NextShrinking]_vars

(* The ways in which an operation may lose count of the ones: a block that *)
(* is inserted has ones in words before its last, a word with a one is     *)
(* appended to a block, a block is split at a word that is not its first,  *)
(* or two blocks become one and the right one has ones.                    *)
BlockMiscounts(data) == IF OnesIn(data) # AddNum(data) THEN {"block"} ELSE {}

InsertMiscounts(v, pos, data) ==
  LET bit  == pos * INT_BIT
      last == bit = bitElementCounter[v]
      res  == Lookup(v, IF last THEN bit - INT_BIT ELSE bit)
      long == res.node.len + WORD * Len(data) >= 2 * ChunkSize
  IN  BlockMiscounts(data)
      \cup {kind \in {"append"} : ~long /\ last /\ AddNum(data) # 0}
      \cup {kind \in {"split"} : long /\ bit # res.start}

DeleteMiscounts(v, pos) ==
  LET bit == pos * INT_BIT
      res == Lookup(v, bit)
      p   == Partners(s.trees[v], bit, res)
  IN  {kind \in {"merge"} : /\ IsShort(res.node) /\ p.left.node # Nil
                            /\ FitsInOne(p.left.node, p.right.node)
                            /\ p.right.node.numOnes # 0}

(* The operations by which the ones change, those that lose count of them  *)
(* only as far as Miscounts says.                                          *)
OnesOperation(words, inserted) ==
  \E v \in Vector :
    \/ \E block \in [1 .. ChunkSize \div WORD -> words] : AddBlock(v, block)
    \/ \E data \in inserted : BlockMiscounts(data) \subseteq Miscounts /\ InsertFirst(v, data)
    \/ \E pos \in 0 .. Size(v), data \in inserted :
         /\ Size(v) > 0 /\ InsertMiscounts(v, pos, data) \subseteq Miscounts
         /\ InsertInto(v, pos, data, 0)
    \/ \E pos \in 0 .. Size(v) - 1 :
         \/ DeleteMiscounts(v, pos) \subseteq Miscounts /\ Delete(v, pos)
         \/ \E w \in words : ModifyUint32(v, pos, w)

NextOnes == OnesOperation(Word, Data) /\ Bounded(MaxShift)'
SpecOnes == Init /\ [][NextOnes]_vars
-----------------------------------------------------------------------------
TypeOK ==
  /\ Len(s.slots) \in CacheSizes
  /\ \A n \in DOMAIN s.slots :
       /\ s.slots[n].tree \in Vector \cup {NullNode}
       /\ s.slots[n].words \in Seq(Word)
       /\ s.slots[n].node # NullNode => s.slots[n].start \in Nat
  /\ bitElementCounter \in [Vector -> Nat]

(* The cache and the trees agree: no block has two slots, a slot belongs   *)
(* to a node of the tree it names and knows where that block starts, its   *)
(* words are as many as the node says, and a block without a slot is       *)
(* stored. It takes updateStartPos, magic and deletePointer to keep this   *)
(* while blocks move, are split, merged and deleted.                       *)
CacheAgrees ==
  /\ TypeOK
  /\ \A m, n \in DOMAIN s.slots :
       s.slots[m].node = s.slots[n].node /\ s.slots[m].node # NullNode => m = n
  /\ \A n \in DOMAIN s.slots : s.slots[n].node # NullNode =>
       \E b \in Seqs!ToSet(InOrder(s.trees[s.slots[n].tree])) :
         /\ b.id = s.slots[n].node
         /\ b.start = s.slots[n].start
  /\ \A v \in Vector : \A b \in Seqs!ToSet(InOrder(s.trees[v])) :
       /\ InCache(s.slots, b.id) \/ b.ptr # NoPtr
       /\ b.len = WORD * Len(BlockWords(b))

(* accessUint32_t returns the word the vector has at that place, whichever *)
(* of cache and tree finds the block.                                      *)
AccessRight ==
  \A v \in Vector : LET words == Words(v) IN
    \A pos \in 0 .. Len(words) - 1 :
      LET res   == Lookup(v, pos * INT_BIT)
          index == WordIndex(pos * INT_BIT, res.start)
      IN  /\ res.node # Nil
          /\ index < Len(BlockWords(res.node))
          /\ BlockWords(res.node)[index + 1] = words[pos + 1]

(* getSize returns the number of words.                                    *)
SizeRight == \A v \in Vector : bitElementCounter[v] = INT_BIT * Size(v)

(* A deletion that merges finds the block next to the one it deletes from: *)
(* find (pos + 8 * len) may not skip a block, which the least length of    *)
(* the blocks prevents. And the two fit into a buffer of 3 * chunkSize.    *)
PartnerIsNeighbour ==
  \A v \in Vector : LET bs == InOrder(s.trees[v]) IN
    \A i \in 1 .. Len(bs) : \A k \in 0 .. bs[i].len \div WORD - 1 :
      LET bit == bs[i].start + INT_BIT * k
          res == Find(s.trees[v], bit)
          p   == Partners(s.trees[v], bit, res)
          l   == IF i < Len(bs) THEN i ELSE i - 1
      IN  IsShort(res.node) /\ Len(bs) > 1 =>
            /\ p.left.start = bs[l].start /\ p.right.start = bs[l + 1].start
            /\ bs[l].len + bs[l + 1].len <= 3 * ChunkSize

(* The vectors implement sequences of words: every operation changes one   *)
(* vector in one place, although blocks of all of them are moved, split,   *)
(* merged, cached and evicted on the way.                                  *)
Abstract == INSTANCE WordSequence WITH words <- [v \in Vector |-> Words(v)]
ImplementsWords == Abstract!Spec

(* rank, as the code computes it from mysize and the words of one block.   *)
RankResult(v, pos) ==
  LET r     == Rank(s.trees[v], pos)
      words == BlockWords(r.node)
      k     == r.num \div INT_BIT
      most  == (r.num % INT_BIT) + 1
      ones  == Count(words[k + 1])
  IN  r.elements + IF r.node = Nil THEN 0
                   ELSE OnesIn(First(words, k)) + IF ones < most THEN ones ELSE most

(* rank counts the ones up to the bit, for the first and the last bit of   *)
(* every word: the numOnes and mysize fields agree with the words, whether *)
(* they are cached or stored.                                              *)
RankRight ==
  \A v \in Vector : LET words == Words(v) IN
    \A k \in 0 .. Len(words) - 1 :
      LET before == OnesIn(First(words, k))
          ones   == Count(words[k + 1])
      IN  /\ RankResult(v, k * INT_BIT) = before + IF ones > 0 THEN 1 ELSE 0
          /\ RankResult(v, k * INT_BIT + INT_BIT - 1) = before + ones
=============================================================================
