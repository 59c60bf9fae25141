--------------------------- MODULE Buffers_proofs ---------------------------
(***************************************************************************)
(* The components that keep blocks behind buffers.                         *)
(*                                                                         *)
(* DynamicBitVector: its cache is transparent, and its rank and select are *)
(* right, for any number of buffers, any size of the blocks, any size of   *)
(* the segment tree and any compressor that loses nothing. CacheInv alone  *)
(* is not inductive: the argument needs the types, and that a buffer with  *)
(* a block has been filled. IInv adds both. RankRight and SelectRight      *)
(* follow from TreeInv: a leaf of the segment tree has the ones of its     *)
(* block, another node those of its two children.                          *)
(*                                                                         *)
(* CacheProvider: the list and the map agree, and to its clients it is a   *)
(* least-recently-used cache. MapAgrees is inductive once ListInv adds the *)
(* types and that no two elements have one buffer; the cache needs EInv as *)
(* well, that the elements with a pointer are the first of the list.       *)
(*                                                                         *)
(* CompressedArray: what Simple9Compressor packs it restores, for blocks   *)
(* of any length. IsRound says what its loop has done after k words, and   *)
(* holds after every round by induction.                                   *)
(***************************************************************************)
EXTENDS DynamicBitVector, CacheProvider, CompressedArray, SetInduction, SequenceTheorems,
        FiniteSetTheorems, TLAPS

StoredBlocks == {Compress(b) : b \in Block} \cup {NULL}

CacheType ==
  /\ ptrArr \in [Slots -> {-1} \cup Indices]
  /\ chArr \in [Slots -> Block \cup {NULL}]
  /\ \A n \in Slots : ptrArr[n] # -1 => chArr[n] \in Block
  /\ ptrList \in Seq(StoredBlocks)

IInv == CacheType /\ CacheInv /\ counter = Len(ptrList)

(* The block array the abstract specification speaks about.                *)
Blocks == [j \in 1 .. Len(ptrList) |-> Content(j - 1)]
-----------------------------------------------------------------------------
(* What get returns a pointer to: the one buffer of the block, if it has   *)
(* one, or else what the memory manager has of it (SimpleCache::get).      *)
LEMMA ContentIs ==
  ASSUME CacheType, CacheInv, NEW i \in Nat
  PROVE  /\ \A n \in Slots : ptrArr[n] = i => Content(i) = chArr[n]
         /\ ~Cached(i) => Content(i) = Decompress(ptrList[i + 1])
<1>1. ASSUME NEW n \in Slots, ptrArr[n] = i
      PROVE  Content(i) = chArr[n]
  <2> DEFINE m == CHOOSE k \in Slots : ptrArr[k] = i
  <2>1. m \in Slots /\ ptrArr[m] = i
    BY <1>1
  <2>2. m = n
    BY <1>1, <2>1 DEF CacheInv
  <2> QED
    BY <1>1, <2>2 DEF Content, Cached
<1> QED
  BY <1>1 DEF Content

(* The same of the next state.                                             *)
LEMMA ContentIsNext ==
  ASSUME CacheInv', NEW i \in Nat
  PROVE  /\ \A n \in Slots : ptrArr'[n] = i => Content(i)' = chArr'[n]
         /\ ~Cached(i)' => Content(i)' = Decompress(ptrList'[i + 1])
<1>1. ASSUME NEW n \in Slots, ptrArr'[n] = i
      PROVE  Content(i)' = chArr'[n]
  <2> DEFINE m == CHOOSE k \in Slots : ptrArr'[k] = i
  <2>1. m \in Slots /\ ptrArr'[m] = i
    BY <1>1
  <2>2. m = n
    BY <1>1, <2>1 DEF CacheInv
  <2> QED
    BY <1>1, <2>2 DEF Content, Cached
<1> QED
  BY <1>1 DEF Content

(* A block of the vector reads as a block.                                 *)
LEMMA ContentType ==
  ASSUME CacheType, CacheInv, NEW i \in Indices
  PROVE  Content(i) \in Block
<1>0. Len(ptrList) \in Nat /\ i \in Nat /\ i + 1 \in 1 .. Len(ptrList)
  BY DEF CacheType, Indices
<1>1. CASE Cached(i)
  <2>1. PICK n \in Slots : ptrArr[n] = i
    BY <1>1 DEF Cached
  <2> QED
    BY <1>0, <2>1, ContentIs DEF CacheType
<1>2. CASE ~Cached(i)
  <2>1. ptrList[i + 1] \in StoredBlocks /\ ptrList[i + 1] # NULL
    BY <1>0, <1>2 DEF CacheType, CacheInv
  <2>2. PICK b \in Block : ptrList[i + 1] = Compress(b)
    BY <2>1 DEF StoredBlocks
  <2> QED
    BY <1>0, <1>2, <2>2, ContentIs, RoundTrip
<1> QED
  BY <1>1, <1>2

(* makeFree moves the buffers in front of the freed one by one place and   *)
(* puts that one first: every other buffer is found again, and is the only *)
(* one that comes to its place.                                            *)
LEMMA MoveStep ==
  ASSUME CacheType, CacheInv, NEW index \in Slots, MakesFree(index),
         NEW j \in Nat, ~Cached(j), NEW b \in Block,
         ptrArr' = Moved(ptrArr, index, j), chArr' = Moved(chArr, index, b)
  PROVE  /\ DOMAIN ptrArr' = Slots /\ chArr' \in [Slots -> Block \cup {NULL}]
         /\ \A n \in Slots : ptrArr'[n] # -1 => chArr'[n] \in Block
         /\ \A n \in Slots : ptrArr'[n] \in {-1, j} \cup {ptrArr[m] : m \in Slots \ {index}}
         /\ \A m, n \in Slots : ptrArr'[m] = ptrArr'[n] /\ ptrArr'[m] # -1 => m = n
         /\ \A m, n \in Slots : ptrArr'[m] = -1 /\ m < n => ptrArr'[n] = -1
         /\ 1 \in Slots /\ ptrArr'[1] = j /\ chArr'[1] = b
         /\ \A m \in Slots \ {index} : \E n \in Slots :
              n # 1 /\ ptrArr'[n] = ptrArr[m] /\ chArr'[n] = chArr[m]
<1> DEFINE From(n) == IF n <= index THEN n - 1 ELSE n
<1>1. N \in Nat \ {0} /\ Slots = 1 .. N /\ index \in 1 .. N
  BY NAssumption DEF Slots
<1>2. /\ 1 \in Slots
      /\ \A n \in Slots \ {1} : From(n) \in Slots \ {index}
      /\ \A m, n \in Slots \ {1} : From(m) = From(n) => m = n
      /\ \A m, n \in Slots \ {1} : m < n => From(m) < From(n)
      /\ \A m \in Slots \ {index} : \E n \in Slots \ {1} : From(n) = m
  <2>1. ASSUME NEW m \in Slots \ {index}
        PROVE  \E n \in Slots \ {1} : From(n) = m
    <3>1. CASE m < index
      <4>1. m + 1 \in Slots \ {1} /\ From(m + 1) = m
        BY <1>1, <3>1
      <4> QED
        BY <4>1
    <3>2. CASE m > index
      <4>1. m \in Slots \ {1} /\ From(m) = m
        BY <1>1, <3>2
      <4> QED
        BY <4>1
    <3> QED
      BY <1>1, <3>1, <3>2
  <2> QED
    BY <1>1, <2>1
<1>3. /\ ptrArr' \in [Slots -> {j} \cup {ptrArr[n] : n \in Slots}]
      /\ ptrArr'[1] = j /\ chArr'[1] = b
      /\ \A n \in Slots \ {1} : ptrArr'[n] = ptrArr[From(n)] /\ chArr'[n] = chArr[From(n)]
  <2>1. /\ ptrArr'[1] = j /\ chArr'[1] = b
        /\ \A n \in Slots \ {1} : ptrArr'[n] = ptrArr[From(n)] /\ chArr'[n] = chArr[From(n)]
    BY <1>2 DEF Moved
  <2>2. DOMAIN ptrArr' = Slots /\ ptrArr' = [n \in Slots |-> ptrArr'[n]]
    BY DEF Moved
  <2>3. \A n \in Slots : ptrArr'[n] \in {j} \cup {ptrArr[m] : m \in Slots}
    BY <1>2, <2>1
  <2> QED
    BY <2>1, <2>2, <2>3
<1>4. chArr' = [n \in Slots |-> chArr'[n]]
  BY DEF Moved
<1>5. \A n \in Slots : chArr'[n] \in Block \cup {NULL} /\ (ptrArr'[n] # -1 => chArr'[n] \in Block)
  BY <1>2, <1>3 DEF CacheType
<1>6. \A n \in Slots : ptrArr'[n] \in {-1, j} \cup {ptrArr[m] : m \in Slots \ {index}}
  BY <1>2, <1>3
<1>7. ASSUME NEW m \in Slots, NEW n \in Slots, ptrArr'[m] = ptrArr'[n], ptrArr'[m] # -1
      PROVE  m = n
  <2>1. \A k \in Slots : ptrArr[k] # j
    BY DEF Cached
  <2>2. CASE m = 1 \/ n = 1
    BY <1>2, <1>3, <1>7, <2>1, <2>2
  <2>3. CASE m # 1 /\ n # 1
    <3>1. From(m) = From(n)
      BY <1>2, <1>3, <1>7, <2>3 DEF CacheInv
    <3> QED
      BY <1>2, <2>3, <3>1
  <2> QED
    BY <2>2, <2>3
<1>8. ASSUME NEW m \in Slots, NEW n \in Slots, ptrArr'[m] = -1, m < n
      PROVE  ptrArr'[n] = -1
  <2>1. m # 1 /\ n # 1
    BY <1>1, <1>3, <1>8
  <2>2. ptrArr[From(m)] = -1 /\ From(m) < From(n)
    BY <1>2, <1>3, <1>8, <2>1
  <2> QED
    BY <1>2, <1>3, <2>1, <2>2 DEF CacheInv
<1>9. ASSUME NEW m \in Slots \ {index}
      PROVE  \E n \in Slots : n # 1 /\ ptrArr'[n] = ptrArr[m] /\ chArr'[n] = chArr[m]
  BY <1>2, <1>3
<1> QED
  BY <1>2, <1>3, <1>4, <1>5, <1>6, <1>7, <1>8, <1>9

(* What a list of stored blocks is once the freed buffer's block is        *)
(* stored: the same but for that block (SimpleCache::store).               *)
LEMMA StoredList ==
  ASSUME CacheType, NEW index \in Slots
  PROVE  /\ Stored(index) \in Seq(StoredBlocks) /\ Len(Stored(index)) = Len(ptrList)
         /\ \A i \in Indices : Stored(index)[i + 1] =
              IF i = ptrArr[index] THEN Compress(chArr[index]) ELSE ptrList[i + 1]
<1>1. Len(ptrList) \in Nat /\ ptrList \in Seq(StoredBlocks)
  BY DEF CacheType
<1>2. CASE ptrArr[index] = -1
  BY <1>1, <1>2 DEF Stored, Indices
<1>3. CASE ptrArr[index] # -1
  <2>1. ptrArr[index] \in Indices /\ Compress(chArr[index]) \in StoredBlocks
    BY <1>3 DEF CacheType, StoredBlocks
  <2>2. ptrArr[index] + 1 \in 1 .. Len(ptrList)
    BY <1>1, <2>1 DEF Indices
  <2>3. Stored(index) = [ptrList EXCEPT ![ptrArr[index] + 1] = Compress(chArr[index])]
    BY <1>3 DEF Stored
  <2> QED
    BY <1>1, <2>1, <2>2, <2>3 DEF Indices
<1> QED
  BY <1>2, <1>3

(* A block that has lost its buffer has been stored.                       *)
LEMMA MoveStores ==
  ASSUME CacheType, CacheInv, NEW index \in Slots, MakesFree(index),
         NEW j \in Nat, ~Cached(j), NEW b \in Block,
         ptrArr' = Moved(ptrArr, index, j), chArr' = Moved(chArr, index, b),
         NEW i \in Indices
  PROVE  Cached(i)' \/ Stored(index)[i + 1] # NULL
<1>0. i # -1
  BY DEF Indices
<1>1. CASE ptrArr[index] = i
  <2>1. chArr[index] \in Block
    BY <1>0, <1>1 DEF CacheType
  <2> QED
    BY <1>1, <2>1, StoredList, RoundTrip
<1>2. CASE ptrArr[index] # i /\ Cached(i)
  <2>1. PICK m \in Slots \ {index} : ptrArr[m] = i
    BY <1>2 DEF Cached
  <2>2. PICK n \in Slots : ptrArr'[n] = i
    BY <2>1, MoveStep
  <2> QED
    BY <2>2 DEF Cached
<1>3. CASE ptrArr[index] # i /\ ~Cached(i)
  BY <1>3, StoredList DEF CacheInv
<1> QED
  BY <1>1, <1>2, <1>3

(* A step that puts block j into the freed buffer changes no other block,  *)
(* wherever their contents are before and after.                           *)
LEMMA MoveKeepsContent ==
  ASSUME CacheType, CacheInv, NEW index \in Slots, MakesFree(index),
         NEW j \in Nat, ~Cached(j), NEW b \in Block,
         ptrArr' = Moved(ptrArr, index, j), chArr' = Moved(chArr, index, b),
         \A i \in Indices : ptrList'[i + 1] = Stored(index)[i + 1],
         CacheInv'
  PROVE  /\ Content(j)' = b
         /\ \A i \in Indices : i # j => Content(i)' = Content(i)
<1>1. Content(j)' = b
  BY MoveStep, ContentIsNext
<1>2. ASSUME NEW i \in Indices, i # j
      PROVE  Content(i)' = Content(i)
  <2>0. i \in Nat /\ i # -1
    BY DEF Indices
  <2>1. CASE \E m \in Slots \ {index} : ptrArr[m] = i
    <3>1. PICK m \in Slots \ {index} : ptrArr[m] = i
      BY <2>1
    <3>2. PICK n \in Slots : ptrArr'[n] = i /\ chArr'[n] = chArr[m]
      BY <3>1, MoveStep
    <3> QED
      BY <2>0, <3>1, <3>2, ContentIs, ContentIsNext
  <2>2. CASE ~\E m \in Slots \ {index} : ptrArr[m] = i
    <3>1. \A n \in Slots : ptrArr'[n] # i
      BY <1>2, <2>0, <2>2, MoveStep
    <3>2. Content(i)' = Decompress(Stored(index)[i + 1])
      BY <2>0, <3>1, ContentIsNext DEF Cached
    <3>3. CASE ptrArr[index] = i
      <4>1. chArr[index] \in Block /\ Content(i) = chArr[index]
        BY <2>0, <3>3, ContentIs DEF CacheType
      <4> QED
        BY <3>2, <3>3, <4>1, StoredList, RoundTrip
    <3>4. CASE ptrArr[index] # i
      <4>1. ~Cached(i)
        BY <2>2, <3>4 DEF Cached
      <4> QED
        BY <2>0, <3>2, <3>4, <4>1, ContentIs, StoredList
    <3> QED
      BY <3>3, <3>4
  <2> QED
    BY <2>1, <2>2
<1> QED
  BY <1>1, <1>2

(* push adds the block behind the others (SimpleCache::push).              *)
LEMMA PushStep ==
  ASSUME CacheType, CacheInv, NEW b \in Block, Push(b)
  PROVE  /\ CacheType' /\ CacheInv'
         /\ Len(ptrList') = Len(ptrList) + 1
         /\ Blocks' = Append(Blocks, b)
<1>0. PICK j \in Nat : j = Len(ptrList)
  BY DEF CacheType
<1>1. PICK index \in Slots :
        /\ MakesFree(index)
        /\ ptrArr' = Moved(ptrArr, index, j) /\ chArr' = Moved(chArr, index, b)
        /\ ptrList' = Append(Stored(index), NULL)
  BY <1>0 DEF Push
<1>2. j = Len(ptrList) /\ j \in Nat /\ ~Cached(j)
  BY <1>0 DEF CacheType, Cached, Indices
<1>3. /\ ptrList' \in Seq(StoredBlocks) /\ Len(ptrList') = j + 1
      /\ Indices' = Indices \cup {j}
      /\ \A i \in Indices : ptrList'[i + 1] = Stored(index)[i + 1]
  <2>1. NULL \in StoredBlocks /\ Stored(index) \in Seq(StoredBlocks) /\ Len(Stored(index)) = j
    BY <1>0, StoredList DEF StoredBlocks
  <2>2. ptrList' \in Seq(StoredBlocks) /\ Len(ptrList') = j + 1
    BY <1>1, <1>2, <2>1
  <2>3. \A i \in Indices : i + 1 \in 1 .. j
    BY <1>2 DEF Indices
  <2>4. \A i \in Indices : ptrList'[i + 1] = Stored(index)[i + 1]
    BY <1>1, <1>2, <2>1, <2>3
  <2> QED
    BY <1>2, <2>2, <2>4 DEF Indices
<1>4. /\ DOMAIN ptrArr' = Slots /\ chArr' \in [Slots -> Block \cup {NULL}]
      /\ \A n \in Slots : ptrArr'[n] # -1 => chArr'[n] \in Block
      /\ \A n \in Slots : ptrArr'[n] \in {-1, j} \cup {ptrArr[m] : m \in Slots \ {index}}
      /\ \A m, n \in Slots : ptrArr'[m] = ptrArr'[n] /\ ptrArr'[m] # -1 => m = n
      /\ \A m, n \in Slots : ptrArr'[m] = -1 /\ m < n => ptrArr'[n] = -1
      /\ 1 \in Slots /\ ptrArr'[1] = j
  BY <1>1, <1>2, MoveStep
<1>5. CacheType'
  <2>1. \A n \in Slots : ptrArr'[n] \in {-1} \cup Indices'
    BY <1>3, <1>4 DEF CacheType
  <2>2. ptrArr' = [n \in Slots |-> ptrArr'[n]]
    BY <1>1 DEF Moved
  <2>3. ptrArr' \in [Slots -> {-1} \cup Indices']
    BY <2>1, <2>2
  <2> QED
    BY <1>3, <1>4, <2>3 DEF CacheType
<1>6. CacheInv'
  <2>1. ASSUME NEW i \in Indices'
        PROVE  Cached(i)' \/ ptrList'[i + 1] # NULL
    <3>1. CASE i = j
      BY <1>4, <3>1 DEF Cached
    <3>2. CASE i \in Indices
      BY <1>1, <1>2, <1>3, <3>2, MoveStores
    <3> QED
      BY <1>3, <2>1, <3>1, <3>2
  <2> QED
    BY <1>4, <2>1 DEF CacheInv
<1>7. Content(j)' = b /\ \A i \in Indices : Content(i)' = Content(i)
  <2>1. \A i \in Indices : i # j
    BY <1>2 DEF Indices
  <2> QED
    BY <1>1, <1>2, <1>3, <1>6, <2>1, MoveKeepsContent
<1>8. Blocks' = Append(Blocks, b)
  <2>1. Blocks' = [k \in 1 .. j + 1 |-> Content(k - 1)']
    BY <1>3 DEF Blocks
  <2>2. \A k \in 1 .. j : k - 1 \in Indices /\ Content(k - 1) \in Block
    BY <1>2, ContentType DEF Indices
  <2>3. Blocks \in Seq(Block) /\ Len(Blocks) = j
    BY <1>2, <2>2 DEF Blocks
  <2>4. \A k \in 1 .. j + 1 : Append(Blocks, b)[k] = IF k = j + 1 THEN b ELSE Content(k - 1)
    BY <1>2, <2>3 DEF Blocks
  <2>5. \A k \in 1 .. j + 1 : Content(k - 1)' = Append(Blocks, b)[k]
    <3>1. ASSUME NEW k \in 1 .. j + 1
          PROVE  Content(k - 1)' = Append(Blocks, b)[k]
      <4>1. CASE k = j + 1
        <5>1. k - 1 = j
          BY <1>2, <4>1
        <5> QED
          BY <1>7, <2>4, <4>1, <5>1
      <4>2. CASE k # j + 1
        <5>1. k \in 1 .. j
          BY <1>2, <4>2
        <5> QED
          BY <1>7, <2>2, <2>4, <4>2, <5>1
      <4> QED
        BY <4>1, <4>2
    <3> QED
      BY <3>1
  <2>6. Append(Blocks, b) \in Seq(Block) /\ Len(Append(Blocks, b)) = j + 1
    BY <1>2, <2>3
  <2>7. Blocks' \in Seq(Block) /\ Len(Blocks') = j + 1
    <3>1. \A k \in 1 .. j + 1 : Content(k - 1)' \in Block
      <4>1. \A k \in 1 .. j + 1 : k = j + 1 \/ k \in 1 .. j
        BY <1>2
      <4> QED
        BY <2>2, <2>4, <2>5, <4>1
    <3>2. j + 1 \in Nat
      BY <1>2
    <3> QED
      BY <2>1, <3>1, <3>2
  <2>8. \A k \in 1 .. Len(Blocks') : Blocks'[k] = Append(Blocks, b)[k]
    BY <2>1, <2>5, <2>7
  <2> QED
    BY <2>6, <2>7, <2>8, SeqEqual
<1> QED
  BY <1>0, <1>3, <1>5, <1>6, <1>8

(* get lets the client change the one block it asked for, whether that has *)
(* a buffer already or gets one for which another is stored                *)
(* (SimpleCache::get and makeFree).                                        *)
LEMMA GetStep ==
  ASSUME CacheType, CacheInv, NEW i \in Indices, NEW b \in Block, Get(i, b)
  PROVE  /\ CacheType' /\ CacheInv'
         /\ Len(ptrList') = Len(ptrList)
         /\ Blocks' = [Blocks EXCEPT ![i + 1] = b]
<1>0. i \in Nat /\ i # -1 /\ Len(ptrList) \in Nat
  BY DEF CacheType, Indices
<1>1. /\ CacheType' /\ CacheInv' /\ Len(ptrList') = Len(ptrList)
      /\ Content(i)' = b
      /\ \A k \in Indices : k # i => Content(k)' = Content(k)
  <2>1. CASE \E n \in Slots : /\ ptrArr[n] = i
                              /\ chArr' = [chArr EXCEPT ![n] = b]
                              /\ UNCHANGED <<ptrArr, ptrList>>
    <3>1. PICK n \in Slots : /\ ptrArr[n] = i
                             /\ chArr' = [chArr EXCEPT ![n] = b]
                             /\ ptrArr' = ptrArr /\ ptrList' = ptrList
      BY <2>1
    <3>2. Indices' = Indices /\ \A k : Cached(k)' <=> Cached(k)
      BY <3>1 DEF Indices, Cached
    <3>3. CacheType'
      BY <3>1, <3>2 DEF CacheType
    <3>4. CacheInv'
      BY <3>1, <3>2 DEF CacheInv
    <3>5. Content(i)' = b
      <4>1. chArr'[n] = b
        BY <3>1 DEF CacheType
      <4> QED
        BY <1>0, <3>1, <3>4, <4>1, ContentIsNext
    <3>6. ASSUME NEW k \in Indices, k # i
          PROVE  Content(k)' = Content(k)
      <4>0. k \in Nat
        BY DEF Indices
      <4>1. CASE Cached(k)
        <5>1. PICK m \in Slots : ptrArr[m] = k
          BY <4>1 DEF Cached
        <5>2. m # n /\ chArr'[m] = chArr[m]
          BY <3>1, <3>6, <5>1 DEF CacheType
        <5> QED
          BY <3>1, <3>4, <4>0, <5>1, <5>2, ContentIs, ContentIsNext
      <4>2. CASE ~Cached(k)
        BY <3>1, <3>2, <3>4, <4>0, <4>2, ContentIs, ContentIsNext
      <4> QED
        BY <4>1, <4>2
    <3> QED
      BY <3>1, <3>3, <3>4, <3>5, <3>6
  <2>2. CASE /\ ~Cached(i)
             /\ \E index \in Slots : /\ MakesFree(index)
                                     /\ ptrArr' = Moved(ptrArr, index, i)
                                     /\ chArr' = Moved(chArr, index, b)
                                     /\ ptrList' = Stored(index)
    <3>1. PICK index \in Slots : /\ MakesFree(index)
                                 /\ ptrArr' = Moved(ptrArr, index, i)
                                 /\ chArr' = Moved(chArr, index, b)
                                 /\ ptrList' = Stored(index)
      BY <2>2
    <3>2. ~Cached(i)
      BY <2>2
    <3>3. ptrList' \in Seq(StoredBlocks) /\ Len(ptrList') = Len(ptrList) /\ Indices' = Indices
      BY <3>1, StoredList DEF Indices
    <3>4. /\ DOMAIN ptrArr' = Slots /\ chArr' \in [Slots -> Block \cup {NULL}]
          /\ \A n \in Slots : ptrArr'[n] # -1 => chArr'[n] \in Block
          /\ \A n \in Slots : ptrArr'[n] \in {-1, i} \cup {ptrArr[m] : m \in Slots \ {index}}
          /\ \A m, n \in Slots : ptrArr'[m] = ptrArr'[n] /\ ptrArr'[m] # -1 => m = n
          /\ \A m, n \in Slots : ptrArr'[m] = -1 /\ m < n => ptrArr'[n] = -1
          /\ 1 \in Slots /\ ptrArr'[1] = i
      BY <1>0, <3>1, <3>2, MoveStep
    <3>5. CacheType'
      <4>1. \A n \in Slots : ptrArr'[n] \in {-1} \cup Indices'
        BY <3>3, <3>4 DEF CacheType
      <4>2. ptrArr' = [n \in Slots |-> ptrArr'[n]]
        BY <3>1 DEF Moved
      <4>3. ptrArr' \in [Slots -> {-1} \cup Indices']
        BY <4>1, <4>2
      <4> QED
        BY <3>3, <3>4, <4>3 DEF CacheType
    <3>6. CacheInv'
      <4>1. ASSUME NEW k \in Indices
            PROVE  Cached(k)' \/ ptrList'[k + 1] # NULL
        BY <1>0, <3>1, <3>2, MoveStores
      <4> QED
        BY <3>3, <3>4, <4>1 DEF CacheInv
    <3>7. Content(i)' = b /\ \A k \in Indices : k # i => Content(k)' = Content(k)
      <4>1. \A k \in Indices : ptrList'[k + 1] = Stored(index)[k + 1]
        BY <3>1
      <4> QED
        BY <1>0, <3>1, <3>2, <3>6, <4>1, MoveKeepsContent
    <3> QED
      BY <3>3, <3>5, <3>6, <3>7
  <2> QED
    BY <2>1, <2>2 DEF Get
<1>2. Blocks' = [Blocks EXCEPT ![i + 1] = b]
  <2>1. Blocks' = [k \in 1 .. Len(ptrList) |-> Content(k - 1)']
    BY <1>1 DEF Blocks
  <2>2. ASSUME NEW k \in 1 .. Len(ptrList)
        PROVE  Content(k - 1)' = IF k = i + 1 THEN b ELSE Content(k - 1)
    <3>1. k - 1 \in Indices /\ (k = i + 1 <=> k - 1 = i)
      BY <1>0 DEF Indices
    <3> QED
      BY <1>1, <3>1
  <2>3. [Blocks EXCEPT ![i + 1] = b]
          = [k \in 1 .. Len(ptrList) |-> IF k = i + 1 THEN b ELSE Content(k - 1)]
    BY DEF Blocks
  <2> QED
    BY <2>1, <2>2, <2>3
<1> QED
  BY <1>1, <1>2
-----------------------------------------------------------------------------
(* What a client makes of a block is a block again (modify,                *)
(* modifyUint32_t).                                                        *)
LEMMA ClientBlocks ==
  ASSUME CacheType, CacheInv, NEW i \in Indices
  PROVE  /\ \A k \in Touched, val \in {0, 1} : [Content(i) EXCEPT ![k] = val] \in Block
         /\ \A j \in 0 .. ChunkInts - 1, val \in Words :
              [k \in Bits |-> IF k \div IntBit = j THEN val[k % IntBit] ELSE Content(i)[k]]
                \in Block
<1>1. Content(i) \in [Bits -> {0, 1}]
  BY ContentType, BlockAssumption
<1>2. \A k \in Bits : k % IntBit \in 0 .. IntBit - 1
  BY SizeAssumption DEF Bits
<1>3. ASSUME NEW j \in 0 .. ChunkInts - 1, NEW val \in Words, NEW k \in Bits
      PROVE  (IF k \div IntBit = j THEN val[k % IntBit] ELSE Content(i)[k]) \in {0, 1}
  BY <1>1, <1>2, ClientAssumption
<1> QED
  BY <1>1, <1>3, BlockAssumption

(* Every operation of the vector is one of the cache: push of a block, or  *)
(* get of one that the vector has.                                         *)
LEMMA StepIsCacheStep ==
  ASSUME IInv, Next
  PROVE  \/ /\ counter' = counter + 1
            /\ \E b \in Block : Push(b)
         \/ /\ counter' = counter
            /\ \E i \in Indices, b \in Block : Get(i, b)
<1> USE DEF IInv
<1>1. ASSUME NEW block \in Added, AddBlock(block)
      PROVE  counter' = counter + 1 /\ \E b \in Block : Push(b)
  BY <1>1, ClientAssumption DEF AddBlock
<1>2. ASSUME NEW i \in Indices, Read(i)
      PROVE  counter' = counter /\ \E b \in Block : Get(i, b)
  BY <1>2, ContentType DEF Read
<1>3. ASSUME NEW i \in Indices, NEW k \in Touched, NEW val \in {0, 1}, Modify(i, k, val)
      PROVE  counter' = counter /\ \E b \in Block : Get(i, b)
  BY <1>3, ClientBlocks DEF Modify
<1>4. ASSUME NEW i \in Indices, NEW j \in 0 .. ChunkInts - 1, NEW val \in Words,
             ModifyUint32(i, j, val)
      PROVE  counter' = counter /\ \E b \in Block : Get(i, b)
  BY <1>4, ClientBlocks DEF ModifyUint32
<1> QED
  BY <1>1, <1>2, <1>3, <1>4 DEF Next

(* No step of the vector breaks the invariant.                             *)
LEMMA Inductive == IInv /\ [Next]_vars => IInv'
<1> SUFFICES ASSUME IInv, [Next]_vars
             PROVE  IInv'
  OBVIOUS
<1>1. CASE Next
  <2>1. CASE counter' = counter + 1 /\ \E b \in Block : Push(b)
    BY <2>1, PushStep DEF IInv
  <2>2. CASE counter' = counter /\ \E i \in Indices, b \in Block : Get(i, b)
    BY <2>2, GetStep DEF IInv
  <2> QED
    BY <1>1, <2>1, <2>2, StepIsCacheStep
<1>2. CASE UNCHANGED vars
  BY <1>2 DEF vars, cacheVars, IInv, CacheType, CacheInv, Indices, Cached
<1> QED
  BY <1>1, <1>2

(* The constructor establishes the invariant.                              *)
LEMMA Initial == Init => IInv
<1> SUFFICES ASSUME Init
             PROVE  IInv
  OBVIOUS
<1>1. ptrList = <<>> /\ Len(ptrList) = 0 /\ counter = 0
  BY DEF Init, CacheInit
<1>2. Indices = {}
  BY <1>1 DEF Indices
<1>3. CacheType
  BY <1>1 DEF CacheType, Init, CacheInit
<1>4. CacheInv
  BY <1>2 DEF CacheInv, Init, CacheInit
<1> QED
  BY <1>1, <1>3, <1>4 DEF IInv

(* The invariant holds always.                                             *)
THEOREM Safety == Spec => []IInv
<1> QED
  BY Initial, Inductive, PTL DEF Spec

(* No block has two buffers, and none without a buffer is lost: for every  *)
(* number of buffers of SimpleCache, and all operations of the vector.     *)
THEOREM CacheCorrect == Spec => []CacheInv
<1>1. IInv => CacheInv
  BY DEF IInv
<1> QED
  BY Safety, <1>1, PTL

(* The cache of a DynamicBitVector is transparent: every operation adds    *)
(* one block or changes the one it is called for.                          *)
THEOREM Transparent == Spec => ImplementsArray
<1>1. Init => Array!Init
  <2>1. ASSUME Init
        PROVE  [j \in 1 .. Len(ptrList) |-> Content(j - 1)] = <<>>
    BY <2>1 DEF Init, CacheInit
  <2> QED
    BY <2>1 DEF Array!Init
<1>2. IInv /\ [Next]_vars => [Array!Next]_(Blocks)
  <2> SUFFICES ASSUME IInv, [Next]_vars
               PROVE  [Array!Next]_(Blocks)
    OBVIOUS
  <2>1. CASE \E b \in Block : Push(b)
    <3>1. \E b \in Block : Blocks' = Append(Blocks, b)
      BY <2>1, PushStep DEF IInv
    <3> QED
      BY <3>1 DEF Array!Next, Blocks
  <2>2. CASE \E i \in Indices, b \in Block : Get(i, b)
    <3>1. PICK i \in Indices, b \in Block : Get(i, b)
      BY <2>2
    <3>2. Blocks' = [Blocks EXCEPT ![i + 1] = b]
      BY <3>1, GetStep DEF IInv
    <3>3. i + 1 \in 1 .. Len(Blocks)
      <4>1. Len(ptrList) \in Nat
        BY DEF IInv, CacheType
      <4>2. Len(Blocks) = Len(ptrList)
        BY <4>1 DEF Blocks
      <4> QED
        BY <4>1, <4>2 DEF Indices
    <3> QED
      BY <3>2, <3>3 DEF Array!Next, Blocks
  <2>3. CASE UNCHANGED vars
    BY <2>3 DEF vars, cacheVars, Blocks, Content, Cached
  <2> QED
    BY <2>1, <2>2, <2>3, StepIsCacheStep
<1> QED
  BY Safety, <1>1, <1>2, PTL DEF Spec, ImplementsArray, Array!Spec, Blocks
-----------------------------------------------------------------------------
(* The ones of the vector in front of a bit, and in front of a block.      *)
Count(q) == Cardinality({p \in OnesUpTo(LastBit) : p < q})
Before(i) == Count(i * ChunkBits)

(* A block has bits.                                                       *)
LEMMA ChunkBitsNat == ChunkBits \in Nat /\ ChunkBits > 0
<1>1. \A a, b \in Nat \ {0} : a * b \in Nat /\ a * b > 0
  OBVIOUS
<1> QED
  BY <1>1, SizeAssumption DEF ChunkBits

(* The bit of a vector is that of one block, at one place of it.           *)
LEMMA DivMod ==
  ASSUME NEW b \in Nat, b > 0
  PROVE  /\ \A i \in Nat, k \in 0 .. b - 1 : (i * b + k) \div b = i /\ (i * b + k) % b = k
         /\ \A p \in Nat : p \div b \in Nat /\ p % b \in 0 .. b - 1
                           /\ p = (p \div b) * b + (p % b)
  OBVIOUS

(* The blocks of the vector are numbered up to counter.                    *)
LEMMA CounterNat == IInv => counter \in Nat /\ Indices = 0 .. counter - 1
  BY DEF IInv, CacheType, Indices

(* The vector has finitely many ones, whatever counts them.                *)
LEMMA AllFinite == IInv => IsFiniteSet(OnesUpTo(LastBit))
<1> SUFFICES ASSUME IInv PROVE IsFiniteSet(OnesUpTo(LastBit))
  OBVIOUS
<1>1. LastBit \in Int
  BY CounterNat, ChunkBitsNat DEF LastBit
<1>2. IsFiniteSet(0 .. LastBit)
  BY <1>1, FS_Interval
<1> QED
  BY <1>2, FS_Subset DEF OnesUpTo

(* In front of a later bit there are no fewer ones.                        *)
LEMMA CountGrows ==
  ASSUME IInv
  PROVE  /\ \A q \in Int : Count(q) \in Nat
         /\ \A q, r \in Int : q <= r => Count(q) <= Count(r)
<1> DEFINE P(q) == {p \in OnesUpTo(LastBit) : p < q}
<1>1. ASSUME NEW q \in Int PROVE IsFiniteSet(P(q)) /\ Count(q) = Cardinality(P(q))
  BY AllFinite, FS_Subset DEF Count
<1>2. ASSUME NEW q \in Int PROVE Count(q) \in Nat
  BY <1>1, FS_CardinalityType
<1>3. ASSUME NEW q \in Int, NEW r \in Int, q <= r PROVE Count(q) <= Count(r)
  <2>1. \A p \in OnesUpTo(LastBit) : p \in Int
    BY DEF OnesUpTo
  <2>2. P(q) \subseteq P(r)
    BY <1>3, <2>1
  <2> QED
    <3>1. IsFiniteSet(P(r)) /\ P(q) \in SUBSET P(r)
      BY <1>1, <2>2
    <3>2. Cardinality(P(q)) <= Cardinality(P(r))
      BY <3>1, FS_Subset
    <3> QED
      BY <1>1, <3>2
<1> QED
  BY <1>2, <1>3

(* And in front of a later block.                                          *)
LEMMA BeforeGrows ==
  ASSUME IInv
  PROVE  /\ \A i \in Int : Before(i) \in Nat
         /\ \A i, j \in Int : i <= j => Before(i) <= Before(j)
<1>1. \A i \in Int : i * ChunkBits \in Int
  BY ChunkBitsNat
<1>2. \A i, j \in Int : i <= j => i * ChunkBits <= j * ChunkBits
  BY ChunkBitsNat
<1> QED
  BY <1>1, <1>2, CountGrows DEF Before

(* The ones of a block, one to one with those of the vector there.         *)
LEMMA CountBlock ==
  ASSUME IInv, NEW i \in 0 .. counter - 1, NEW r \in Bits
  PROVE  /\ Ones(Content(i), 0, r) \in Nat
         /\ Count(i * ChunkBits + r + 1) = Before(i) + Ones(Content(i), 0, r)
<1> DEFINE all == OnesUpTo(LastBit)
           from == i * ChunkBits
           A == {p \in all : p < from}
           B == {p \in all : from <= p /\ p < from + r + 1}
           C == {k \in 0 .. r : Content(i)[k] = 1}
           f == [k \in C |-> from + k]
<1>0. /\ ChunkBits \in Nat /\ ChunkBits > 0 /\ i \in Nat /\ counter \in Nat /\ i <= counter - 1
      /\ r \in Nat /\ r <= ChunkBits - 1 /\ from \in Nat
  BY ChunkBitsNat, CounterNat DEF Bits
<1>1. ASSUME NEW k \in 0 .. r
      PROVE  from + k \in 0 .. LastBit /\ (from + k \in all <=> Content(i)[k] = 1)
  <2>1. (from + k) \div ChunkBits = i /\ (from + k) % ChunkBits = k
    BY <1>0, DivMod
  <2>2. i * ChunkBits <= (counter - 1) * ChunkBits
    BY <1>0
  <2>3. (counter - 1) * ChunkBits = counter * ChunkBits - ChunkBits /\ counter * ChunkBits \in Nat
    BY <1>0
  <2>4. from + k \in 0 .. LastBit
    BY <1>0, <2>2, <2>3 DEF LastBit
  <2> QED
    BY <2>1, <2>4 DEF OnesUpTo
<1>2. all \subseteq Int
  BY DEF OnesUpTo
<1>3. f \in [C -> B]
  BY <1>0, <1>1
<1>4. \A p \in B : \E k \in C : f[k] = p
  <2> SUFFICES ASSUME NEW p \in B PROVE \E k \in C : f[k] = p
    OBVIOUS
  <2>1. p - from \in 0 .. r /\ from + (p - from) = p
    BY <1>0, <1>2
  <2>2. p - from \in C
    BY <1>1, <2>1
  <2> QED
    BY <2>1, <2>2
<1>5. \A k, l \in C : f[k] = f[l] => k = l
  BY <1>0
<1>6. IsFiniteSet(C)
  <2>1. IsFiniteSet(0 .. r)
    BY <1>0, FS_Interval
  <2> QED
    BY <2>1, FS_Subset
<1>7. IsFiniteSet(A) /\ IsFiniteSet(B)
  BY AllFinite, FS_Subset
<1>8. {p \in all : p < from + r + 1} = A \cup B
  BY <1>0, <1>2
<1>9. A \cap B = {}
  BY <1>0, <1>2
<1>10. Count(from + r + 1) = Cardinality(A \cup B) /\ Before(i) = Cardinality(A)
       /\ Ones(Content(i), 0, r) = Cardinality(C)
  BY <1>8 DEF Count, Before, Ones
<1> HIDE DEF A, B, C, f
<1>11. Cardinality(B) = Cardinality(C)
  <2>1. f \in Bijection(C, B)
    BY <1>3, <1>4, <1>5 DEF Bijection, Injection, IsInjective, Surjection
  <2> QED
    BY <1>6, <2>1, FS_Bijection DEF ExistsBijection
<1>12. Cardinality(A \cup B) = Cardinality(A) + Cardinality(B) - Cardinality(A \cap B)
  BY <1>7, FS_Union
<1>13. Cardinality(A) \in Nat /\ Cardinality(B) \in Nat /\ Cardinality(A \cap B) = 0
  BY <1>7, <1>9, FS_CardinalityType, FS_EmptySet
<1> QED
  BY <1>10, <1>11, <1>12, <1>13

(* What a leaf of the segment tree has to hold.                            *)
OnesOf(i) == IF i < counter THEN Ones(Content(i), 0, ChunkBits - 1) ELSE 0

(* Behind a block there are the ones in front of it and its own.           *)
LEMMA BeforeNext ==
  ASSUME IInv, NEW i \in Nat
  PROVE  OnesOf(i) \in Nat /\ Before(i + 1) = Before(i) + OnesOf(i)
<1>1. ChunkBits \in Nat /\ ChunkBits > 0 /\ counter \in Nat
  BY ChunkBitsNat, CounterNat
<1>2. CASE i < counter
  <2>1. i \in 0 .. counter - 1 /\ ChunkBits - 1 \in Bits
    BY <1>1, <1>2 DEF Bits
  <2>2. i * ChunkBits + (ChunkBits - 1) + 1 = (i + 1) * ChunkBits
    BY <1>1
  <2> QED
    BY <1>2, <2>1, <2>2, CountBlock DEF OnesOf, Before
<1>3. CASE ~(i < counter)
  <2>1. counter * ChunkBits <= i * ChunkBits /\ i * ChunkBits <= (i + 1) * ChunkBits
        /\ counter * ChunkBits \in Nat /\ i * ChunkBits \in Nat /\ (i + 1) * ChunkBits \in Nat
    BY <1>1, <1>3
  <2>2. ASSUME NEW p \in OnesUpTo(LastBit) PROVE p < i * ChunkBits /\ p < (i + 1) * ChunkBits
    BY <2>1 DEF OnesUpTo, LastBit
  <2>3. /\ {p \in OnesUpTo(LastBit) : p < i * ChunkBits} = OnesUpTo(LastBit)
        /\ {p \in OnesUpTo(LastBit) : p < (i + 1) * ChunkBits} = OnesUpTo(LastBit)
    BY <2>2
  <2>4. Before(i + 1) = Before(i) /\ Before(i) \in Nat
    BY <2>3, BeforeGrows DEF Before, Count
  <2> QED
    BY <1>3, <2>4 DEF OnesOf
<1> QED
  BY <1>2, <1>3

(* rank's answer, and all ones.                                            *)
LEMMA RankIsCount ==
  ASSUME IInv
  PROVE  /\ \A pos \in 0 .. LastBit : Cardinality(OnesUpTo(pos)) = Count(pos + 1)
         /\ \A i \in Int : counter <= i => Before(i) = Cardinality(OnesUpTo(LastBit))
<1>0. ChunkBits \in Nat /\ ChunkBits > 0 /\ counter \in Nat /\ counter * ChunkBits \in Nat
  BY ChunkBitsNat, CounterNat
<1>1. ASSUME NEW pos \in 0 .. LastBit PROVE Cardinality(OnesUpTo(pos)) = Count(pos + 1)
  <2>1. OnesUpTo(pos) = {p \in OnesUpTo(LastBit) : p < pos + 1}
    BY <1>0 DEF OnesUpTo, LastBit
  <2> QED
    BY <2>1 DEF Count
<1>2. ASSUME NEW i \in Int, counter <= i PROVE Before(i) = Cardinality(OnesUpTo(LastBit))
  <2>1. counter * ChunkBits <= i * ChunkBits /\ i * ChunkBits \in Int
    BY <1>0, <1>2
  <2>2. \A p \in OnesUpTo(LastBit) : p < i * ChunkBits
    BY <1>0, <2>1 DEF OnesUpTo, LastBit
  <2>3. {p \in OnesUpTo(LastBit) : p < i * ChunkBits} = OnesUpTo(LastBit)
    BY <2>2
  <2> QED
    BY <2>3 DEF Before, Count
<1> QED
  BY <1>1, <1>2
-----------------------------------------------------------------------------
(* The segment tree: node n is at level d when P[d] <= n + 1 < 2 * P[d],   *)
(* and the leaves are the nodes of level H.                                *)
IsPowers(P, H) ==
  /\ H \in Nat /\ P \in [0 .. H -> Nat] /\ P[0] = 1 /\ P[H] = NumberOfBlocks
  /\ \A k \in 0 .. H - 1 : P[k + 1] = 2 * P[k]

AtLevel(P, n, d) == P[d] <= n + 1 /\ n + 1 < 2 * P[d]

(* The leaves of the tree are a power of two (roundToPowerOf2).            *)
LEMMA Powers == \E P, H : IsPowers(P, H)
<1>1. PICK H \in 0 .. NumberOfBlocks : \E P \in [0 .. H -> 1 .. NumberOfBlocks] :
        /\ P[0] = 1 /\ P[H] = NumberOfBlocks
        /\ \A k \in 1 .. H : P[k] = 2 * P[k - 1]
  BY PowerAssumption DEF IsPowerOf2
<1>2. PICK P \in [0 .. H -> 1 .. NumberOfBlocks] :
        /\ P[0] = 1 /\ P[H] = NumberOfBlocks
        /\ \A k \in 1 .. H : P[k] = 2 * P[k - 1]
  BY <1>1
<1>3. H \in Nat /\ P \in [0 .. H -> Nat]
  BY SizeAssumption
<1>4. ASSUME NEW k \in 0 .. H - 1 PROVE P[k + 1] = 2 * P[k]
  <2>1. k + 1 \in 1 .. H /\ (k + 1) - 1 = k
    BY <1>3
  <2> QED
    BY <1>2, <2>1
<1> QED
  BY <1>2, <1>3, <1>4 DEF IsPowers

(* Each level has at least twice as many nodes as one above it.            *)
LEMMA PowersGrow ==
  ASSUME NEW P, NEW H, IsPowers(P, H), NEW d \in 0 .. H, NEW e \in 0 .. H, d < e
  PROVE  2 * P[d] <= P[e]
<1> DEFINE S == {k \in 0 .. H : d < k => 2 * P[d] <= P[k]}
<1>0. H \in Nat /\ P \in [0 .. H -> Nat]
  BY DEF IsPowers
<1>1. 0 \in S
  BY <1>0
<1>2. ASSUME NEW k \in 0 .. H - 1, k \in S PROVE k + 1 \in S
  <2>1. k \in 0 .. H /\ k + 1 \in 0 .. H /\ P[k + 1] = 2 * P[k] /\ P[k] \in Nat
    BY <1>0 DEF IsPowers
  <2>2. CASE d < k
    BY <1>0, <1>2, <2>1, <2>2
  <2>3. CASE d >= k
    BY <1>0, <2>1, <2>3
  <2> QED
    BY <1>0, <2>2, <2>3
<1> HIDE DEF S
<1>3. \A k \in 0 .. H : k \in S
  BY <1>0, <1>1, <1>2, UpTo
<1> QED
  BY <1>3 DEF S

(* A node is on one level only.                                            *)
LEMMA OneLevel ==
  ASSUME NEW P, NEW H, IsPowers(P, H), NEW d \in 0 .. H, NEW e \in 0 .. H, NEW n \in Nat,
         AtLevel(P, n, d), AtLevel(P, n, e)
  PROVE  d = e
<1>1. P[d] \in Nat /\ P[e] \in Nat
  BY DEF IsPowers
<1>2. ~(d < e) /\ ~(e < d)
  BY <1>1, PowersGrow DEF AtLevel
<1> QED
  BY <1>2

(* Where the nodes are.                                                    *)
LEMMA NodeFacts ==
  /\ NumberOfBlocks \in Nat /\ NumberOfBlocks > 0
  /\ \A i \in 0 .. NumberOfBlocks - 1 : Leaf(i) \in Nodes /\ i + NumberOfBlocks - 1 \in Nodes
  /\ \A n \in Nodes : n # 0 =>
       /\ Parent(n) \in 0 .. n - 1 /\ Parent(n) \in 0 .. NumberOfBlocks - 2
       /\ n = 2 * Parent(n) + 1 \/ n = 2 * Parent(n) + 2
  /\ \A n \in 0 .. NumberOfBlocks - 2 :
       /\ n \in Nodes /\ 2 * n + 1 \in Nodes /\ 2 * n + 2 \in Nodes
       /\ 2 * n + 1 # 0 /\ Parent(2 * n + 1) = n /\ 2 * n + 2 # 0 /\ Parent(2 * n + 2) = n
<1>0. NumberOfBlocks \in Nat /\ NumberOfBlocks > 0
  BY SizeAssumption
<1>1. \A n \in Nat : n # 0 => Parent(n) \in Nat /\ (n = 2 * Parent(n) + 1 \/ n = 2 * Parent(n) + 2)
  BY DEF Parent
<1>2. \A n \in Nodes : n # 0 =>
        /\ Parent(n) \in 0 .. n - 1 /\ Parent(n) \in 0 .. NumberOfBlocks - 2
        /\ n = 2 * Parent(n) + 1 \/ n = 2 * Parent(n) + 2
  BY <1>0, <1>1 DEF Nodes
<1>3. \A n \in Nat : Parent(2 * n + 1) = n /\ Parent(2 * n + 2) = n
  BY DEF Parent
<1> QED
  BY <1>0, <1>2, <1>3 DEF Nodes, Leaf

(* The children of an inner node are on the next level.                    *)
LEMMA ChildLevel ==
  ASSUME NEW P, NEW H, IsPowers(P, H), NEW d \in 0 .. H, NEW n \in 0 .. NumberOfBlocks - 2,
         AtLevel(P, n, d)
  PROVE  /\ d < H /\ d + 1 \in 0 .. H /\ P[d + 1] = 2 * P[d]
         /\ AtLevel(P, 2 * n + 1, d + 1) /\ AtLevel(P, 2 * n + 2, d + 1)
<1>0. /\ H \in Nat /\ P \in [0 .. H -> Nat] /\ P[H] = NumberOfBlocks /\ NumberOfBlocks \in Nat
      /\ P[d] \in Nat
  BY NodeFacts DEF IsPowers
<1>1. d # H
  BY <1>0 DEF AtLevel
<1>2. d \in 0 .. H - 1
  BY <1>0, <1>1
<1>3. P[d + 1] = 2 * P[d]
  BY <1>2 DEF IsPowers
<1> QED
  BY <1>0, <1>2, <1>3 DEF AtLevel

(* Every node is on a level of the tree.                                   *)
LEMMA SomeLevel ==
  ASSUME NEW P, NEW H, IsPowers(P, H)
  PROVE  \A n \in Nodes : \E d \in 0 .. H : AtLevel(P, n, d)
<1> DEFINE S == {n \in Nat : n \in Nodes => \E d \in 0 .. H : AtLevel(P, n, d)}
<1>1. ASSUME NEW n \in Nat, \A m \in 0 .. n - 1 : m \in S PROVE n \in S
  <2> SUFFICES ASSUME n \in Nodes PROVE \E d \in 0 .. H : AtLevel(P, n, d)
    OBVIOUS
  <2>1. CASE n = 0
    BY <2>1 DEF IsPowers, AtLevel
  <2>2. CASE n # 0
    <3>1. /\ Parent(n) \in 0 .. n - 1 /\ Parent(n) \in 0 .. NumberOfBlocks - 2
          /\ n = 2 * Parent(n) + 1 \/ n = 2 * Parent(n) + 2
      BY <2>2, NodeFacts
    <3>2. Parent(n) \in Nodes
      BY <3>1, NodeFacts
    <3>3. PICK d \in 0 .. H : AtLevel(P, Parent(n), d)
      BY <1>1, <3>1, <3>2
    <3>4. d + 1 \in 0 .. H /\ AtLevel(P, n, d + 1)
      BY <3>1, <3>3, ChildLevel
    <3> QED
      BY <3>4
  <2> QED
    BY <2>1, <2>2
<1> HIDE DEF S
<1>2. \A n \in Nat : n \in S
  BY <1>1, FromLess
<1> QED
  BY <1>2 DEF S, Nodes

(* The leaves are the last level.                                          *)
LEMMA LeafLevel ==
  ASSUME NEW P, NEW H, IsPowers(P, H), NEW n \in Nodes, NEW d \in 0 .. H, AtLevel(P, n, d)
  PROVE  d = H <=> n >= NumberOfBlocks - 1
<1>0. /\ H \in 0 .. H /\ P[H] = NumberOfBlocks /\ NumberOfBlocks \in Nat /\ n \in Nat
      /\ n <= 2 * NumberOfBlocks - 2
  BY NodeFacts DEF IsPowers, Nodes
<1>1. ASSUME n >= NumberOfBlocks - 1 PROVE d = H
  <2>1. AtLevel(P, n, H)
    BY <1>0, <1>1 DEF AtLevel
  <2> QED
    BY <1>0, <2>1, OneLevel
<1>2. ASSUME d = H PROVE n >= NumberOfBlocks - 1
  BY <1>0, <1>2 DEF AtLevel
<1> QED
  BY <1>1, <1>2

(* The first block below a node of level d, and the first behind them.     *)
First(P, H, n, d) == (n + 1) * P[H - d] - NumberOfBlocks
Behind(P, H, n, d) == (n + 2) * P[H - d] - NumberOfBlocks

(* The left child has the first half of the blocks of a node, the right    *)
(* child the second.                                                       *)
LEMMA FirstChild ==
  ASSUME NEW P, NEW H, IsPowers(P, H), NEW d \in 0 .. H - 1, NEW n \in Nat
  PROVE  /\ First(P, H, 2 * n + 1, d + 1) = First(P, H, n, d)
         /\ Behind(P, H, 2 * n + 1, d + 1) = First(P, H, 2 * n + 2, d + 1)
         /\ Behind(P, H, 2 * n + 2, d + 1) = Behind(P, H, n, d)
         /\ First(P, H, n, d) \in Int /\ Behind(P, H, n, d) \in Int
         /\ First(P, H, 2 * n + 2, d + 1) \in Int
         /\ First(P, H, n, d) < First(P, H, 2 * n + 2, d + 1)
         /\ First(P, H, 2 * n + 2, d + 1) < Behind(P, H, n, d)
<1> DEFINE w == P[H - (d + 1)]
<1>0. H \in Nat /\ NumberOfBlocks \in Nat /\ H - (d + 1) \in 0 .. H - 1 /\ (H - (d + 1)) + 1 = H - d
  BY NodeFacts DEF IsPowers
<1>1. P[H - d] = 2 * w /\ w \in Nat
  BY <1>0 DEF IsPowers
<1>2. w > 0
  <2>1. P[0] = 1 /\ 0 \in 0 .. H /\ H - (d + 1) \in 0 .. H
    BY <1>0 DEF IsPowers
  <2>2. CASE H - (d + 1) = 0
    BY <2>1, <2>2
  <2>3. CASE 0 < H - (d + 1)
    BY <1>1, <2>1, <2>3, PowersGrow
  <2> QED
    BY <1>0, <2>2, <2>3
<1> HIDE DEF w
<1>3. \A k \in Nat : /\ (k + 1) * (2 * w) = (2 * k + 1 + 1) * w
                     /\ (2 * k + 1 + 2) * w = (2 * k + 2 + 1) * w
                     /\ (k + 2) * (2 * w) = (2 * k + 2 + 2) * w
                     /\ (2 * k + 2 + 1) * w = (k + 1) * (2 * w) + w
                     /\ (2 * k + 2 + 2) * w = (2 * k + 2 + 1) * w + w
                     /\ (k + 1) * (2 * w) \in Nat
  BY <1>1
<1> QED
  BY <1>0, <1>1, <1>2, <1>3 DEF First, Behind, w

(* A leaf has its own block, the root has all.                             *)
LEMMA FirstLeaf ==
  ASSUME NEW P, NEW H, IsPowers(P, H), NEW n \in Int
  PROVE  /\ First(P, H, n, H) = n - (NumberOfBlocks - 1)
         /\ Behind(P, H, n, H) = n - (NumberOfBlocks - 1) + 1
         /\ First(P, H, 0, 0) = 0 /\ Behind(P, H, 0, 0) = NumberOfBlocks
<1>1. H \in Nat /\ P[0] = 1 /\ P[H] = NumberOfBlocks /\ NumberOfBlocks \in Nat
  BY NodeFacts DEF IsPowers
<1>2. H - H = 0 /\ H - 0 = H
  BY <1>1
<1> QED
  BY <1>1, <1>2 DEF First, Behind
-----------------------------------------------------------------------------
(* A leaf has the ones of its block, any other node those of its children. *)
TreeInv ==
  /\ numberOfOnes \in [Nodes -> Int]
  /\ \A i \in 0 .. NumberOfBlocks - 1 : numberOfOnes[Leaf(i)] = OnesOf(i)
  /\ \A n \in 0 .. NumberOfBlocks - 2 :
       numberOfOnes[n] = numberOfOnes[2 * n + 1] + numberOfOnes[2 * n + 2]
  /\ counter <= NumberOfBlocks

(* So that every node has the ones of the blocks below it.                 *)
LEMMA LevelSums ==
  ASSUME IInv, TreeInv, NEW P, NEW H, IsPowers(P, H)
  PROVE  \A n \in Nodes, d \in 0 .. H : AtLevel(P, n, d) =>
           numberOfOnes[n] = Before(Behind(P, H, n, d)) - Before(First(P, H, n, d))
<1> DEFINE Right(n, d) == numberOfOnes[n] = Before(Behind(P, H, n, d)) - Before(First(P, H, n, d))
           S == {e \in 0 .. H : \A n \in Nodes : AtLevel(P, n, H - e) => Right(n, H - e)}
<1>0. H \in Nat
  BY DEF IsPowers
<1>1. 0 \in S
  <2> SUFFICES ASSUME NEW n \in Nodes, AtLevel(P, n, H) PROVE Right(n, H)
    BY <1>0
  <2>1. n >= NumberOfBlocks - 1 /\ n \in Nat /\ n <= 2 * NumberOfBlocks - 2
        /\ NumberOfBlocks \in Nat
    BY <1>0, LeafLevel, NodeFacts DEF Nodes
  <2> DEFINE i == n - (NumberOfBlocks - 1)
  <2>2. i \in 0 .. NumberOfBlocks - 1 /\ Leaf(i) = n
    BY <2>1 DEF Leaf
  <2>3. First(P, H, n, H) = i /\ Behind(P, H, n, H) = i + 1
    BY <2>1, FirstLeaf
  <2>4. numberOfOnes[n] = OnesOf(i)
    BY <2>2 DEF TreeInv
  <2>5. i \in Nat
    BY <2>1
  <2> HIDE DEF i
  <2>6. OnesOf(i) \in Nat /\ Before(i + 1) = Before(i) + OnesOf(i) /\ Before(i) \in Nat
    BY <2>5, BeforeNext, BeforeGrows
  <2> QED
    BY <2>3, <2>4, <2>6
<1>2. ASSUME NEW e \in 0 .. H - 1, e \in S PROVE e + 1 \in S
  <2> DEFINE d == H - (e + 1)
  <2>0. d \in 0 .. H - 1 /\ d \in 0 .. H /\ d + 1 = H - e /\ e + 1 \in 0 .. H
    BY <1>0
  <2> SUFFICES ASSUME NEW n \in Nodes, AtLevel(P, n, d) PROVE Right(n, d)
    BY <2>0
  <2>1. n \in 0 .. NumberOfBlocks - 2
    <3>1. ~(n >= NumberOfBlocks - 1)
      BY <2>0, LeafLevel
    <3> QED
      BY <3>1, NodeFacts DEF Nodes
  <2>2. 2 * n + 1 \in Nodes /\ 2 * n + 2 \in Nodes
    BY <2>1, NodeFacts
  <2>3. AtLevel(P, 2 * n + 1, d + 1) /\ AtLevel(P, 2 * n + 2, d + 1)
    BY <2>0, <2>1, ChildLevel
  <2>4. Right(2 * n + 1, d + 1) /\ Right(2 * n + 2, d + 1)
    BY <1>2, <2>0, <2>2, <2>3
  <2>5. numberOfOnes[n] = numberOfOnes[2 * n + 1] + numberOfOnes[2 * n + 2]
    BY <2>1 DEF TreeInv
  <2> DEFINE a == First(P, H, n, d)
             m == First(P, H, 2 * n + 2, d + 1)
             z == Behind(P, H, n, d)
  <2>6. /\ First(P, H, 2 * n + 1, d + 1) = a /\ Behind(P, H, 2 * n + 1, d + 1) = m
        /\ Behind(P, H, 2 * n + 2, d + 1) = z
        /\ a \in Int /\ m \in Int /\ z \in Int
    BY <2>0, <2>1, FirstChild
  <2>7. Before(a) \in Nat /\ Before(m) \in Nat /\ Before(z) \in Nat
    BY <2>6, BeforeGrows
  <2>8. /\ numberOfOnes[2 * n + 1] = Before(m) - Before(a)
        /\ numberOfOnes[2 * n + 2] = Before(z) - Before(m)
    BY <2>4, <2>6
  <2> HIDE DEF a, m, z
  <2>9. numberOfOnes[n] = Before(z) - Before(a)
    BY <2>5, <2>7, <2>8
  <2> QED
    BY <2>9 DEF a, z
<1> HIDE DEF S
<1>3. \A e \in 0 .. H : e \in S
  BY <1>0, <1>1, <1>2, UpTo
<1>4. ASSUME NEW n \in Nodes, NEW d \in 0 .. H, AtLevel(P, n, d) PROVE Right(n, d)
  <2>1. H - d \in 0 .. H /\ H - (H - d) = d
    BY <1>0
  <2>2. H - d \in S
    BY <1>3, <2>1
  <2> QED
    BY <1>4, <2>1, <2>2 DEF S
<1> QED
  BY <1>4

LevelOf(P, H, n) == CHOOSE d \in 0 .. H : AtLevel(P, n, d)

(* LevelOf is the level of a node.                                         *)
LEMMA LevelOfNode ==
  ASSUME NEW P, NEW H, IsPowers(P, H)
  PROVE  /\ \A n \in Nodes : LevelOf(P, H, n) \in 0 .. H /\ AtLevel(P, n, LevelOf(P, H, n))
         /\ \A n \in Nodes, d \in 0 .. H : AtLevel(P, n, d) => LevelOf(P, H, n) = d
<1>1. \A n \in Nodes : LevelOf(P, H, n) \in 0 .. H /\ AtLevel(P, n, LevelOf(P, H, n))
  BY SomeLevel DEF LevelOf
<1>2. Nodes \subseteq Nat
  BY DEF Nodes
<1> QED
  BY <1>1, <1>2, OneLevel

(* Every node has a number of ones.                                        *)
LEMMA NodesNat == ASSUME IInv, TreeInv PROVE numberOfOnes \in [Nodes -> Nat]
<1>1. PICK P, H : IsPowers(P, H)
  BY Powers
<1>2. ASSUME NEW n \in Nodes PROVE numberOfOnes[n] \in Nat
  <2>1. PICK d \in 0 .. H : AtLevel(P, n, d)
    BY <1>1, SomeLevel
  <2> DEFINE a == First(P, H, n, d)
             z == Behind(P, H, n, d)
  <2>2. numberOfOnes[n] = Before(z) - Before(a)
    BY <1>1, <2>1, LevelSums
  <2>3. a \in Int /\ z \in Int /\ a <= z
    <3>1. /\ H \in Nat /\ H - d \in 0 .. H /\ P[H - d] \in Nat /\ NumberOfBlocks \in Nat /\ n \in Nat
      BY <1>1, NodeFacts DEF IsPowers, Nodes
    <3>2. \A w, k \in Nat : (k + 2) * w = (k + 1) * w + w /\ (k + 1) * w \in Nat
      OBVIOUS
    <3> QED
      BY <3>1, <3>2 DEF First, Behind
  <2> HIDE DEF a, z
  <2> QED
    BY <2>2, <2>3, BeforeGrows
<1> QED
  BY <1>2 DEF TreeInv

(* The walk up of rank has the ones in front of the block.                 *)
LEMMA SumOfLeftIs ==
  ASSUME IInv, TreeInv, NEW i \in 0 .. NumberOfBlocks - 1
  PROVE  SumOfLeft[Leaf(i)] = Before(i)
<1> DEFINE T(walk) ==
      [index \in Nodes |->
        IF index = 0 THEN 0
        ELSE LET help == Parent(index)
             IN  walk[help] + IF index = 2 * help + 2 THEN numberOfOnes[2 * help + 1] ELSE 0]
<1>1. PICK P, H : IsPowers(P, H)
  BY Powers
<1> DEFINE g == [n \in Nodes |-> Before(First(P, H, n, LevelOf(P, H, n)))]
<1>2. Before(0) = 0
  <2>1. {p \in OnesUpTo(LastBit) : p < 0 * ChunkBits} = {}
    BY ChunkBitsNat DEF OnesUpTo
  <2> QED
    BY <2>1, FS_EmptySet DEF Before, Count
<1>3. g[0] = 0
  <2>1. 0 \in Nodes /\ 0 \in 0 .. H /\ AtLevel(P, 0, 0)
    BY <1>1, NodeFacts DEF Nodes, IsPowers, AtLevel
  <2>2. LevelOf(P, H, 0) = 0
    BY <1>1, <2>1, LevelOfNode
  <2>3. First(P, H, 0, 0) = 0
    BY <1>1, FirstLeaf
  <2> QED
    BY <1>2, <2>1, <2>2, <2>3
<1>4. ASSUME NEW n \in Nodes, n # 0
      PROVE  /\ Parent(n) \in Nodes /\ Parent(n) < n
             /\ g[n] = g[Parent(n)]
                       + IF n = 2 * Parent(n) + 2 THEN numberOfOnes[2 * Parent(n) + 1] ELSE 0
  <2> DEFINE p == Parent(n)
             d == LevelOf(P, H, p)
  <2>1. /\ p \in 0 .. n - 1 /\ p \in 0 .. NumberOfBlocks - 2 /\ p \in Nodes
        /\ n = 2 * p + 1 \/ n = 2 * p + 2
    BY <1>4, NodeFacts
  <2>2. d \in 0 .. H /\ AtLevel(P, p, d)
    BY <1>1, <2>1, LevelOfNode
  <2> HIDE DEF p
  <2>3. d < H /\ d + 1 \in 0 .. H /\ AtLevel(P, 2 * p + 1, d + 1) /\ AtLevel(P, 2 * p + 2, d + 1)
    BY <1>1, <2>1, <2>2, ChildLevel
  <2>4. LevelOf(P, H, n) = d + 1 /\ 2 * p + 1 \in Nodes
    <3>1. AtLevel(P, n, d + 1)
      BY <2>1, <2>3
    <3>2. 2 * p + 1 \in Nodes
      BY <2>1, NodeFacts
    <3> HIDE DEF d
    <3>3. LevelOf(P, H, n) = d + 1
      BY <1>1, <2>3, <3>1, LevelOfNode
    <3> QED
      BY <3>2, <3>3
  <2>5. d \in 0 .. H - 1 /\ p \in Nat
    BY <1>1, <2>1, <2>2, <2>3 DEF IsPowers
  <2>6. /\ First(P, H, 2 * p + 1, d + 1) = First(P, H, p, d)
        /\ Behind(P, H, 2 * p + 1, d + 1) = First(P, H, 2 * p + 2, d + 1)
        /\ First(P, H, p, d) \in Int /\ First(P, H, 2 * p + 2, d + 1) \in Int
    BY <1>1, <2>5, FirstChild
  <2>7. Before(First(P, H, p, d)) \in Nat /\ Before(First(P, H, 2 * p + 2, d + 1)) \in Nat
    BY <2>6, BeforeGrows
  <2>8. numberOfOnes[2 * p + 1]
          = Before(First(P, H, 2 * p + 2, d + 1)) - Before(First(P, H, p, d))
    BY <1>1, <2>3, <2>4, <2>6, LevelSums
  <2>9. g[p] = Before(First(P, H, p, d)) /\ g[n] = Before(First(P, H, n, d + 1))
    BY <2>1, <2>4
  <2>10. g[n] = g[p] + IF n = 2 * p + 2 THEN numberOfOnes[2 * p + 1] ELSE 0
    <3>1. CASE n = 2 * p + 1
      <4>1. n # 2 * p + 2
        BY <2>5, <3>1
      <4> QED
        BY <2>6, <2>7, <2>9, <3>1, <4>1
    <3>2. CASE n = 2 * p + 2
      BY <2>7, <2>8, <2>9, <3>2
    <3> QED
      BY <2>1, <3>1, <3>2
  <2> QED
    BY <2>1, <2>10 DEF p
<1>5. g = T(g)
  <2>1. \A n \in Nodes : g[n] = T(g)[n]
    BY <1>3, <1>4
  <2> QED
    BY <2>1
<1> DEFINE walk == CHOOSE h : h = T(h)
<1>6. walk = T(walk)
  BY <1>5
<1>7. SumOfLeft = walk
  BY DEF SumOfLeft
<1>8. walk[0] = 0 /\ \A n \in Nodes : n # 0 =>
        walk[n] = walk[Parent(n)]
                  + IF n = 2 * Parent(n) + 2 THEN numberOfOnes[2 * Parent(n) + 1] ELSE 0
  <2>1. 0 \in Nodes
    BY NodeFacts DEF Nodes
  <2> HIDE DEF walk
  <2> QED
    BY <1>6, <2>1
<1> HIDE DEF walk, g
<1> DEFINE S == {n \in Nat : n \in Nodes => walk[n] = g[n]}
<1>9. ASSUME NEW n \in Nat, \A m \in 0 .. n - 1 : m \in S PROVE n \in S
  <2>1. CASE n = 0
    BY <1>3, <1>8, <2>1
  <2>2. CASE n # 0 /\ n \in Nodes
    <3>1. Parent(n) \in 0 .. n - 1
      BY <2>2, NodeFacts
    <3>2. walk[Parent(n)] = g[Parent(n)]
      BY <1>4, <1>9, <2>2, <3>1
    <3> QED
      BY <1>4, <1>8, <2>2, <3>2
  <2> QED
    BY <2>1, <2>2
<1> HIDE DEF S
<1>10. \A n \in Nat : n \in S
  BY <1>9, FromLess
<1>11. Leaf(i) \in Nodes /\ Leaf(i) \in Nat /\ Leaf(i) = i + NumberOfBlocks - 1
       /\ NumberOfBlocks \in Nat /\ i \in Nat
  BY NodeFacts DEF Leaf, Nodes
<1>12. LevelOf(P, H, Leaf(i)) = H
  <2>1. H \in 0 .. H /\ AtLevel(P, Leaf(i), H)
    BY <1>1, <1>11 DEF IsPowers, AtLevel
  <2> QED
    BY <1>1, <1>11, <2>1, LevelOfNode
<1>13. First(P, H, Leaf(i), H) = Leaf(i) - (NumberOfBlocks - 1)
  BY <1>1, <1>11, FirstLeaf
<1>14. First(P, H, Leaf(i), H) = i
  BY <1>11, <1>13
<1>15. walk[Leaf(i)] = g[Leaf(i)]
  BY <1>10, <1>11 DEF S
<1> QED
  BY <1>7, <1>11, <1>12, <1>14, <1>15 DEF g

(* rank counts the ones up to a bit.                                       *)
LEMMA Ranks == IInv /\ TreeInv => RankRight
<1> SUFFICES ASSUME IInv, TreeInv PROVE RankRight
  OBVIOUS
<1>1. TypeOK
  BY NodesNat DEF IInv, CacheType, StoredBlocks, TypeOK
<1>2. ASSUME NEW pos \in 0 .. LastBit
      PROVE  Rank(pos) = Cardinality(OnesUpTo(pos))
  <2> DEFINE i == pos \div ChunkBits
             r == pos % ChunkBits
  <2>0. /\ ChunkBits \in Nat /\ ChunkBits > 0 /\ counter \in Nat /\ counter <= NumberOfBlocks
        /\ NumberOfBlocks \in Nat /\ pos \in Nat /\ pos < counter * ChunkBits
    BY ChunkBitsNat, CounterNat, NodeFacts DEF TreeInv, LastBit
  <2>1. i \in Nat /\ r \in 0 .. ChunkBits - 1 /\ pos = i * ChunkBits + r
    BY <2>0, DivMod
  <2> HIDE DEF i, r
  <2>2. i < counter
    <3>1. i >= counter => i * ChunkBits >= counter * ChunkBits
      BY <2>0, <2>1
    <3>2. i * ChunkBits \in Nat /\ counter * ChunkBits \in Nat
      BY <2>0, <2>1
    <3> QED
      BY <2>0, <2>1, <3>1, <3>2
  <2>3. i \in 0 .. counter - 1 /\ i \in 0 .. NumberOfBlocks - 1 /\ r \in Bits
    BY <2>0, <2>1, <2>2 DEF Bits
  <2>4. Count(pos + 1) = Before(i) + Ones(Content(i), 0, r) /\ Ones(Content(i), 0, r) \in Nat
    BY <2>1, <2>3, CountBlock
  <2>5. SumOfLeft[Leaf(i)] = Before(i) /\ Before(i) \in Nat
    BY <2>3, SumOfLeftIs, BeforeGrows
  <2>6. Rank(pos) = Ones(Content(i), 0, r) + SumOfLeft[Leaf(i)]
    BY DEF Rank, i, r
  <2>7. Cardinality(OnesUpTo(pos)) = Count(pos + 1)
    BY RankIsCount
  <2> QED
    BY <2>4, <2>5, <2>6, <2>7
<1> QED
  BY <1>1, <1>2 DEF RankRight
-----------------------------------------------------------------------------
(* The first of the blocks from a on and in front of z with which there    *)
(* are t ones, or the last of them when there are not as many.             *)
Least(a, z, t, i) ==
  /\ i \in a .. z - 1
  /\ \A j \in a .. i - 1 : Before(j + 1) < t
  /\ i = z - 1 \/ Before(i + 1) >= t

(* There is such a block, when there are blocks at all.                    *)
LEMMA LeastExists ==
  ASSUME IInv, NEW a \in Int, NEW z \in Int, a < z, NEW t \in Int
  PROVE  \E i : Least(a, z, t, i)
<1> DEFINE S == {k \in Nat : a + k < z /\ (a + k = z - 1 \/ Before(a + k + 1) >= t)}
<1>1. z - 1 - a \in S
  OBVIOUS
<1>2. PICK x \in S : \A y \in S : x <= y
  <2>1. S \subseteq Nat /\ S # {}
    BY <1>1
  <2> HIDE DEF S
  <2> QED
    BY <2>1, LeastNatural
<1>3. ASSUME NEW j \in a .. a + x - 1 PROVE Before(j + 1) < t
  <2>1. j - a \in Nat /\ ~(x <= j - a) /\ a + (j - a) = j /\ j < z - 1
    BY <1>2
  <2>2. j - a \notin S
    BY <1>2, <2>1
  <2>3. Before(j + 1) \in Nat
    BY BeforeGrows
  <2> QED
    BY <2>1, <2>2, <2>3
<1>4. Least(a, z, t, a + x)
  BY <1>2, <1>3 DEF Least
<1> QED
  BY <1>4

(* There is one only.                                                      *)
LEMMA LeastUnique ==
  ASSUME IInv, NEW a \in Int, NEW z \in Int, NEW t \in Int,
         NEW i, Least(a, z, t, i), NEW j, Least(a, z, t, j)
  PROVE  i = j
<1>1. /\ i \in a .. z - 1 /\ j \in a .. z - 1
      /\ Before(i + 1) \in Nat /\ Before(j + 1) \in Nat
  BY BeforeGrows DEF Least
<1>2. ~(i < j) /\ ~(j < i)
  BY <1>1 DEF Least
<1> QED
  BY <1>1, <1>2

(* It is in the first half if there are t ones in front of the second.     *)
LEMMA LeastOfHalf ==
  ASSUME IInv, NEW a \in Int, NEW m \in Int, NEW z \in Int, a < m, m < z, NEW t \in Int, NEW i
  PROVE  /\ Before(m) >= t /\ Least(a, m, t, i) => Least(a, z, t, i)
         /\ Before(m) < t /\ Least(m, z, t, i) => Least(a, z, t, i)
<1>1. ASSUME Before(m) >= t, Least(a, m, t, i) PROVE Least(a, z, t, i)
  <2>1. i \in a .. z - 1 /\ (i = m - 1 => i + 1 = m)
    BY <1>1 DEF Least
  <2> QED
    BY <1>1, <2>1 DEF Least
<1>2. ASSUME Before(m) < t, Least(m, z, t, i) PROVE Least(a, z, t, i)
  <2>1. i \in m .. z - 1 /\ i \in a .. z - 1
    BY <1>2 DEF Least
  <2>2. ASSUME NEW j \in a .. i - 1 PROVE Before(j + 1) < t
    <3>1. CASE j >= m
      BY <1>2, <3>1 DEF Least
    <3>2. CASE j < m
      <4>1. Before(j + 1) <= Before(m) /\ Before(j + 1) \in Nat /\ Before(m) \in Nat
        BY <3>2, BeforeGrows
      <4> QED
        BY <1>2, <4>1
    <3> QED
      BY <3>1, <3>2
  <2> QED
    BY <1>2, <2>1, <2>2 DEF Least
<1> QED
  BY <1>1, <1>2

LeastOf(a, z, t) == CHOOSE i : Least(a, z, t, i)

(* LeastOf is that block.                                                  *)
LEMMA LeastOfIs ==
  ASSUME IInv, NEW a \in Int, NEW z \in Int, a < z, NEW t \in Int
  PROVE  /\ Least(a, z, t, LeastOf(a, z, t))
         /\ \A i : Least(a, z, t, i) => LeastOf(a, z, t) = i
<1>1. Least(a, z, t, LeastOf(a, z, t))
  BY LeastExists DEF LeastOf
<1> QED
  BY <1>1, LeastUnique

(* The walk down of select from a node finds the least block below it.     *)
Found(a, z, k) == [leaf |-> Leaf(LeastOf(a, z, k + Before(a))),
                   num |-> (k + Before(a)) - Before(LeastOf(a, z, k + Before(a)))]

(* What select finds below a node it finds below the child it goes to,     *)
(* once the ones passed over on the left are taken off.                    *)
LEMMA FoundInHalf ==
  ASSUME IInv, NEW a \in Int, NEW m \in Int, NEW z \in Int, a < m, m < z, NEW k \in Nat
  PROVE  Found(a, z, k) = IF Before(m) - Before(a) < k
                          THEN Found(m, z, k - (Before(m) - Before(a)))
                          ELSE Found(a, m, k)
<1> DEFINE t == k + Before(a)
<1>1. Before(a) \in Nat /\ Before(m) \in Nat
  BY BeforeGrows
<1>2. t \in Int /\ a < z
  BY <1>1
<1>3. CASE Before(m) - Before(a) < k
  <2>1. Before(m) < t /\ k - (Before(m) - Before(a)) + Before(m) = t
    BY <1>1, <1>3
  <2>2. LeastOf(a, z, t) = LeastOf(m, z, t)
    BY <1>2, <2>1, LeastOfIs, LeastOfHalf
  <2> DEFINE l == k - (Before(m) - Before(a))
  <2>3. Found(m, z, l) = [leaf |-> Leaf(LeastOf(m, z, t)), num |-> t - Before(LeastOf(m, z, t))]
    <3>1. l + Before(m) = t
      BY <2>1
    <3> HIDE DEF l
    <3> QED
      BY <3>1 DEF Found
  <2>4. Found(a, z, k) = [leaf |-> Leaf(LeastOf(a, z, t)), num |-> t - Before(LeastOf(a, z, t))]
    BY DEF Found
  <2> QED
    BY <1>3, <2>2, <2>3, <2>4
<1>4. CASE ~(Before(m) - Before(a) < k)
  <2>1. Before(m) >= t
    BY <1>1, <1>4
  <2>2. LeastOf(a, z, t) = LeastOf(a, m, t)
    BY <1>2, <2>1, LeastOfIs, LeastOfHalf
  <2> QED
    BY <1>4, <2>2 DEF Found
<1> QED
  BY <1>3, <1>4

(* At a leaf select has found its block.                                   *)
LEMMA FoundInLeaf ==
  ASSUME IInv, NEW i \in Int, NEW k \in Nat
  PROVE  Found(i, i + 1, k) = [leaf |-> Leaf(i), num |-> k]
<1>1. Before(i) \in Nat
  BY BeforeGrows
<1>2. LeastOf(i, i + 1, k + Before(i)) = i
  <2> DEFINE t == k + Before(i)
             z == i + 1
  <2>1. t \in Int /\ z \in Int /\ i < z
    BY <1>1
  <2> HIDE DEF t, z
  <2>2. LeastOf(i, z, t) \in i .. z - 1
    BY <2>1, LeastOfIs DEF Least
  <2> QED
    BY <2>2 DEF t, z
<1> QED
  BY <1>1, <1>2 DEF Found

(* The walk down from the root finds the least block of all.               *)
LEMMA SelectLeafIs ==
  ASSUME IInv, TreeInv, NEW num \in Nat
  PROVE  SelectLeaf(num) = Found(0, NumberOfBlocks, num)
<1> DEFINE T(walk) ==
      [index \in Nodes |-> [k \in Nat |->
        IF 2 * index + 2 > 2 * NumberOfBlocks - 1 THEN [leaf |-> index, num |-> k]
        ELSE IF GoesRight(index, k) THEN walk[2 * index + 2][k - numberOfOnes[2 * index + 1]]
        ELSE walk[2 * index + 1][k]]]
<1>1. PICK P, H : IsPowers(P, H)
  BY Powers
<1> DEFINE first(n) == First(P, H, n, LevelOf(P, H, n))
           behind(n) == Behind(P, H, n, LevelOf(P, H, n))
           g == [n \in Nodes |-> [k \in Nat |-> Found(first(n), behind(n), k)]]
<1>0. NumberOfBlocks \in Nat /\ Nodes \subseteq Nat
  BY NodeFacts DEF Nodes
<1>2. ASSUME NEW n \in Nodes, NEW k \in Nat, n >= NumberOfBlocks - 1
      PROVE  /\ 2 * n + 2 > 2 * NumberOfBlocks - 1
             /\ g[n][k] = [leaf |-> n, num |-> k]
  <2>1. LevelOf(P, H, n) = H
    BY <1>1, <1>2, LevelOfNode, LeafLevel
  <2> DEFINE i == n - (NumberOfBlocks - 1)
  <2>2. first(n) = i /\ behind(n) = i + 1
    BY <1>0, <1>1, <2>1, FirstLeaf
  <2>3. i \in Int /\ Leaf(i) = n
    BY <1>0 DEF Leaf
  <2>4. g[n][k] = Found(i, i + 1, k)
    BY <2>2
  <2> HIDE DEF g, i
  <2> QED
    BY <1>0, <1>2, <2>3, <2>4, FoundInLeaf
<1>3. ASSUME NEW n \in Nodes, NEW k \in Nat, ~(n >= NumberOfBlocks - 1)
      PROVE  /\ ~(2 * n + 2 > 2 * NumberOfBlocks - 1)
             /\ 2 * n + 1 \in Nodes /\ 2 * n + 2 \in Nodes
             /\ LevelOf(P, H, 2 * n + 1) = LevelOf(P, H, n) + 1
             /\ LevelOf(P, H, 2 * n + 2) = LevelOf(P, H, n) + 1
             /\ GoesRight(n, k) => k - numberOfOnes[2 * n + 1] \in Nat
             /\ g[n][k] = IF GoesRight(n, k) THEN g[2 * n + 2][k - numberOfOnes[2 * n + 1]]
                          ELSE g[2 * n + 1][k]
  <2> DEFINE d == LevelOf(P, H, n)
  <2>1. n \in 0 .. NumberOfBlocks - 2 /\ ~(2 * n + 2 > 2 * NumberOfBlocks - 1)
    BY <1>0, <1>3
  <2>2. d \in 0 .. H /\ AtLevel(P, n, d)
    BY <1>1, LevelOfNode
  <2>3. 2 * n + 1 \in Nodes /\ 2 * n + 2 \in Nodes
    BY <2>1, NodeFacts
  <2>4. d \in 0 .. H - 1 /\ d + 1 \in 0 .. H
        /\ AtLevel(P, 2 * n + 1, d + 1) /\ AtLevel(P, 2 * n + 2, d + 1)
    <3>1. H \in Nat
      BY <1>1 DEF IsPowers
    <3> QED
      BY <1>1, <2>1, <2>2, <3>1, ChildLevel
  <2>5. LevelOf(P, H, 2 * n + 1) = d + 1 /\ LevelOf(P, H, 2 * n + 2) = d + 1
    BY <1>1, <2>3, <2>4, LevelOfNode
  <2> DEFINE a == first(n)
             m == first(2 * n + 2)
             z == behind(n)
  <2>6. /\ first(2 * n + 1) = a /\ behind(2 * n + 1) = m /\ behind(2 * n + 2) = z
        /\ a \in Int /\ m \in Int /\ z \in Int /\ a < m /\ m < z
    BY <1>0, <1>1, <2>4, <2>5, FirstChild
  <2>7. numberOfOnes[2 * n + 1] = Before(m) - Before(a)
    BY <1>1, <2>3, <2>4, <2>5, <2>6, LevelSums
  <2>8. numberOfOnes[2 * n + 1] \in Nat
    BY <2>3, NodesNat
  <2>9. GoesRight(n, k) => k - numberOfOnes[2 * n + 1] \in Nat
    BY <2>8 DEF GoesRight
  <2>10. /\ g[n][k] = Found(a, z, k)
         /\ g[2 * n + 1][k] = Found(a, m, k)
         /\ GoesRight(n, k) => g[2 * n + 2][k - numberOfOnes[2 * n + 1]]
                                 = Found(m, z, k - numberOfOnes[2 * n + 1])
    BY <2>3, <2>6, <2>9
  <2> HIDE DEF a, m, z, g
  <2>11. g[n][k] = IF GoesRight(n, k) THEN g[2 * n + 2][k - numberOfOnes[2 * n + 1]]
                   ELSE g[2 * n + 1][k]
    BY <2>6, <2>7, <2>10, FoundInHalf DEF GoesRight
  <2> QED
    BY <2>1, <2>3, <2>5, <2>9, <2>11
<1>4. g = T(g)
  <2>1. ASSUME NEW n \in Nodes, NEW k \in Nat PROVE g[n][k] = T(g)[n][k]
    BY <1>2, <1>3
  <2>2. ASSUME NEW n \in Nodes PROVE g[n] = T(g)[n]
    BY <2>1
  <2> QED
    BY <2>2
<1> DEFINE walk == CHOOSE h : h = T(h)
<1>5. walk = T(walk)
  BY <1>4
<1>6. SelectLeaf(num) = walk[0][num]
  BY DEF SelectLeaf
<1>7. \A n \in Nodes : \A k \in Nat :
        walk[n][k] = IF 2 * n + 2 > 2 * NumberOfBlocks - 1 THEN [leaf |-> n, num |-> k]
                     ELSE IF GoesRight(n, k) THEN walk[2 * n + 2][k - numberOfOnes[2 * n + 1]]
                     ELSE walk[2 * n + 1][k]
  <2> HIDE DEF walk
  <2> QED
    BY <1>5
<1> HIDE DEF walk, g
<1> DEFINE S == {e \in 0 .. H : \A n \in Nodes : LevelOf(P, H, n) = H - e =>
                   \A k \in Nat : walk[n][k] = g[n][k]}
<1>8. H \in Nat
  BY <1>1 DEF IsPowers
<1>9. 0 \in S
  <2> SUFFICES ASSUME NEW n \in Nodes, LevelOf(P, H, n) = H, NEW k \in Nat
               PROVE  walk[n][k] = g[n][k]
    BY <1>8
  <2>1. n >= NumberOfBlocks - 1
    BY <1>1, LevelOfNode, LeafLevel
  <2>2. 2 * n + 2 > 2 * NumberOfBlocks - 1 /\ g[n][k] = [leaf |-> n, num |-> k]
    BY <1>2, <2>1
  <2>3. walk[n][k] = [leaf |-> n, num |-> k]
    BY <1>7, <2>2
  <2> QED
    BY <2>2, <2>3
<1>10. ASSUME NEW e \in 0 .. H - 1, e \in S PROVE e + 1 \in S
  <2> SUFFICES ASSUME NEW n \in Nodes, LevelOf(P, H, n) = H - (e + 1), NEW k \in Nat
               PROVE  walk[n][k] = g[n][k]
    BY <1>8
  <2>1. LevelOf(P, H, n) # H /\ LevelOf(P, H, n) + 1 = H - e
    BY <1>8
  <2>2. ~(n >= NumberOfBlocks - 1)
    BY <1>1, <2>1, LevelOfNode, LeafLevel
  <2>3. \A x \in Nodes, l \in Nat : LevelOf(P, H, x) = H - e => walk[x][l] = g[x][l]
    BY <1>10
  <2>4. /\ ~(2 * n + 2 > 2 * NumberOfBlocks - 1)
        /\ 2 * n + 1 \in Nodes /\ 2 * n + 2 \in Nodes
        /\ LevelOf(P, H, 2 * n + 1) = H - e /\ LevelOf(P, H, 2 * n + 2) = H - e
        /\ GoesRight(n, k) => k - numberOfOnes[2 * n + 1] \in Nat
        /\ g[n][k] = IF GoesRight(n, k) THEN g[2 * n + 2][k - numberOfOnes[2 * n + 1]]
                     ELSE g[2 * n + 1][k]
    BY <1>3, <2>1, <2>2
  <2>5. walk[n][k] = IF GoesRight(n, k) THEN walk[2 * n + 2][k - numberOfOnes[2 * n + 1]]
                     ELSE walk[2 * n + 1][k]
    BY <1>7, <2>4
  <2>6. GoesRight(n, k) => walk[2 * n + 2][k - numberOfOnes[2 * n + 1]]
                             = g[2 * n + 2][k - numberOfOnes[2 * n + 1]]
    BY <2>3, <2>4
  <2>7. walk[2 * n + 1][k] = g[2 * n + 1][k]
    BY <2>3, <2>4
  <2> QED
    BY <2>4, <2>5, <2>6, <2>7
<1> HIDE DEF S
<1>11. \A e \in 0 .. H : e \in S
  BY <1>8, <1>9, <1>10, UpTo
<1>12. 0 \in Nodes /\ LevelOf(P, H, 0) = 0
  <2>1. 0 \in Nodes /\ 0 \in 0 .. H /\ AtLevel(P, 0, 0)
    BY <1>1, <1>8, NodeFacts DEF Nodes, IsPowers, AtLevel
  <2> QED
    BY <1>1, <2>1, LevelOfNode
<1>13. walk[0][num] = g[0][num]
  BY <1>8, <1>11, <1>12 DEF S
<1>14. first(0) = 0 /\ behind(0) = NumberOfBlocks
  BY <1>1, <1>12, FirstLeaf
<1> QED
  BY <1>6, <1>12, <1>13, <1>14 DEF g

(* The ones of a block up to a place: each one adds to them.               *)
LEMMA OnesStrict ==
  ASSUME NEW b, NEW k \in Nat, NEW l \in Nat, k < l, b[l] = 1
  PROVE  Ones(b, 0, k) < Ones(b, 0, l) /\ 1 <= Ones(b, 0, l)
<1> DEFINE K == {j \in 0 .. k : b[j] = 1}
           L == {j \in 0 .. l : b[j] = 1}
<1>1. IsFiniteSet(L)
  <2>1. IsFiniteSet(0 .. l)
    BY FS_Interval
  <2> QED
    BY <2>1, FS_Subset
<1>2. K \in SUBSET L /\ l \in L /\ l \notin K
  OBVIOUS
<1>3. Ones(b, 0, k) = Cardinality(K) /\ Ones(b, 0, l) = Cardinality(L)
  BY DEF Ones
<1> HIDE DEF K, L
<1>4. IsFiniteSet(K) /\ Cardinality(K) <= Cardinality(L) /\ Cardinality(K) # Cardinality(L)
  BY <1>1, <1>2, FS_Subset
<1>5. Cardinality(K) \in Nat /\ Cardinality(L) \in Nat
  BY <1>1, <1>4, FS_CardinalityType
<1> QED
  BY <1>3, <1>4, <1>5

(* Up to a bit that is set there is a one.                                 *)
LEMMA SomeOne ==
  ASSUME NEW b, NEW l \in Nat, b[l] = 1
  PROVE  Ones(b, 0, l) \in Nat /\ 1 <= Ones(b, 0, l)
<1> DEFINE L == {j \in 0 .. l : b[j] = 1}
<1>1. IsFiniteSet(L)
  <2>1. IsFiniteSet(0 .. l)
    BY FS_Interval
  <2> QED
    BY <2>1, FS_Subset
<1>2. l \in L
  OBVIOUS
<1>3. Ones(b, 0, l) = Cardinality(L)
  BY DEF Ones
<1> HIDE DEF L
<1>4. Cardinality(L) \in Nat /\ Cardinality(L) # 0
  BY <1>1, <1>2, FS_CardinalityType, FS_EmptySet
<1> QED
  BY <1>3, <1>4

(* What select looks for in the block it has found.                        *)
PlaceOf(i, num) == CHOOSE k \in Bits : Content(i)[k] = 1 /\ Ones(Content(i), 0, k) = num

(* What select returns, in terms of the least block.                       *)
LEMMA SelectIs ==
  ASSUME IInv, TreeInv, NEW num \in Nat, NEW i, Least(0, NumberOfBlocks, num + 1, i)
  PROVE  /\ i \in 0 .. NumberOfBlocks - 1
         /\ Select(num) = IF OnesOf(i) < (num + 1) - Before(i) THEN -1
                          ELSE i * ChunkBits + PlaceOf(i, (num + 1) - Before(i))
<1> DEFINE found == SelectLeaf(num + 1)
<1>0. NumberOfBlocks \in Nat /\ NumberOfBlocks > 0 /\ num + 1 \in Nat
  BY NodeFacts
<1>1. i \in 0 .. NumberOfBlocks - 1
  BY <1>0 DEF Least
<1>2. Before(0) = 0
  <2>1. {p \in OnesUpTo(LastBit) : p < 0 * ChunkBits} = {}
    BY ChunkBitsNat DEF OnesUpTo
  <2> QED
    BY <2>1, FS_EmptySet DEF Before, Count
<1>3. LeastOf(0, NumberOfBlocks, num + 1) = i
  BY <1>0, LeastOfIs
<1>4. found = [leaf |-> Leaf(i), num |-> (num + 1) - Before(i)]
  <2>1. found = Found(0, NumberOfBlocks, num + 1)
    BY <1>0, SelectLeafIs
  <2>2. num + 1 + Before(0) = num + 1
    BY <1>2
  <2> QED
    BY <1>3, <2>1, <2>2 DEF Found
<1>5. found.leaf - (NumberOfBlocks - 1) = i
  BY <1>0, <1>1, <1>4 DEF Leaf
<1>6. numberOfOnes[found.leaf] = OnesOf(i)
  BY <1>1, <1>4 DEF TreeInv
<1>7. found.num = (num + 1) - Before(i)
  BY <1>4
<1>8. Select(num) = IF numberOfOnes[found.leaf] < found.num THEN -1
                    ELSE (found.leaf - (NumberOfBlocks - 1)) * ChunkBits
                         + PlaceOf(found.leaf - (NumberOfBlocks - 1), found.num)
  BY DEF Select, PlaceOf
<1> HIDE DEF found
<1> QED
  BY <1>1, <1>5, <1>6, <1>7, <1>8

(* select finds the place of every one, and -1 behind the last.            *)
LEMMA Selects == IInv /\ TreeInv => SelectRight
<1> SUFFICES ASSUME IInv, TreeInv PROVE SelectRight
  OBVIOUS
<1> DEFINE ones == OnesUpTo(LastBit)
<1>0. /\ ChunkBits \in Nat /\ ChunkBits > 0 /\ counter \in Nat /\ counter <= NumberOfBlocks
      /\ NumberOfBlocks \in Nat /\ NumberOfBlocks > 0
  BY ChunkBitsNat, CounterNat, NodeFacts DEF TreeInv
<1>1. ASSUME NEW p \in ones
      PROVE  Select(Cardinality(OnesUpTo(p)) - 1) = p
  <2> DEFINE i == p \div ChunkBits
             k == p % ChunkBits
             r == Cardinality(OnesUpTo(p))
             x == Ones(Content(i), 0, k)
  <2>1. p \in 0 .. LastBit /\ p \in Nat /\ p < counter * ChunkBits
    BY <1>0 DEF OnesUpTo, LastBit
  <2>2. i \in Nat /\ k \in 0 .. ChunkBits - 1 /\ p = i * ChunkBits + k
    BY <1>0, <2>1, DivMod
  <2>3. Content(i)[k] = 1
    BY DEF OnesUpTo
  <2> HIDE DEF i, k
  <2>4. i < counter
    <3>1. i >= counter => i * ChunkBits >= counter * ChunkBits
      BY <1>0, <2>2
    <3>2. i * ChunkBits \in Nat /\ counter * ChunkBits \in Nat
      BY <1>0, <2>2
    <3> QED
      BY <1>0, <2>1, <2>2, <3>1, <3>2
  <2>5. i \in 0 .. counter - 1 /\ i \in 0 .. NumberOfBlocks - 1 /\ k \in Bits
    BY <1>0, <2>2, <2>4 DEF Bits
  <2>6. x \in Nat /\ 1 <= x
    BY <2>2, <2>3, SomeOne
  <2>7. r = Before(i) + x /\ Before(i) \in Nat
    <3>1. r = Count(p + 1)
      BY <2>1, RankIsCount
    <3>2. Count(i * ChunkBits + k + 1) = Before(i) + x
      BY <2>5, CountBlock
    <3> QED
      BY <2>2, <2>5, <3>1, <3>2, BeforeGrows
  <2>8. Before(i + 1) = Before(i) + OnesOf(i) /\ OnesOf(i) \in Nat /\ x <= OnesOf(i)
    <3>1. Before(i + 1) = Before(i) + OnesOf(i) /\ OnesOf(i) \in Nat
      BY <2>2, BeforeNext
    <3>2. r = Count(p + 1)
      BY <2>1, RankIsCount
    <3>3. (i + 1) * ChunkBits = i * ChunkBits + ChunkBits /\ i * ChunkBits \in Nat
      BY <1>0, <2>2
    <3>4. p + 1 <= (i + 1) * ChunkBits /\ (i + 1) * ChunkBits \in Int /\ p + 1 \in Int
      BY <1>0, <2>2, <3>3
    <3>5. Count(p + 1) <= Before(i + 1)
      BY <3>4, CountGrows DEF Before
    <3> QED
      BY <2>6, <2>7, <3>1, <3>2, <3>5
  <2> HIDE DEF x, r
  <2>9. Least(0, NumberOfBlocks, (r - 1) + 1, i)
    <3>1. (r - 1) + 1 = r
      BY <2>6, <2>7
    <3>2. ASSUME NEW j \in 0 .. i - 1 PROVE Before(j + 1) < r
      <4>1. Before(j + 1) <= Before(i) /\ Before(j + 1) \in Nat
        BY <2>2, BeforeGrows
      <4> QED
        BY <2>6, <2>7, <4>1
    <3> QED
      BY <2>5, <2>6, <2>7, <2>8, <3>1, <3>2 DEF Least
  <2>10. r - 1 \in Nat /\ ((r - 1) + 1) - Before(i) = x
    BY <2>6, <2>7
  <2>11. Select(r - 1) = i * ChunkBits + PlaceOf(i, x)
    <3>1. Select(r - 1) = IF OnesOf(i) < ((r - 1) + 1) - Before(i) THEN -1
                          ELSE i * ChunkBits + PlaceOf(i, ((r - 1) + 1) - Before(i))
      BY <2>9, <2>10, SelectIs
    <3> QED
      BY <2>6, <2>8, <2>10, <3>1
  <2>12. PlaceOf(i, x) = k
    <3>1. ASSUME NEW l \in Bits, Content(i)[l] = 1, Ones(Content(i), 0, l) = x
          PROVE  l = k
      <4>1. l \in Nat /\ k \in Nat
        BY <2>2, <1>0 DEF Bits
      <4>2. ~(l < k) /\ ~(k < l)
        BY <2>3, <2>6, <3>1, <4>1, OnesStrict DEF x
      <4> QED
        BY <4>1, <4>2
    <3>2. k \in Bits /\ Content(i)[k] = 1 /\ Ones(Content(i), 0, k) = x
      BY <2>3, <2>5 DEF x
    <3> QED
      BY <3>1, <3>2 DEF PlaceOf
  <2> QED
    BY <2>2, <2>11, <2>12 DEF r
<1>2. Select(Cardinality(ones)) = -1
  <2> DEFINE num == Cardinality(ones)
             i == NumberOfBlocks - 1
  <2>1. num \in Nat
    BY AllFinite, FS_CardinalityType
  <2>2. Before(NumberOfBlocks) = num
    BY <1>0, RankIsCount
  <2> HIDE DEF num
  <2>3. ASSUME NEW j \in 0 .. i - 1 PROVE Before(j + 1) < num + 1
    <3>1. Before(j + 1) <= Before(NumberOfBlocks) /\ Before(j + 1) \in Nat
      BY <1>0, BeforeGrows
    <3> QED
      BY <2>1, <2>2, <3>1
  <2>4. Least(0, NumberOfBlocks, num + 1, i)
    BY <1>0, <2>3 DEF Least
  <2>5. i \in Nat /\ i + 1 = NumberOfBlocks
    BY <1>0
  <2> HIDE DEF i
  <2>6. Before(i + 1) = Before(i) + OnesOf(i) /\ OnesOf(i) \in Nat /\ Before(i) \in Nat
    <3>1. i \in Int
      BY <2>5
    <3>2. Before(i) \in Nat
      BY <3>1, BeforeGrows
    <3>3. Before(i + 1) = Before(i) + OnesOf(i) /\ OnesOf(i) \in Nat
      BY <2>5, BeforeNext
    <3> QED
      BY <3>2, <3>3
  <2>7. OnesOf(i) < (num + 1) - Before(i)
    BY <2>1, <2>2, <2>5, <2>6
  <2>8. Select(num) = -1
    BY <2>1, <2>4, <2>7, SelectIs
  <2> QED
    BY <2>8 DEF num
<1> QED
  BY <1>1, <1>2 DEF SelectRight
-----------------------------------------------------------------------------
(* A node and those above it are the least set with the node and the       *)
(* parents of its nodes.                                                   *)
LEMMA PathIs ==
  \A n \in Nodes : Path[n] = {n} \cup IF n = 0 THEN {} ELSE Path[Parent(n)]
<1> DEFINE Closed(S) == \A x \in S : x # 0 => Parent(x) \in S
           A == [n \in Nodes |->
                  {m \in Nodes : \A S \in SUBSET Nodes : n \in S /\ Closed(S) => m \in S}]
           T(p) == [n \in Nodes |-> {n} \cup IF n = 0 THEN {} ELSE p[Parent(n)]]
<1>0. \A n \in Nodes : n # 0 => Parent(n) \in Nodes
  BY NodeFacts
<1>1. ASSUME NEW n \in Nodes PROVE A[n] = {n} \cup IF n = 0 THEN {} ELSE A[Parent(n)]
  <2> DEFINE R == {n} \cup IF n = 0 THEN {} ELSE A[Parent(n)]
  <2>0. \A m \in R : m \in Nodes
    BY <1>0
  <2>1. ASSUME NEW m \in R, NEW S \in SUBSET Nodes, n \in S, Closed(S)
        PROVE  m \in S
    <3>1. CASE m = n
      BY <2>1, <3>1
    <3>2. CASE n # 0 /\ m \in A[Parent(n)]
      BY <1>0, <2>1, <3>2
    <3> QED
      BY <3>1, <3>2
  <2>2. R \in SUBSET Nodes /\ n \in R
    BY <2>0
  <2>3. Closed(R)
    <3> SUFFICES ASSUME NEW x \in R, x # 0 PROVE Parent(x) \in R
      OBVIOUS
    <3>1. CASE x = n
      <4>1. Parent(n) \in A[Parent(n)]
        BY <1>0, <3>1
      <4> QED
        BY <3>1, <4>1
    <3>2. CASE n # 0 /\ x \in A[Parent(n)]
      <4>1. x \in Nodes /\ Parent(x) \in Nodes /\ Parent(n) \in Nodes
        BY <1>0, <3>2
      <4>2. Parent(x) \in A[Parent(n)]
        BY <3>2, <4>1
      <4> QED
        BY <3>2, <4>2
    <3> QED
      BY <3>1, <3>2
  <2>4. A[n] \subseteq R
    <3> HIDE DEF R, Closed
    <3> QED
      BY <2>2, <2>3
  <2>5. R \subseteq A[n]
    <3> HIDE DEF R, Closed
    <3> QED
      BY <2>0, <2>1
  <2> QED
    BY <2>4, <2>5
<1> HIDE DEF A
<1>2. A = T(A)
  <2>1. A = [n \in Nodes |-> A[n]]
    BY DEF A
  <2> QED
    BY <1>1, <2>1
<1> DEFINE path == CHOOSE p : p = T(p)
<1>3. path = T(path)
  BY <1>2
<1>4. Path = path
  BY DEF Path
<1> HIDE DEF path
<1> QED
  BY <1>3, <1>4

(* The nodes above another are inner nodes with smaller numbers.           *)
LEMMA PathBelow ==
  \A x \in Nodes : \A m \in Path[x] : m = x \/ (m < x /\ m \in 0 .. NumberOfBlocks - 2)
<1> DEFINE S == {x \in Nat : x \in Nodes =>
                   \A m \in Path[x] : m = x \/ (m < x /\ m \in 0 .. NumberOfBlocks - 2)}
<1>1. ASSUME NEW x \in Nat, \A y \in 0 .. x - 1 : y \in S PROVE x \in S
  <2> SUFFICES ASSUME x \in Nodes, NEW m \in Path[x], m # x
               PROVE  m < x /\ m \in 0 .. NumberOfBlocks - 2
    OBVIOUS
  <2>1. x # 0 /\ m \in Path[Parent(x)]
    BY PathIs
  <2>2. Parent(x) \in 0 .. x - 1 /\ Parent(x) \in 0 .. NumberOfBlocks - 2 /\ Parent(x) \in Nodes
    BY <2>1, NodeFacts
  <2>3. m = Parent(x) \/ (m < Parent(x) /\ m \in 0 .. NumberOfBlocks - 2)
    BY <1>1, <2>1, <2>2
  <2> QED
    BY <2>2, <2>3, NodeFacts
<1> HIDE DEF S
<1>2. \A x \in Nat : x \in S
  BY <1>1, FromLess
<1> QED
  BY <1>2 DEF S, Nodes

(* Above a node lies a node when one of its children does, and then one.   *)
LEMMA PathChildren ==
  \A x \in Nodes : \A n \in 0 .. NumberOfBlocks - 2 :
    /\ (n \in Path[x] /\ n # x) <=> (2 * n + 1 \in Path[x] \/ 2 * n + 2 \in Path[x])
    /\ ~(2 * n + 1 \in Path[x] /\ 2 * n + 2 \in Path[x])
<1> DEFINE Good(x, n) ==
             /\ (n \in Path[x] /\ n # x) <=> (2 * n + 1 \in Path[x] \/ 2 * n + 2 \in Path[x])
             /\ ~(2 * n + 1 \in Path[x] /\ 2 * n + 2 \in Path[x])
           S == {x \in Nat : x \in Nodes => \A n \in 0 .. NumberOfBlocks - 2 : Good(x, n)}
<1>0. NumberOfBlocks \in Nat /\ Nodes \subseteq Nat
  BY NodeFacts DEF Nodes
<1>1. ASSUME NEW x \in Nat, \A y \in 0 .. x - 1 : y \in S PROVE x \in S
  <2> SUFFICES ASSUME x \in Nodes, NEW n \in 0 .. NumberOfBlocks - 2 PROVE Good(x, n)
    OBVIOUS
  <2>1. CASE x = 0
    <3>1. Path[x] = {0}
      BY <2>1, PathIs
    <3>2. 2 * n + 1 # 0 /\ 2 * n + 2 # 0
      BY <1>0
    <3> QED
      BY <2>1, <3>1, <3>2
  <2>2. CASE x # 0
    <3> DEFINE p == Parent(x)
    <3>1. /\ p \in 0 .. x - 1 /\ p \in 0 .. NumberOfBlocks - 2 /\ p \in Nodes
          /\ x = 2 * p + 1 \/ x = 2 * p + 2
      BY <2>2, NodeFacts
    <3>2. Path[x] = {x} \cup Path[p]
      BY <2>2, PathIs
    <3>3. p \in Path[p]
      BY <3>1, PathIs
    <3> HIDE DEF p
    <3>4. Good(p, n)
      BY <1>1, <3>1
    <3>5. \A m \in Path[p] : m \in Nat /\ m <= p
      BY <1>0, <3>1, PathBelow
    <3>6. x \notin Path[p]
      BY <3>1, <3>5
    <3>7. (n \in Path[x] /\ n # x) <=> n \in Path[p]
      BY <3>2, <3>6
    <3>8. n = p <=> (x = 2 * n + 1 \/ x = 2 * n + 2)
      BY <1>0, <3>1
    <3>9. (n \in Path[x] /\ n # x) <=> (2 * n + 1 \in Path[x] \/ 2 * n + 2 \in Path[x])
      BY <3>2, <3>3, <3>4, <3>7, <3>8
    <3>10. ~(2 * n + 1 \in Path[x] /\ 2 * n + 2 \in Path[x])
      <4>1. x = 2 * n + 1 => 2 * n + 2 \notin Path[p] /\ 2 * n + 2 # x
        BY <1>0, <3>1, <3>5
      <4>2. x = 2 * n + 2 => 2 * n + 1 \notin Path[p] /\ 2 * n + 1 # x
        <5>1. x = 2 * n + 2 => n = p
          BY <3>8
        <5>2. n \in Nat /\ n < 2 * n + 1
          BY <1>0
        <5> QED
          BY <3>5, <5>1, <5>2
      <4> QED
        BY <3>2, <3>4, <4>1, <4>2
    <3> QED
      BY <3>9, <3>10
  <2> QED
    BY <2>1, <2>2
<1> HIDE DEF S
<1>2. \A x \in Nat : x \in S
  BY <1>1, FromLess
<1> QED
  BY <1>0, <1>2 DEF S

(* Numbers at the nodes of which each inner one is the sum of the two      *)
(* below it.                                                               *)
IsTree(f) ==
  /\ f \in [Nodes -> Int]
  /\ \A n \in 0 .. NumberOfBlocks - 2 : f[n] = f[2 * n + 1] + f[2 * n + 2]

(* Adding to a leaf and the nodes above it keeps the sums, and the other   *)
(* leaves.                                                                 *)
LEMMA AddToLeaf ==
  ASSUME NEW f, IsTree(f), NEW i \in 0 .. NumberOfBlocks - 1, NEW add \in Int,
         NEW g, g = [n \in Nodes |-> IF n \in Path[Leaf(i)] THEN f[n] + add ELSE f[n]]
  PROVE  /\ IsTree(g)
         /\ \A j \in 0 .. NumberOfBlocks - 1 :
              g[Leaf(j)] = IF j = i THEN f[Leaf(j)] + add ELSE f[Leaf(j)]
<1> DEFINE x == Leaf(i)
<1>0. NumberOfBlocks \in Nat /\ x \in Nodes /\ x \in Nat /\ x = i + NumberOfBlocks - 1
  BY NodeFacts DEF Leaf, Nodes
<1>1. g \in [Nodes -> Int]
  BY DEF IsTree
<1>2. ASSUME NEW n \in 0 .. NumberOfBlocks - 2 PROVE g[n] = g[2 * n + 1] + g[2 * n + 2]
  <2>1. n \in Nodes /\ 2 * n + 1 \in Nodes /\ 2 * n + 2 \in Nodes
    BY NodeFacts
  <2>2. n # x
    BY <1>0
  <2>3. /\ n \in Path[x] <=> (2 * n + 1 \in Path[x] \/ 2 * n + 2 \in Path[x])
        /\ ~(2 * n + 1 \in Path[x] /\ 2 * n + 2 \in Path[x])
    BY <1>0, <2>2, PathChildren
  <2>4. /\ f[n] = f[2 * n + 1] + f[2 * n + 2]
        /\ f[n] \in Int /\ f[2 * n + 1] \in Int /\ f[2 * n + 2] \in Int
    BY <2>1 DEF IsTree
  <2> HIDE DEF x
  <2> DEFINE G(m) == IF m \in Path[x] THEN f[m] + add ELSE f[m]
  <2>5. g[n] = G(n) /\ g[2 * n + 1] = G(2 * n + 1) /\ g[2 * n + 2] = G(2 * n + 2)
    BY <2>1 DEF x
  <2> QED
    BY <2>3, <2>4, <2>5
<1>3. ASSUME NEW j \in 0 .. NumberOfBlocks - 1
      PROVE  g[Leaf(j)] = IF j = i THEN f[Leaf(j)] + add ELSE f[Leaf(j)]
  <2>1. Leaf(j) \in Nodes /\ Leaf(j) = j + NumberOfBlocks - 1
    BY NodeFacts DEF Leaf
  <2>2. Leaf(j) \in Path[x] <=> j = i
    <3>1. x \in Path[x]
      BY <1>0, PathIs
    <3>2. Leaf(j) \in Path[x] => Leaf(j) = x
      BY <1>0, <2>1, PathBelow
    <3> QED
      BY <1>0, <2>1, <3>1, <3>2
  <2> QED
    BY <2>1, <2>2
<1> QED
  BY <1>1, <1>2, <1>3 DEF IsTree
-----------------------------------------------------------------------------
(* The ones of a block that a client changes.                              *)
LEMMA OnesOfBlock ==
  ASSUME NEW b, NEW from \in Int, NEW to \in Int
  PROVE  IsFiniteSet({k \in from .. to : b[k] = 1}) /\ Ones(b, from, to) \in Nat
<1>1. IsFiniteSet(from .. to)
  BY FS_Interval
<1>2. IsFiniteSet({k \in from .. to : b[k] = 1})
  BY <1>1, FS_Subset
<1> QED
  BY <1>2, FS_CardinalityType DEF Ones

(* Setting a bit of a block adds one to its ones, clearing takes one off,  *)
(* and a bit that stays changes nothing (modify).                          *)
LEMMA OnesModified ==
  ASSUME NEW b \in Block, NEW k \in Bits, NEW val \in {0, 1}
  PROVE  Ones([b EXCEPT ![k] = val], 0, ChunkBits - 1)
           = Ones(b, 0, ChunkBits - 1)
             + IF b[k] = val THEN 0 ELSE IF val = 1 THEN 1 ELSE -1
<1> DEFINE new == [b EXCEPT ![k] = val]
           M == {j \in 0 .. ChunkBits - 1 : new[j] = 1}
           O == {j \in 0 .. ChunkBits - 1 : b[j] = 1}
<1>0. b \in [Bits -> {0, 1}] /\ ChunkBits - 1 \in Int
  BY BlockAssumption, ChunkBitsNat
<1>1. IsFiniteSet(O) /\ Cardinality(O) \in Nat
  <2>0. 0 \in Int
    OBVIOUS
  <2>1. IsFiniteSet(O)
    BY <1>0, <2>0, OnesOfBlock, Zenon
  <2> HIDE DEF O
  <2> QED
    BY <2>1, FS_CardinalityType
<1>2. Ones(new, 0, ChunkBits - 1) = Cardinality(M) /\ Ones(b, 0, ChunkBits - 1) = Cardinality(O)
  BY DEF Ones
<1>3. \A j \in Bits : new[j] = IF j = k THEN val ELSE b[j]
  BY <1>0
<1>4. CASE b[k] = val
  <2>1. M = O
    BY <1>3, <1>4 DEF Bits
  <2> QED
    BY <1>1, <1>2, <1>4, <2>1
<1>5. CASE b[k] # val /\ val = 1
  <2>1. M = O \cup {k} /\ k \notin O
    BY <1>3, <1>5 DEF Bits
  <2> HIDE DEF M, O
  <2>2. Cardinality(M) = Cardinality(O) + 1
    BY <1>1, <2>1, FS_AddElement
  <2> QED
    BY <1>2, <1>5, <2>2
<1>6. CASE b[k] # val /\ val = 0
  <2>0. b[k] = 1
    BY <1>0, <1>6
  <2>1. M = O \ {k} /\ k \in O
    BY <1>3, <1>6, <2>0 DEF Bits
  <2> HIDE DEF M, O
  <2>2. Cardinality(M) = Cardinality(O) - 1
    BY <1>1, <2>1, FS_RemoveElement
  <2> QED
    BY <1>1, <1>2, <1>6, <2>2
<1> QED
  BY <1>4, <1>5, <1>6

(* Writing a word of a block adds the ones of the word, and takes off      *)
(* those of the one it replaces (modifyUint32_t).                          *)
LEMMA OnesOfWord ==
  ASSUME NEW b \in Block, NEW j \in 0 .. ChunkInts - 1, NEW val \in Words
  PROVE  /\ Ones(val, 0, IntBit - 1) \in Nat
         /\ Ones(b, j * IntBit, j * IntBit + IntBit - 1) \in Nat
         /\ Ones([k \in Bits |-> IF k \div IntBit = j THEN val[k % IntBit] ELSE b[k]],
                 0, ChunkBits - 1)
              = Ones(b, 0, ChunkBits - 1)
                + (Ones(val, 0, IntBit - 1) - Ones(b, j * IntBit, j * IntBit + IntBit - 1))
<1> DEFINE from == j * IntBit
           to == j * IntBit + IntBit - 1
           new == [k \in Bits |-> IF k \div IntBit = j THEN val[k % IntBit] ELSE b[k]]
           M == {k \in 0 .. ChunkBits - 1 : new[k] = 1}
           O == {k \in 0 .. ChunkBits - 1 : b[k] = 1}
           W == {k \in from .. to : b[k] = 1}
           V == {k \in 0 .. IntBit - 1 : val[k] = 1}
           X == {k \in from .. to : new[k] = 1}
           f == [k \in V |-> from + k]
<1>0. /\ ChunkBits \in Nat /\ IntBit \in Nat /\ IntBit > 0 /\ j \in Nat /\ ChunkInts \in Nat
      /\ ChunkBits = ChunkInts * IntBit
  BY SizeAssumption, ChunkBitsNat DEF ChunkBits
<1>1. from \in Nat /\ to \in Nat /\ to = from + (IntBit - 1) /\ to <= ChunkBits - 1
  <2>1. (j + 1) * IntBit <= ChunkInts * IntBit /\ (j + 1) * IntBit = j * IntBit + IntBit
        /\ j * IntBit \in Nat
    BY <1>0
  <2> QED
    BY <1>0, <2>1
<1>2. ASSUME NEW k \in Bits PROVE k \div IntBit = j <=> k \in from .. to
  <2>1. k \in Nat
    BY <1>0 DEF Bits
  <2>2. k \div IntBit \in Nat /\ k % IntBit \in 0 .. IntBit - 1
        /\ k = (k \div IntBit) * IntBit + (k % IntBit)
    BY <1>0, <2>1, DivMod
  <2>3. ASSUME k \div IntBit = j PROVE k \in from .. to
    BY <1>0, <1>1, <2>1, <2>2, <2>3
  <2>4. ASSUME k \in from .. to PROVE k \div IntBit = j
    <3>1. k - from \in 0 .. IntBit - 1 /\ j * IntBit + (k - from) = k
      BY <1>0, <1>1, <2>1, <2>4
    <3>2. (j * IntBit + (k - from)) \div IntBit = j
      BY <1>0, <3>1, DivMod
    <3> QED
      BY <3>1, <3>2
  <2> QED
    BY <2>3, <2>4
<1>3. ASSUME NEW k \in 0 .. IntBit - 1 PROVE from + k \in from .. to /\ new[from + k] = val[k]
  <2>1. from + k \in from .. to /\ from + k \in Bits
    BY <1>0, <1>1 DEF Bits
  <2>2. (from + k) % IntBit = k
    BY <1>0, DivMod
  <2> QED
    BY <1>2, <2>1, <2>2
<1>4. \A k \in Bits : k \notin from .. to => new[k] = b[k]
  BY <1>2
<1>5. from .. to \subseteq Bits /\ Bits = 0 .. ChunkBits - 1
  BY <1>0, <1>1 DEF Bits
<1>6. /\ IsFiniteSet(M) /\ IsFiniteSet(O) /\ IsFiniteSet(W) /\ IsFiniteSet(V) /\ IsFiniteSet(X)
      /\ Ones(new, 0, ChunkBits - 1) = Cardinality(M) /\ Ones(b, 0, ChunkBits - 1) = Cardinality(O)
      /\ Ones(b, from, to) = Cardinality(W) /\ Ones(val, 0, IntBit - 1) = Cardinality(V)
  <2>1. /\ ChunkBits - 1 \in Int /\ IntBit - 1 \in Int /\ from \in Int /\ to \in Int
        /\ 0 \in Int
    BY <1>0, <1>1
  <2>2. IsFiniteSet(M) /\ IsFiniteSet(O)
    BY <2>1, OnesOfBlock, Zenon
  <2>3. IsFiniteSet(V)
    BY <2>1, OnesOfBlock, Zenon
  <2>4. IsFiniteSet(W) /\ IsFiniteSet(X)
    <3> HIDE DEF from, to, new
    <3> QED
      BY <2>1, OnesOfBlock
  <2>5. /\ Ones(new, 0, ChunkBits - 1) = Cardinality(M) /\ Ones(b, 0, ChunkBits - 1) = Cardinality(O)
        /\ Ones(b, from, to) = Cardinality(W) /\ Ones(val, 0, IntBit - 1) = Cardinality(V)
    BY DEF Ones
  <2> QED
    BY <2>2, <2>3, <2>4, <2>5
<1>7. f \in Bijection(V, X)
  <2>1. f \in [V -> X]
    BY <1>3
  <2>2. \A k, l \in V : f[k] = f[l] => k = l
    BY <1>1
  <2>3. ASSUME NEW x \in X PROVE \E k \in V : f[k] = x
    <3>1. x - from \in 0 .. IntBit - 1 /\ from + (x - from) = x
      BY <1>0, <1>1
    <3>2. x - from \in V
      BY <1>3, <3>1
    <3> QED
      BY <3>1, <3>2
  <2> HIDE DEF f, V, X
  <2> QED
    BY <2>1, <2>2, <2>3 DEF Bijection, Injection, IsInjective, Surjection
<1>8. W \subseteq O /\ X \subseteq M /\ M \ X = O \ W
  <2>1. W \subseteq O /\ X \subseteq M
    BY <1>5
  <2>2. \A k \in Bits : k \in M \ X <=> k \in O \ W
    BY <1>4, <1>5
  <2> QED
    BY <1>5, <2>1, <2>2
<1> HIDE DEF M, O, W, V, X, f
<1>9. Cardinality(X) = Cardinality(V)
  BY <1>6, <1>7, FS_Bijection DEF ExistsBijection
<1>10. /\ Cardinality(M \ X) = Cardinality(M) - Cardinality(M \cap X)
       /\ Cardinality(O \ W) = Cardinality(O) - Cardinality(O \cap W)
  BY <1>6, FS_Difference
<1>11. M \cap X = X /\ O \cap W = W
  BY <1>8
<1>12. /\ Cardinality(M) \in Nat /\ Cardinality(O) \in Nat /\ Cardinality(W) \in Nat
       /\ Cardinality(V) \in Nat
  BY <1>6, FS_CardinalityType
<1>13. Cardinality(M) = Cardinality(O) + (Cardinality(V) - Cardinality(W))
  <2>1. /\ Cardinality(M \ X) = Cardinality(M) - Cardinality(V)
        /\ Cardinality(O \ W) = Cardinality(O) - Cardinality(W)
    BY <1>9, <1>10, <1>11
  <2>2. Cardinality(M \ X) = Cardinality(O \ W)
    BY <1>8
  <2> QED
    BY <1>12, <2>1, <2>2
<1> QED
  BY <1>6, <1>12, <1>13

(* What the operations of the cache do to the blocks of the vector.        *)
LEMMA ContentStep ==
  ASSUME IInv
  PROVE  /\ \A b \in Block : Push(b) =>
              \A j \in 0 .. counter : Content(j)' = IF j = counter THEN b ELSE Content(j)
         /\ \A i \in Indices, b \in Block : Get(i, b) =>
              \A j \in Indices : Content(j)' = IF j = i THEN b ELSE Content(j)
<1>0. counter = Len(ptrList) /\ counter \in Nat /\ Indices = 0 .. counter - 1
      /\ CacheType /\ CacheInv
  BY CounterNat DEF IInv
<1>1. /\ Blocks \in Seq(Block) /\ Len(Blocks) = counter
      /\ \A j \in 0 .. counter - 1 : Blocks[j + 1] = Content(j)
  <2>1. \A j \in 1 .. counter : Content(j - 1) \in Block
    <3> TAKE j \in 1 .. counter
    <3>1. j - 1 \in Indices
      BY <1>0
    <3> QED
      BY <1>0, <3>1, ContentType
  <2>2. ASSUME NEW j \in 0 .. counter - 1 PROVE Blocks[j + 1] = Content(j)
    <3>1. j + 1 \in 1 .. Len(ptrList) /\ (j + 1) - 1 = j
      BY <1>0
    <3> QED
      BY <3>1 DEF Blocks
  <2> QED
    BY <1>0, <2>1, <2>2 DEF Blocks
<1>2. ASSUME NEW j \in Nat, j < Len(ptrList') PROVE Blocks'[j + 1] = Content(j)'
  <2>1. ASSUME Len(ptrList') \in Nat PROVE Blocks'[j + 1] = Content(j)'
    <3>1. j + 1 \in 1 .. Len(ptrList') /\ (j + 1) - 1 = j
      BY <1>2, <2>1
    <3> QED
      BY <3>1 DEF Blocks
  <2> QED
    BY <1>2, <2>1
<1>3. ASSUME NEW b \in Block, Push(b), NEW j \in 0 .. counter
      PROVE  Content(j)' = IF j = counter THEN b ELSE Content(j)
  <2>1. Len(ptrList') = counter + 1 /\ Blocks' = Append(Blocks, b)
    BY <1>0, <1>3, PushStep
  <2>2. Append(Blocks, b)[j + 1] = IF j = counter THEN b ELSE Content(j)
    <3>1. CASE j = counter
      <4>1. Append(Blocks, b)[Len(Blocks) + 1] = b
        BY <1>1
      <4> QED
        BY <1>1, <3>1, <4>1
    <3>2. CASE j \in 0 .. counter - 1
      <4>1. j + 1 \in 1 .. counter /\ j # counter
        BY <1>0, <3>2
      <4>2. Append(Blocks, b)[j + 1] = Blocks[j + 1]
        BY <1>0, <1>1, <4>1
      <4> QED
        BY <1>1, <3>2, <4>1, <4>2
    <3>3. j = counter \/ j \in 0 .. counter - 1
      BY <1>0
    <3> QED
      BY <3>1, <3>2, <3>3
  <2>3. j \in Nat /\ j < Len(ptrList')
    BY <1>0, <2>1
  <2> QED
    BY <1>2, <2>1, <2>2, <2>3
<1>4. ASSUME NEW i \in Indices, NEW b \in Block, Get(i, b), NEW j \in Indices
      PROVE  Content(j)' = IF j = i THEN b ELSE Content(j)
  <2>1. Len(ptrList') = counter /\ Blocks' = [Blocks EXCEPT ![i + 1] = b]
    BY <1>0, <1>4, GetStep
  <2>2. j \in Nat /\ j < Len(ptrList') /\ j + 1 \in 1 .. counter /\ i \in Nat
    BY <1>0, <2>1
  <2>3. Blocks'[j + 1] = IF j = i THEN b ELSE Blocks[j + 1]
    <3>1. j + 1 \in DOMAIN Blocks /\ (j + 1 = i + 1 <=> j = i)
      BY <1>1, <2>2
    <3> QED
      BY <2>1, <3>1
  <2> QED
    BY <1>0, <1>1, <1>2, <2>2, <2>3
<1> QED
  BY <1>3, <1>4

(* A step that adds to the leaf of a block what the block has gained, and  *)
(* to the nodes above it, keeps the sums (addBlock, modify and             *)
(* modifyUint32_t do).                                                     *)
LEMMA TreeKept ==
  ASSUME TreeInv, NEW i \in 0 .. NumberOfBlocks - 1, NEW add \in Int,
         AddOnes(Leaf(i), add), counter' <= NumberOfBlocks,
         \A j \in 0 .. NumberOfBlocks - 1 :
           OnesOf(j)' = IF j = i THEN OnesOf(j) + add ELSE OnesOf(j)
  PROVE  TreeInv'
<1>1. IsTree(numberOfOnes)
  BY DEF TreeInv, IsTree
<1>2. numberOfOnes' = [n \in Nodes |-> IF n \in Path[Leaf(i)] THEN numberOfOnes[n] + add
                                       ELSE numberOfOnes[n]]
  BY DEF AddOnes
<1>3. /\ IsTree(numberOfOnes')
      /\ \A j \in 0 .. NumberOfBlocks - 1 :
           numberOfOnes'[Leaf(j)] = IF j = i THEN numberOfOnes[Leaf(j)] + add
                                    ELSE numberOfOnes[Leaf(j)]
  BY <1>1, <1>2, AddToLeaf
<1>4. \A j \in 0 .. NumberOfBlocks - 1 : numberOfOnes'[Leaf(j)] = OnesOf(j)'
  BY <1>3 DEF TreeInv
<1> QED
  BY <1>3, <1>4 DEF TreeInv, IsTree

(* The leaf of a block is one of its nodes, and on its own path.           *)
LEMMA LeafOnPath ==
  ASSUME NEW i \in 0 .. NumberOfBlocks - 1
  PROVE  Leaf(i) \in Nodes /\ Leaf(i) \in Path[Leaf(i)]
<1>1. Leaf(i) \in Nodes
  BY NodeFacts
<1> QED
  BY <1>1, PathIs

(* What the client makes of one block it gets changes the ones of that     *)
(* block only.                                                             *)
LEMMA GetOnes ==
  ASSUME IInv, TreeInv, NEW i \in Indices, NEW b \in Block, Get(i, b), counter' = counter
  PROVE  /\ i \in 0 .. NumberOfBlocks - 1 /\ Content(i) \in Block
         /\ Ones(Content(i), 0, ChunkBits - 1) \in Nat
         /\ \A j \in 0 .. NumberOfBlocks - 1 :
              OnesOf(j)' = IF j = i THEN Ones(b, 0, ChunkBits - 1) ELSE OnesOf(j)
         /\ OnesOf(i) = Ones(Content(i), 0, ChunkBits - 1)
<1>0. counter \in Nat /\ counter <= NumberOfBlocks /\ Indices = 0 .. counter - 1
  BY CounterNat DEF TreeInv
<1>1. NumberOfBlocks \in Nat
  BY NodeFacts
<1>2. i \in 0 .. NumberOfBlocks - 1 /\ i < counter
  BY <1>0, <1>1
<1>3. Content(i) \in Block
  BY ContentType DEF IInv
<1>4. Ones(Content(i), 0, ChunkBits - 1) \in Nat
  BY <1>2, BeforeNext DEF OnesOf
<1>5. \A j \in Indices : Content(j)' = IF j = i THEN b ELSE Content(j)
  BY ContentStep
<1>6. ASSUME NEW j \in 0 .. NumberOfBlocks - 1
      PROVE  OnesOf(j)' = IF j = i THEN Ones(b, 0, ChunkBits - 1) ELSE OnesOf(j)
  <2>1. CASE j \in Indices
    <3>1. j < counter /\ j < counter'
      BY <1>0, <2>1
    <3>2. OnesOf(j)' = Ones(Content(j)', 0, ChunkBits - 1)
      BY <3>1 DEF OnesOf, Ones
    <3>3. OnesOf(j) = Ones(Content(j), 0, ChunkBits - 1)
      BY <3>1 DEF OnesOf
    <3>4. Content(j)' = IF j = i THEN b ELSE Content(j)
      BY <1>5, <2>1
    <3> QED
      BY <3>2, <3>3, <3>4
  <2>2. CASE j \notin Indices
    <3>1. ~(j < counter) /\ ~(j < counter') /\ j # i
      BY <1>0, <2>2
    <3> QED
      BY <3>1 DEF OnesOf
  <2> QED
    BY <2>1, <2>2
<1> QED
  BY <1>2, <1>3, <1>4, <1>6 DEF OnesOf

(* addBlock gives the next leaf the ones of the new block.                 *)
LEMMA AddBlockTree ==
  ASSUME IInv, TreeInv, NEW block \in Added, AddBlock(block)
  PROVE  TreeInv'
<1> DEFINE val == Ones(block, 0, ChunkBits - 1)
           x == Leaf(counter)
<1>0. /\ counter \in Nat /\ counter <= NumberOfBlocks /\ NumberOfBlocks \in Nat
      /\ counter < MaxBlocks /\ MaxBlocks \in Nat /\ MaxBlocks <= NumberOfBlocks
      /\ counter' = counter + 1
  BY CounterNat, NodeFacts, SizeAssumption DEF TreeInv, AddBlock
<1>1. counter \in 0 .. NumberOfBlocks - 1 /\ counter' <= NumberOfBlocks
  BY <1>0
<1>2. val \in Nat
  <2>1. 0 \in Int /\ ChunkBits - 1 \in Int
    BY ChunkBitsNat
  <2> QED
    BY <2>1, OnesOfBlock
<1>3. OnesOf(counter) = 0 /\ numberOfOnes[x] = 0
  BY <1>0, <1>1 DEF OnesOf, TreeInv
<1>4. x \in Nodes /\ x \in Path[x]
  BY <1>1, LeafOnPath
<1>5. AddOnes(x, val)
  <2>1. numberOfOnes' = [n \in Nodes |->
          IF n = x THEN val ELSE IF n \in Path[x] THEN numberOfOnes[n] + val
          ELSE numberOfOnes[n]]
    BY DEF AddBlock
  <2>2. numberOfOnes[x] + val = val
    BY <1>2, <1>3
  <2>3. \A n \in Nodes :
          (IF n = x THEN val ELSE IF n \in Path[x] THEN numberOfOnes[n] + val
           ELSE numberOfOnes[n])
          = IF n \in Path[x] THEN numberOfOnes[n] + val ELSE numberOfOnes[n]
    <3> HIDE DEF val, x
    <3> QED
      BY <1>4, <2>2
  <2> HIDE DEF val, x
  <2> QED
    BY <2>1, <2>3 DEF AddOnes
<1>6. \A j \in 0 .. counter : Content(j)' = IF j = counter THEN block ELSE Content(j)
  BY ContentStep, ClientAssumption DEF AddBlock
<1>7. ASSUME NEW j \in 0 .. NumberOfBlocks - 1
      PROVE  OnesOf(j)' = IF j = counter THEN OnesOf(j) + val ELSE OnesOf(j)
  <2>1. CASE j = counter
    <3>1. j \in 0 .. counter /\ j < counter'
      BY <1>0, <2>1
    <3>2. OnesOf(j)' = Ones(Content(j)', 0, ChunkBits - 1)
      BY <3>1 DEF OnesOf, Ones
    <3>3. OnesOf(j)' = val
      BY <1>6, <2>1, <3>1, <3>2
    <3> QED
      BY <1>2, <1>3, <2>1, <3>3
  <2>2. CASE j < counter
    <3>1. j \in 0 .. counter /\ j < counter' /\ j # counter
      BY <1>0, <2>2
    <3>2. OnesOf(j)' = Ones(Content(j)', 0, ChunkBits - 1)
      BY <3>1 DEF OnesOf, Ones
    <3>3. OnesOf(j) = Ones(Content(j), 0, ChunkBits - 1)
      BY <2>2 DEF OnesOf
    <3> QED
      BY <1>6, <3>1, <3>2, <3>3
  <2>3. CASE j > counter
    <3>1. ~(j < counter) /\ ~(j < counter') /\ j # counter
      BY <1>0, <2>3
    <3> QED
      BY <3>1 DEF OnesOf
  <2> QED
    BY <1>0, <2>1, <2>2, <2>3
<1> QED
  <2> HIDE DEF val, x
  <2>1. \A j \in 0 .. NumberOfBlocks - 1 :
          OnesOf(j)' = IF j = counter THEN OnesOf(j) + val ELSE OnesOf(j)
    BY <1>7
  <2>2. AddOnes(Leaf(counter), val)
    BY <1>5 DEF x
  <2>3. val \in Int
    BY <1>2
  <2> QED
    BY <1>1, <2>1, <2>2, <2>3, TreeKept

(* Reading a block changes neither it nor the tree.                        *)
LEMMA ReadTree ==
  ASSUME IInv, TreeInv, NEW i \in Indices, Read(i)
  PROVE  TreeInv'
<1>1. Content(i) \in Block
  BY ContentType DEF IInv
<1>2. Get(i, Content(i)) /\ counter' = counter /\ numberOfOnes' = numberOfOnes
  BY DEF Read
<1>3. /\ \A j \in 0 .. NumberOfBlocks - 1 :
           OnesOf(j)' = IF j = i THEN Ones(Content(i), 0, ChunkBits - 1) ELSE OnesOf(j)
      /\ OnesOf(i) = Ones(Content(i), 0, ChunkBits - 1)
  BY <1>1, <1>2, GetOnes
<1>4. \A j \in 0 .. NumberOfBlocks - 1 : OnesOf(j)' = OnesOf(j)
  BY <1>3
<1> QED
  BY <1>2, <1>4 DEF TreeInv

(* modify adds or takes off one when it changes a bit.                     *)
LEMMA ModifyTree ==
  ASSUME IInv, TreeInv, NEW i \in Indices, NEW k \in Touched, NEW val \in {0, 1},
         Modify(i, k, val)
  PROVE  TreeInv'
<1> DEFINE old == Content(i)
           new == [old EXCEPT ![k] = val]
           add == IF old[k] = val THEN 0 ELSE IF val = 1 THEN 1 ELSE -1
<1>0. k \in Bits /\ new \in Block
  BY ClientAssumption, ClientBlocks DEF IInv
<1>1. Get(i, new) /\ counter' = counter
  BY DEF Modify
<1>2. /\ i \in 0 .. NumberOfBlocks - 1 /\ old \in Block
      /\ Ones(old, 0, ChunkBits - 1) \in Nat
      /\ \A j \in 0 .. NumberOfBlocks - 1 :
           OnesOf(j)' = IF j = i THEN Ones(new, 0, ChunkBits - 1) ELSE OnesOf(j)
      /\ OnesOf(i) = Ones(old, 0, ChunkBits - 1)
  <2> HIDE DEF new
  <2> QED
    BY <1>0, <1>1, GetOnes
<1>3. Ones(new, 0, ChunkBits - 1) = Ones(old, 0, ChunkBits - 1) + add
  BY <1>0, <1>2, OnesModified
<1>4. \A j \in 0 .. NumberOfBlocks - 1 :
        OnesOf(j)' = IF j = i THEN OnesOf(j) + add ELSE OnesOf(j)
  <2> HIDE DEF add, new
  <2> QED
    BY <1>2, <1>3
<1>5. CASE old[k] # val
  <2>1. AddOnes(Leaf(i), add) /\ add \in Int
    BY <1>5 DEF Modify
  <2>2. counter' <= NumberOfBlocks
    BY <1>1 DEF TreeInv
  <2> HIDE DEF add
  <2> QED
    BY <1>2, <1>4, <2>1, <2>2, TreeKept
<1>6. CASE old[k] = val
  <2>1. add = 0 /\ numberOfOnes' = numberOfOnes
    BY <1>6 DEF Modify
  <2>2. \A j \in 0 .. NumberOfBlocks - 1 : OnesOf(j)' = OnesOf(j)
    <3> HIDE DEF add
    <3>1. OnesOf(i) + add = OnesOf(i)
      BY <1>2, <2>1
    <3> QED
      BY <1>4, <3>1
  <2> QED
    BY <1>1, <2>1, <2>2 DEF TreeInv
<1> QED
  BY <1>5, <1>6

(* modifyUint32_t adds the ones of the new word and takes off the old.     *)
LEMMA ModifyUint32Tree ==
  ASSUME IInv, TreeInv, NEW i \in Indices, NEW j \in 0 .. ChunkInts - 1, NEW val \in Words,
         ModifyUint32(i, j, val)
  PROVE  TreeInv'
<1> DEFINE old == Content(i)
           new == [k \in Bits |-> IF k \div IntBit = j THEN val[k % IntBit] ELSE old[k]]
           add == Ones(val, 0, IntBit - 1) - Ones(old, j * IntBit, j * IntBit + IntBit - 1)
<1>0. new \in Block
  BY ClientBlocks DEF IInv
<1>1. Get(i, new) /\ counter' = counter /\ AddOnes(Leaf(i), add)
  BY DEF ModifyUint32
<1>2. /\ i \in 0 .. NumberOfBlocks - 1 /\ old \in Block
      /\ Ones(old, 0, ChunkBits - 1) \in Nat
      /\ \A n \in 0 .. NumberOfBlocks - 1 :
           OnesOf(n)' = IF n = i THEN Ones(new, 0, ChunkBits - 1) ELSE OnesOf(n)
      /\ OnesOf(i) = Ones(old, 0, ChunkBits - 1)
  <2> HIDE DEF new
  <2> QED
    BY <1>0, <1>1, GetOnes
<1>3. /\ add \in Int
      /\ Ones(new, 0, ChunkBits - 1) = Ones(old, 0, ChunkBits - 1) + add
  <2>1. /\ Ones(val, 0, IntBit - 1) \in Nat
        /\ Ones(old, j * IntBit, j * IntBit + IntBit - 1) \in Nat
        /\ Ones(new, 0, ChunkBits - 1) = Ones(old, 0, ChunkBits - 1) + add
    <3> HIDE DEF old
    <3> QED
      BY <1>2, OnesOfWord, Zenon
  <2> QED
    BY <2>1
<1>4. \A n \in 0 .. NumberOfBlocks - 1 :
        OnesOf(n)' = IF n = i THEN OnesOf(n) + add ELSE OnesOf(n)
  <2> HIDE DEF add, new
  <2> QED
    BY <1>2, <1>3
<1>5. counter' <= NumberOfBlocks
  BY <1>1 DEF TreeInv
<1> QED
  <2> HIDE DEF add, new
  <2> QED
    BY <1>1, <1>2, <1>3, <1>4, <1>5, TreeKept

(* No step breaks the sums.                                                *)
LEMMA TreeInductive == IInv /\ TreeInv /\ [Next]_vars => TreeInv'
<1> SUFFICES ASSUME IInv, TreeInv, [Next]_vars
             PROVE  TreeInv'
  OBVIOUS
<1>1. CASE Next
  BY <1>1, AddBlockTree, ReadTree, ModifyTree, ModifyUint32Tree DEF Next
<1>2. CASE UNCHANGED vars
  <2>1. /\ numberOfOnes' = numberOfOnes /\ counter' = counter
        /\ ptrArr' = ptrArr /\ chArr' = chArr /\ ptrList' = ptrList
    BY <1>2 DEF vars, cacheVars
  <2>2. \A j : Content(j)' = Content(j)
    BY <2>1 DEF Content, Cached
  <2>3. \A j : OnesOf(j)' = OnesOf(j)
    BY <2>1, <2>2 DEF OnesOf, Ones
  <2> QED
    BY <2>1, <2>3 DEF TreeInv
<1> QED
  BY <1>1, <1>2

(* The constructor clears the tree of a vector without blocks.             *)
LEMMA TreeInitial == Init => TreeInv
<1> SUFFICES ASSUME Init
             PROVE  TreeInv
  OBVIOUS
<1>1. numberOfOnes = [n \in Nodes |-> 0] /\ counter = 0
  BY DEF Init
<1>2. \A i \in 0 .. NumberOfBlocks - 1 : OnesOf(i) = 0
  BY <1>1 DEF OnesOf
<1>3. \A n \in Nodes : numberOfOnes[n] = 0
  BY <1>1
<1>4. numberOfOnes \in [Nodes -> Int]
  BY <1>1
<1>5. \A n \in 0 .. NumberOfBlocks - 2 :
        numberOfOnes[n] = numberOfOnes[2 * n + 1] + numberOfOnes[2 * n + 2]
  BY <1>3, NodeFacts
<1>6. \A i \in 0 .. NumberOfBlocks - 1 : numberOfOnes[Leaf(i)] = OnesOf(i)
  BY <1>2, <1>3, NodeFacts
<1> QED
  BY <1>1, <1>4, <1>5, <1>6, NodeFacts DEF TreeInv

(* Every node of the segment tree has the ones of the blocks below it, the *)
(* cached and the stored ones.                                             *)
THEOREM Sums == Spec => [](IInv /\ TreeInv)
<1> QED
  BY Initial, Inductive, TreeInitial, TreeInductive, PTL DEF Spec

(* rank counts the ones up to a bit, whatever was added, modified and      *)
(* evicted before.                                                         *)
THEOREM RankCorrect == Spec => []RankRight
<1> QED
  BY Sums, Ranks, PTL

(* select finds the place of every one, and -1 when there are fewer.       *)
THEOREM SelectCorrect == Spec => []SelectRight
<1> QED
  BY Sums, Selects, PTL
-----------------------------------------------------------------------------
Element == [first : Ptrs \cup {nullptr}, second : Buffers]

LruTypes == /\ list \in Seq(Element)
            /\ DOMAIN myMap \subseteq Ptrs /\ myMap \in [DOMAIN myMap -> Buffers]

(* A buffer is in one element only. MapAgrees counts the buffers, and says *)
(* so in that way; for a step it is needed as it stands here.              *)
OneElement == \A j, k \in 1 .. Len(list) : list[j].second = list[k].second => j = k

ListInv == LruTypes /\ OneElement /\ MapAgrees
-----------------------------------------------------------------------------
(* The map leads to the element that has the pointer.                      *)
LEMMA FindIs ==
  ASSUME ListInv, NEW ptr \in DOMAIN myMap
  PROVE  /\ Find(ptr) \in 1 .. Len(list)
         /\ list[Find(ptr)].second = myMap[ptr] /\ list[Find(ptr)].first = ptr
<1>1. PICK k \in 1 .. Len(list) : list[k].first = ptr
  BY DEF ListInv, MapAgrees
<1>2. ptr # nullptr
  BY NullAssumption DEF ListInv, LruTypes
<1>3. list[k].second = myMap[ptr]
  BY <1>1, <1>2 DEF ListInv, MapAgrees
<1>4. Find(ptr) \in 1 .. Len(list) /\ list[Find(ptr)].second = myMap[ptr]
  BY <1>3 DEF Find
<1>5. Find(ptr) = k
  BY <1>3, <1>4 DEF ListInv, OneElement
<1> QED
  BY <1>1, <1>4, <1>5

(* A pointer is in one element only.                                       *)
LEMMA OnePointer ==
  ASSUME ListInv, NEW j \in 1 .. Len(list), NEW k \in 1 .. Len(list),
         list[j].first = list[k].first, list[j].first # nullptr
  PROVE  j = k
<1>1. list[j].second = myMap[list[j].first] /\ list[k].second = myMap[list[k].first]
  BY DEF ListInv, MapAgrees
<1>2. list[j].second = list[k].second
  BY <1>1
<1> QED
  BY <1>2 DEF ListInv, OneElement

(* splice: something takes the place of element f in front, and the        *)
(* elements before f move on.                                              *)
Rest(s, f) == SubSeq(s, 1, f - 1) \o SubSeq(s, f + 1, Len(s))

(* Where each element is then.                                             *)
LEMMA MovedToFront ==
  ASSUME NEW S, NEW s \in Seq(S), NEW f \in 1 .. Len(s), NEW x \in S
  PROVE  LET new == <<x>> \o Rest(s, f)
         IN  /\ new \in Seq(S) /\ Len(new) = Len(s)
             /\ \A i \in 1 .. Len(s) :
                  new[i] = IF i = 1 THEN x ELSE s[IF i <= f THEN i - 1 ELSE i]
<1> DEFINE n == Len(s)
           rest == Rest(s, f)
           new == <<x>> \o rest
<1>1. n \in Nat /\ f \in Nat /\ 1 <= f /\ f <= n
  OBVIOUS
<1>2. rest = SubSeq(s, 1, f - 1) \o SubSeq(s, f + 1, n)
  BY DEF Rest
<1>3. /\ SubSeq(s, 1, f - 1) \in Seq(S) /\ Len(SubSeq(s, 1, f - 1)) = f - 1
      /\ \A i \in 1 .. f - 1 : SubSeq(s, 1, f - 1)[i] = s[i]
  BY <1>1
<1>4. /\ SubSeq(s, f + 1, n) \in Seq(S) /\ Len(SubSeq(s, f + 1, n)) = n - f
      /\ \A i \in 1 .. n - f : SubSeq(s, f + 1, n)[i] = s[f + i]
  BY <1>1
<1>5. /\ rest \in Seq(S) /\ Len(rest) = n - 1
      /\ \A i \in 1 .. n - 1 : rest[i] = IF i < f THEN s[i] ELSE s[i + 1]
  <2> DEFINE a == SubSeq(s, 1, f - 1)
             b == SubSeq(s, f + 1, n)
  <2> HIDE DEF a, b
  <2>1. /\ rest = a \o b /\ a \in Seq(S) /\ b \in Seq(S) /\ Len(a) = f - 1 /\ Len(b) = n - f
        /\ \A i \in 1 .. f - 1 : a[i] = s[i]
        /\ \A i \in 1 .. n - f : b[i] = s[f + i]
    BY <1>2, <1>3, <1>4 DEF a, b
  <2>2. rest \in Seq(S) /\ Len(rest) = n - 1
    <3>1. rest \in Seq(S)
      BY <2>1
    <3>2. rest = a \o b /\ a \in Seq(S) /\ b \in Seq(S)
      BY <2>1
    <3>4. Len(a \o b) = Len(a) + Len(b)
      BY <3>2
    <3> HIDE DEF n
    <3>3. Len(rest) = (f - 1) + (n - f)
      BY <2>1, <3>2, <3>4
    <3> QED
      BY <1>1, <3>1, <3>3
  <2>3. ASSUME NEW i \in 1 .. n - 1, i < f PROVE rest[i] = s[i]
    BY <1>1, <2>1, <2>3
  <2>4. ASSUME NEW i \in 1 .. n - 1, ~(i < f) PROVE rest[i] = s[i + 1]
    <3>1. rest[i] = b[i - (f - 1)]
      BY <1>1, <2>1, <2>4
    <3>2. i - (f - 1) \in 1 .. n - f /\ f + (i - (f - 1)) = i + 1
      BY <1>1, <2>4
    <3> QED
      BY <2>1, <3>1, <3>2
  <2> QED
    BY <2>2, <2>3, <2>4
<1> HIDE DEF rest
<1>6. new \in Seq(S) /\ Len(new) = n /\ new[1] = x
      /\ \A i \in 2 .. n : new[i] = rest[i - 1]
  BY <1>1, <1>5
<1>7. ASSUME NEW i \in 1 .. n
      PROVE  new[i] = IF i = 1 THEN x ELSE s[IF i <= f THEN i - 1 ELSE i]
  <2>1. CASE i = 1
    BY <1>6, <2>1
  <2>2. CASE i # 1
    <3>1. i - 1 \in 1 .. n - 1 /\ new[i] = rest[i - 1] /\ (i - 1 < f <=> i <= f)
          /\ (i - 1) + 1 = i
      <4>1. i \in 2 .. n
        BY <1>1, <2>2
      <4>2. new[i] = rest[i - 1]
        BY <1>6, <4>1
      <4> HIDE DEF n, new
      <4> QED
        BY <1>1, <4>1, <4>2
    <3> QED
      BY <1>5, <2>2, <3>1
  <2> QED
    BY <2>1, <2>2
<1> QED
  BY <1>6, <1>7 DEF rest

(* A sequence with x in front, and element f out of its place.             *)
IsMoved(S, s, f, x, new) ==
  /\ new \in Seq(S) /\ Len(new) = Len(s)
  /\ \A i \in 1 .. Len(s) : new[i] = IF i = 1 THEN x ELSE s[IF i <= f THEN i - 1 ELSE i]

(* MovedToFront in one word.                                               *)
LEMMA Moves ==
  ASSUME NEW S, NEW s \in Seq(S), NEW f \in 1 .. Len(s), NEW x \in S
  PROVE  IsMoved(S, s, f, x, <<x>> \o Rest(s, f))
<1> DEFINE new == <<x>> \o Rest(s, f)
<1>1. /\ new \in Seq(S) /\ Len(new) = Len(s)
      /\ \A i \in 1 .. Len(s) :
           new[i] = IF i = 1 THEN x ELSE s[IF i <= f THEN i - 1 ELSE i]
  BY MovedToFront
<1> HIDE DEF new
<1>2. IsMoved(S, s, f, x, new)
  BY <1>1 DEF IsMoved
<1> QED
  BY <1>2 DEF new

(* Two lists of the same elements have the same pointers and buffers.      *)
Firsts(n, s) == {s[k].first : k \in 1 .. n}
Seconds(n, s) == {s[k].second : k \in 1 .. n}

SameElements(n, s, t) ==
  /\ \A i \in 1 .. n : \E k \in 1 .. n : s[i] = t[k]
  /\ \A k \in 1 .. n : \E i \in 1 .. n : s[i] = t[k]

(* So after a move of elements there are the same ones.                    *)
LEMMA SameFields ==
  ASSUME NEW n, NEW s, NEW t, SameElements(n, s, t)
  PROVE  Firsts(n, s) = Firsts(n, t) /\ Seconds(n, s) = Seconds(n, t)
<1>1. ASSUME NEW x \in {s[k].first : k \in 1 .. n}
      PROVE  x \in {t[k].first : k \in 1 .. n}
  <2>1. PICK i \in 1 .. n : x = s[i].first
    OBVIOUS
  <2>2. PICK k \in 1 .. n : s[i] = t[k]
    BY DEF SameElements
  <2> QED
    BY <2>1, <2>2
<1>2. ASSUME NEW x \in {t[k].first : k \in 1 .. n}
      PROVE  x \in {s[k].first : k \in 1 .. n}
  <2>1. PICK i \in 1 .. n : x = t[i].first
    OBVIOUS
  <2>2. PICK k \in 1 .. n : t[i] = s[k]
    BY DEF SameElements
  <2> QED
    BY <2>1, <2>2
<1>3. ASSUME NEW x \in {s[k].second : k \in 1 .. n}
      PROVE  x \in {t[k].second : k \in 1 .. n}
  <2>1. PICK i \in 1 .. n : x = s[i].second
    OBVIOUS
  <2>2. PICK k \in 1 .. n : s[i] = t[k]
    BY DEF SameElements
  <2> QED
    BY <2>1, <2>2
<1>4. ASSUME NEW x \in {t[k].second : k \in 1 .. n}
      PROVE  x \in {s[k].second : k \in 1 .. n}
  <2>1. PICK i \in 1 .. n : x = t[i].second
    OBVIOUS
  <2>2. PICK k \in 1 .. n : t[i] = s[k]
    BY DEF SameElements
  <2> QED
    BY <2>1, <2>2
<1> QED
  BY <1>1, <1>2, <1>3, <1>4 DEF Firsts, Seconds

(* access only moves an element, and the map still leads to it.            *)
LEMMA AccessKeeps ==
  ASSUME ListInv, NEW ptr \in Ptrs, Access(ptr)
  PROVE  ListInv'
<1> DEFINE f == Find(ptr)
           n == Len(list)
           From(i) == IF i = 1 THEN f ELSE IF i <= f THEN i - 1 ELSE i
<1>1. ptr \in DOMAIN myMap /\ f \in 1 .. n /\ list[f].second = myMap[ptr]
  BY FindIs DEF Access
<1>2. list \in Seq(Element) /\ n \in Nat
  BY DEF ListInv, LruTypes
<1>3. /\ list' \in Seq(Element) /\ Len(list') = n
      /\ \A i \in 1 .. n : list'[i] = list[From(i)]
  <2>1. list' = <<list[f]>> \o Rest(list, f)
    BY DEF Access, Rest, Lists!RemoveAt
  <2>2. list[f] \in Element
    BY <1>1, <1>2
  <2> HIDE DEF f
  <2>3. \A i \in 1 .. n : list'[i] = IF i = 1 THEN list[f] ELSE list[IF i <= f THEN i - 1 ELSE i]
    BY <1>1, <1>2, <2>1, <2>2, MovedToFront
  <2>4. list' \in Seq(Element) /\ Len(list') = n
    BY <1>1, <1>2, <2>1, <2>2, MovedToFront
  <2> QED
    BY <2>3, <2>4
<1>4. myMap' = myMap
  <2>1. myMap' = [myMap EXCEPT ![ptr] = myMap[ptr]]
    BY <1>1 DEF Access
  <2>2. myMap = [p \in DOMAIN myMap |-> myMap[p]]
    BY DEF ListInv, LruTypes
  <2> QED
    BY <2>1, <2>2
<1> HIDE DEF f
<1>5. \A i \in 1 .. n : From(i) \in 1 .. n
  BY <1>1, <1>2
<1>6. \A i, j \in 1 .. n : From(i) = From(j) => i = j
  BY <1>1, <1>2
<1>7. \A k \in 1 .. n : \E i \in 1 .. n : From(i) = k
  <2> TAKE k \in 1 .. n
  <2> DEFINE i == IF k = f THEN 1 ELSE IF k < f THEN k + 1 ELSE k
  <2>1. i \in 1 .. n /\ From(i) = k
    BY <1>1, <1>2
  <2> QED
    BY <2>1
<1> HIDE DEF From
<1>8. LruTypes' /\ OneElement'
  <2>1. LruTypes'
    BY <1>3, <1>4 DEF ListInv, LruTypes
  <2>2. ASSUME NEW i \in 1 .. n, NEW j \in 1 .. n, list'[i].second = list'[j].second
        PROVE  i = j
    <3>1. /\ From(i) \in 1 .. n /\ From(j) \in 1 .. n
          /\ list[From(i)].second = list[From(j)].second
      BY <1>3, <1>5, <2>2
    <3>2. From(i) = From(j)
      BY <3>1 DEF ListInv, OneElement
    <3> QED
      BY <1>6, <3>2
  <2> QED
    BY <1>3, <2>1, <2>2 DEF OneElement
<1>9. /\ {list'[k].first : k \in 1 .. n} = {list[k].first : k \in 1 .. n}
      /\ {list'[k].second : k \in 1 .. n} = {list[k].second : k \in 1 .. n}
  <2>1. SameElements(n, list', list)
    BY <1>3, <1>5, <1>7 DEF SameElements
  <2> HIDE DEF n
  <2>2. Firsts(n, list') = Firsts(n, list) /\ Seconds(n, list') = Seconds(n, list)
    BY <2>1, SameFields
  <2> QED
    BY <2>2 DEF Firsts, Seconds
<1>10. MapAgrees'
  <2>1. DOMAIN myMap' = {list'[k].first : k \in 1 .. n} \ {nullptr}
    BY <1>4, <1>9 DEF ListInv, MapAgrees
  <2>2. \A k \in 1 .. n : list'[k].first # nullptr => myMap'[list'[k].first] = list'[k].second
    BY <1>3, <1>4, <1>5 DEF ListInv, MapAgrees
  <2>3. n = elimNum /\ {list'[k].second : k \in 1 .. n} = Buffers
    BY <1>9 DEF ListInv, MapAgrees
  <2> QED
    BY <1>3, <2>1, <2>2, <2>3 DEF MapAgrees
<1> QED
  BY <1>8, <1>10 DEF ListInv

(* The last element of the list becomes the first, with another pointer.   *)
LEMMA TakesLast ==
  ASSUME NEW S, NEW s \in Seq(S), Len(s) > 0, NEW e \in S
  PROVE  LET new == <<e>> \o Lists!Front(s)
         IN  /\ Lists!Last(s) = s[Len(s)]
             /\ new \in Seq(S) /\ Len(new) = Len(s) /\ new[1] = e
             /\ \A i \in 2 .. Len(s) : new[i] = s[i - 1]
<1> DEFINE n == Len(s)
           front == Lists!Front(s)
<1>1. n \in Nat /\ n > 0
  OBVIOUS
<1>2. Lists!Last(s) = s[n]
  BY DEF Lists!Last
<1>3. front = [i \in 1 .. n - 1 |-> s[i]]
  BY <1>1 DEF Lists!Front
<1>4. front \in Seq(S) /\ Len(front) = n - 1 /\ \A i \in 1 .. n - 1 : front[i] = s[i]
  BY <1>1, <1>3
<1> HIDE DEF front
<1>5. /\ <<e>> \o front \in Seq(S) /\ Len(<<e>> \o front) = n /\ (<<e>> \o front)[1] = e
      /\ \A i \in 2 .. n : (<<e>> \o front)[i] = front[i - 1]
  BY <1>1, <1>4
<1>6. \A i \in 2 .. n : i - 1 \in 1 .. n - 1
  BY <1>1
<1> QED
  BY <1>2, <1>4, <1>5, <1>6 DEF front

(* put gives the buffer of the last element to another pointer, which      *)
(* takes over its key in the map.                                          *)
LEMMA PutKeeps ==
  ASSUME ListInv, NEW ptr \in Ptrs, ptr \notin DOMAIN myMap, Put(ptr)
  PROVE  ListInv'
<1> DEFINE n == Len(list)
           last == list[n]
           element == [first |-> ptr, second |-> last.second]
<1>1. /\ list \in Seq(Element) /\ n = elimNum /\ n \in Nat /\ n > 0 /\ n \in 1 .. n
      /\ DOMAIN myMap \subseteq Ptrs /\ myMap \in [DOMAIN myMap -> Buffers]
      /\ ptr # nullptr
  BY ElimNumAssumption, NullAssumption DEF ListInv, LruTypes, MapAgrees
<1>2. last \in Element /\ element \in Element /\ last.second \in Buffers
  <2>1. last \in Element
    BY <1>1
  <2>2. last.second \in Buffers
    BY <2>1 DEF Element
  <2>3. element \in Element
    BY <2>2 DEF Element
  <2> QED
    BY <2>1, <2>2, <2>3
<1>3. /\ Lists!Last(list) = last
      /\ list' \in Seq(Element) /\ Len(list') = n /\ list'[1] = element
      /\ \A i \in 2 .. n : list'[i] = list[i - 1]
  <2>1. Lists!Last(list) = last
    BY <1>1, <1>2, TakesLast
  <2>2. list' = <<element>> \o Lists!Front(list)
    BY <2>1 DEF Put
  <2> HIDE DEF element
  <2> QED
    BY <1>1, <1>2, <2>1, <2>2, TakesLast
<1>4. myMap' = [p \in (DOMAIN myMap \ {last.first}) \cup {ptr} |->
                  IF p = ptr THEN last.second ELSE myMap[p]]
  BY <1>3 DEF Put
<1>5. element.first = ptr /\ element.second = last.second
  OBVIOUS
<1> HIDE DEF element, last, n
<1>6. LruTypes'
  <2>1. DOMAIN myMap' = (DOMAIN myMap \ {last.first}) \cup {ptr}
    BY <1>4
  <2>2. myMap' \in [DOMAIN myMap' -> Buffers]
    BY <1>1, <1>2, <1>4
  <2> QED
    BY <1>1, <1>3, <2>1, <2>2 DEF LruTypes
(* Element i of the new list has the buffer of element Old(i).             *)
<1> DEFINE Old(i) == IF i = 1 THEN n ELSE i - 1
<1>7. /\ \A i \in 1 .. n : Old(i) \in 1 .. n /\ list'[i].second = list[Old(i)].second
      /\ \A i, j \in 1 .. n : Old(i) = Old(j) => i = j
      /\ \A k \in 1 .. n : \E i \in 1 .. n : Old(i) = k
  <2>1. \A i \in 1 .. n : Old(i) \in 1 .. n
    BY <1>1
  <2>2. \A i \in 1 .. n : list'[i].second = list[Old(i)].second
    BY <1>1, <1>3, <1>5 DEF last
  <2>3. \A i, j \in 1 .. n : Old(i) = Old(j) => i = j
    BY <1>1
  <2>4. ASSUME NEW k \in 1 .. n PROVE \E i \in 1 .. n : Old(i) = k
    <3> DEFINE i == IF k = n THEN 1 ELSE k + 1
    <3>1. i \in 1 .. n /\ Old(i) = k
      BY <1>1
    <3> QED
      BY <3>1
  <2> QED
    BY <2>1, <2>2, <2>3, <2>4
<1> HIDE DEF Old
<1>8. OneElement'
  <2>1. ASSUME NEW j \in 1 .. n, NEW k \in 1 .. n, list'[j].second = list'[k].second
        PROVE  j = k
    <3>1. Old(j) \in 1 .. n /\ Old(k) \in 1 .. n /\ list[Old(j)].second = list[Old(k)].second
      BY <1>7, <2>1
    <3>2. Old(j) = Old(k)
      BY <3>1 DEF ListInv, OneElement, n
    <3> QED
      BY <1>7, <3>2
  <2> QED
    BY <1>3, <2>1 DEF OneElement
<1>9. \A k \in 1 .. n - 1 : /\ k \in 1 .. n /\ k + 1 \in 2 .. n /\ list'[k + 1] = list[k]
                            /\ list[k].first = last.first => list[k].first = nullptr
                            /\ list[k].first # ptr
  <2> SUFFICES ASSUME NEW k \in 1 .. n - 1
               PROVE  /\ k \in 1 .. n /\ k + 1 \in 2 .. n /\ list'[k + 1] = list[k]
                      /\ list[k].first = last.first => list[k].first = nullptr
                      /\ list[k].first # ptr
    OBVIOUS
  <2>1. k \in 1 .. n /\ k + 1 \in 2 .. n /\ k # n /\ (k + 1) - 1 = k
    BY <1>1
  <2>2. list[k].first = last.first => list[k].first = nullptr
    BY <1>1, <2>1, OnePointer DEF last, n
  <2>3. list[k].first # ptr
    BY <1>1, <2>1 DEF ListInv, MapAgrees, n
  <2> QED
    BY <1>3, <2>1, <2>2, <2>3
<1>10. DOMAIN myMap' = {list'[k].first : k \in 1 .. n} \ {nullptr}
  <2>1. DOMAIN myMap' = (DOMAIN myMap \ {last.first}) \cup {ptr}
    BY <1>4
  <2>2. ASSUME NEW x \in DOMAIN myMap'
        PROVE  x \in {list'[k].first : k \in 1 .. n} \ {nullptr}
    <3>1. CASE x = ptr
      <4>1. 1 \in 1 .. n /\ list'[1].first = x
        BY <1>1, <1>3, <1>5, <3>1
      <4> QED
        BY <1>1, <3>1, <4>1
    <3>2. CASE x # ptr
      <4>1. x \in DOMAIN myMap /\ x # last.first /\ x # nullptr
        BY <1>1, <2>1, <3>2, NullAssumption
      <4>2. PICK k \in 1 .. n : list[k].first = x
        BY <4>1 DEF ListInv, MapAgrees, n
      <4>3. k \in 1 .. n - 1
        BY <1>1, <4>1, <4>2 DEF last
      <4>4. k + 1 \in 1 .. n /\ list'[k + 1].first = x
        BY <1>1, <1>9, <4>2, <4>3
      <4> QED
        BY <4>1, <4>4
    <3> QED
      BY <3>1, <3>2
  <2>3. ASSUME NEW k \in 1 .. n, list'[k].first # nullptr
        PROVE  list'[k].first \in DOMAIN myMap'
    <3>1. CASE k = 1
      BY <1>3, <1>5, <2>1, <3>1
    <3>2. CASE k # 1
      <4>1. k - 1 \in 1 .. n - 1 /\ (k - 1) + 1 = k /\ k - 1 \in 1 .. n
        BY <1>1, <3>2
      <4>2. list'[k] = list[k - 1] /\ list[k - 1].first # last.first
        BY <1>9, <2>3, <4>1
      <4>3. list[k - 1].first \in DOMAIN myMap
        BY <2>3, <4>1, <4>2 DEF ListInv, MapAgrees, n
      <4> QED
        BY <2>1, <4>2, <4>3
    <3> QED
      BY <3>1, <3>2
  <2> QED
    BY <2>2, <2>3
<1>11. ASSUME NEW k \in 1 .. n, list'[k].first # nullptr
       PROVE  myMap'[list'[k].first] = list'[k].second
  <2>1. CASE k = 1
    BY <1>3, <1>4, <1>5, <2>1
  <2>2. CASE k # 1
    <3>1. k - 1 \in 1 .. n - 1 /\ (k - 1) + 1 = k /\ k - 1 \in 1 .. n
      BY <1>1, <2>2
    <3>2. list'[k] = list[k - 1] /\ list[k - 1].first # ptr
      BY <1>9, <3>1
    <3>3. myMap[list[k - 1].first] = list[k - 1].second
      BY <1>11, <3>1, <3>2 DEF ListInv, MapAgrees, n
    <3>4. list[k - 1].first \in DOMAIN myMap'
      BY <1>10, <1>11, <3>2
    <3> QED
      BY <1>4, <3>2, <3>3, <3>4
  <2> QED
    BY <2>1, <2>2
<1>12. {list'[k].second : k \in 1 .. n} = Buffers
  <2>1. {list[k].second : k \in 1 .. n} = Buffers
    BY DEF ListInv, MapAgrees, n
  <2>2. \A k \in 1 .. n : list'[k].second \in Buffers
    BY <1>7, <2>1
  <2>3. ASSUME NEW b \in Buffers PROVE \E i \in 1 .. n : list'[i].second = b
    <3>1. PICK k \in 1 .. n : list[k].second = b
      BY <2>1
    <3> QED
      BY <1>7, <3>1
  <2> QED
    BY <2>2, <2>3
<1>13. MapAgrees'
  BY <1>1, <1>3, <1>10, <1>11, <1>12 DEF MapAgrees
<1> QED
  BY <1>6, <1>8, <1>13 DEF ListInv
-----------------------------------------------------------------------------
(* The constructor fills the list with the buffers, and leaves the map     *)
(* empty.                                                                  *)
LEMMA InitIInv == LruInit => ListInv
<1> SUFFICES ASSUME LruInit PROVE ListInv
  OBVIOUS
<1>1. /\ elimNum \in Nat /\ elimNum > 0
      /\ list = [k \in 1 .. elimNum |-> [first |-> nullptr, second |-> k - 1]]
      /\ myMap = [p \in {} |-> 0]
  BY ElimNumAssumption DEF LruInit
<1>2. \A k \in 1 .. elimNum : k - 1 \in Buffers
  BY <1>1 DEF Buffers
<1>3. list \in Seq(Element) /\ Len(list) = elimNum
  BY <1>1, <1>2 DEF Element
<1>4. \A k \in 1 .. elimNum : list[k].first = nullptr /\ list[k].second = k - 1
  BY <1>1
<1>5. DOMAIN myMap = {} /\ myMap \in [{} -> Buffers]
  BY <1>1
<1>6. LruTypes /\ OneElement
  BY <1>1, <1>3, <1>4, <1>5 DEF LruTypes, OneElement
<1>7. {list[k].second : k \in 1 .. elimNum} = Buffers
  <2>1. \A b \in Buffers : b + 1 \in 1 .. elimNum /\ list[b + 1].second = b
    BY <1>1, <1>4 DEF Buffers
  <2> QED
    BY <1>2, <1>4, <2>1
<1>8. {list[k].first : k \in 1 .. elimNum} \ {nullptr} = {}
  BY <1>4
<1> QED
  BY <1>3, <1>4, <1>5, <1>6, <1>7, <1>8 DEF ListInv, MapAgrees

(* No step breaks the agreement.                                           *)
LEMMA NextIInv == ListInv /\ [LruNext]_lruVars => ListInv'
<1> SUFFICES ASSUME ListInv, [LruNext]_lruVars PROVE ListInv'
  OBVIOUS
<1>1. CASE LruNext
  <2>1. PICK ptr \in Ptrs : \/ Reads(ptr)
                            \/ \E v \in Value : Writes(ptr, v) \/ Loads(ptr, v)
    BY <1>1 DEF LruNext
  <2>2. CASE Access(ptr)
    BY <2>2, AccessKeeps
  <2>3. CASE ptr \notin DOMAIN myMap /\ Put(ptr)
    BY <2>3, PutKeeps
  <2> QED
    BY <2>1, <2>2, <2>3 DEF Reads, Writes, Loads
<1>2. CASE UNCHANGED lruVars
  BY <1>2 DEF lruVars, ListInv, LruTypes, OneElement, MapAgrees
<1> QED
  BY <1>1, <1>2

(* No two pointers get the same buffer, none gets a buffer that has been   *)
(* given to another, and none is lost (access and put of CacheProvider).   *)
THEOREM MapCorrect == LruSpec => []MapAgrees
<1>1. ListInv => MapAgrees
  BY DEF ListInv
<1> QED
  BY <1>1, InitIInv, NextIInv, PTL DEF LruSpec
-----------------------------------------------------------------------------
(* To the least-recently-used cache, whose entries are the elements with a *)
(* pointer: they are the first of the list, for put takes the last element *)
(* whether or not it has a pointer.                                        *)
UsedUpTo(m) == \A k \in 1 .. Len(list) : list[k].first # nullptr <=> k <= m

EInv == arr \in [Buffers -> Value] /\ \E m \in 0 .. Len(list) : UsedUpTo(m)

Entry == [key : Ptrs, value : Value]

(* The entries are a sequence.                                             *)
LEMMA EntriesAre ==
  ASSUME ListInv, EInv, NEW m \in 0 .. Len(list), UsedUpTo(m)
  PROVE  /\ Entries = [k \in 1 .. m |-> [key |-> list[k].first, value |-> arr[list[k].second]]]
         /\ Entries \in Seq(Entry) /\ Len(Entries) = m
         /\ \A k \in 1 .. m : /\ k \in 1 .. Len(list)
                              /\ Entries[k] = [key |-> list[k].first,
                                               value |-> arr[list[k].second]]
<1>0. Len(list) \in Nat /\ list \in Seq(Element) /\ m \in Nat /\ m <= Len(list)
  BY DEF ListInv, LruTypes
<1>1. {k \in 1 .. Len(list) : list[k].first # nullptr} = 1 .. m
  BY <1>0 DEF UsedUpTo
<1>2. Entries = [k \in 1 .. m |-> [key |-> list[k].first, value |-> arr[list[k].second]]]
  BY <1>1 DEF Entries
<1>3. ASSUME NEW k \in 1 .. m
      PROVE  [key |-> list[k].first, value |-> arr[list[k].second]] \in Entry
  <2>1. k \in 1 .. Len(list)
    BY <1>0
  <2>2. list[k] \in Element /\ list[k].first # nullptr
    BY <1>0, <2>1 DEF UsedUpTo
  <2>3. list[k].first \in Ptrs /\ list[k].second \in Buffers
    BY <2>2 DEF Element
  <2> QED
    BY <2>3 DEF EInv, Entry
<1>4. Entries \in Seq(Entry) /\ Len(Entries) = m
  BY <1>0, <1>2, <1>3
<1> QED
  BY <1>0, <1>2, <1>4

(* The next entries, from what the step makes of the list.                 *)
LEMMA EntriesNext ==
  ASSUME ListInv', NEW m \in 0 .. Len(list'), UsedUpTo(m)', arr' \in [Buffers -> Value]
  PROVE  /\ EInv'
         /\ Entries' \in Seq(Entry) /\ Len(Entries') = m
         /\ \A k \in 1 .. m : Entries'[k] = [key |-> list'[k].first,
                                             value |-> arr'[list'[k].second]]
<1>0. Len(list') \in Nat /\ list' \in Seq(Element) /\ m \in Nat /\ m <= Len(list')
  BY DEF ListInv, LruTypes
<1>1. {k \in 1 .. Len(list') : list'[k].first # nullptr} = 1 .. m
  BY <1>0 DEF UsedUpTo
<1>2. Entries' = [k \in 1 .. m |-> [key |-> list'[k].first, value |-> arr'[list'[k].second]]]
  BY <1>1 DEF Entries
<1>3. ASSUME NEW k \in 1 .. m
      PROVE  [key |-> list'[k].first, value |-> arr'[list'[k].second]] \in Entry
  <2>1. k \in 1 .. Len(list')
    BY <1>0
  <2>2. list'[k] \in Element /\ list'[k].first # nullptr
    BY <1>0, <2>1 DEF UsedUpTo
  <2>3. list'[k].first \in Ptrs /\ list'[k].second \in Buffers
    BY <2>2 DEF Element
  <2> QED
    BY <2>3 DEF Entry
<1>4. Entries' \in Seq(Entry) /\ Len(Entries') = m
  BY <1>0, <1>2, <1>3
<1> QED
  BY <1>0, <1>2, <1>4 DEF EInv

(* access moves the entry of the pointer to the front, with the value its  *)
(* buffer has then.                                                        *)
LEMMA AccessEntries ==
  ASSUME ListInv, EInv, NEW ptr \in Ptrs, Access(ptr), NEW v \in Value,
         arr' = [arr EXCEPT ![myMap[ptr]] = v]
  PROVE  /\ EInv'
         /\ Find(ptr) \in 1 .. Len(Entries)
         /\ Entries[Find(ptr)].value = arr[myMap[ptr]]
         /\ Entries' = <<[key |-> Entries[Find(ptr)].key, value |-> v]>> \o Rest(Entries, Find(ptr))
<1> DEFINE f == Find(ptr)
           n == Len(list)
           From(i) == IF i <= f THEN i - 1 ELSE i
           e == [key |-> ptr, value |-> v]
           new == <<e>> \o Rest(Entries, f)
<1>0. list \in Seq(Element) /\ n \in Nat
  BY DEF ListInv, LruTypes
<1>1. /\ ptr \in DOMAIN myMap /\ f \in 1 .. n /\ ptr # nullptr
      /\ list[f].second = myMap[ptr] /\ list[f].first = ptr
  BY FindIs, NullAssumption DEF Access
<1>2. PICK m \in 0 .. n : UsedUpTo(m)
  BY DEF EInv
<1>3. f \in 1 .. m /\ m \in Nat
  BY <1>0, <1>1, <1>2 DEF UsedUpTo
<1>4. /\ Entries \in Seq(Entry) /\ Len(Entries) = m
      /\ \A k \in 1 .. m : Entries[k] = [key |-> list[k].first, value |-> arr[list[k].second]]
  BY <1>2, EntriesAre
<1>5. Entries[f].key = ptr /\ Entries[f].value = arr[myMap[ptr]]
  BY <1>1, <1>3, <1>4
<1> HIDE DEF f
<1>6. /\ Len(list') = n /\ list'[1] = list[f]
      /\ \A i \in 2 .. n : list'[i] = list[From(i)] /\ From(i) \in 1 .. n /\ From(i) # f
                           /\ (i <= m <=> From(i) <= m)
  <2>1. list' = <<list[f]>> \o Rest(list, f)
    BY DEF Access, Rest, Lists!RemoveAt, f
  <2>2. list[f] \in Element
    BY <1>0, <1>1
  <2> HIDE DEF new, e
  <2>3. IsMoved(Element, list, f, list[f], list')
    BY <1>0, <1>1, <2>1, <2>2, Moves
  <2>4. /\ Len(list') = n
        /\ \A i \in 1 .. n :
             list'[i] = IF i = 1 THEN list[f] ELSE list[IF i <= f THEN i - 1 ELSE i]
    BY <2>3 DEF IsMoved
  <2>5. \A i \in 2 .. n : /\ From(i) \in 1 .. n /\ From(i) # f /\ i # 1 /\ i \in 1 .. n
                          /\ (i <= m <=> From(i) <= m)
    BY <1>0, <1>1, <1>3
  <2> QED
    BY <1>0, <1>1, <2>4, <2>5 DEF From
<1> HIDE DEF From
<1>7. UsedUpTo(m)' /\ m \in 0 .. Len(list')
  <2>1. ASSUME NEW i \in 1 .. n PROVE list'[i].first # nullptr <=> i <= m
    <3>1. CASE i = 1
      BY <1>1, <1>3, <1>6, <3>1
    <3>2. CASE i # 1
      <4>1. i \in 2 .. n
        BY <1>0, <3>2
      <4> QED
        BY <1>2, <1>6, <4>1 DEF UsedUpTo
    <3> QED
      BY <3>1, <3>2
  <2> QED
    BY <1>6, <2>1 DEF UsedUpTo
<1>8. /\ arr' \in [Buffers -> Value] /\ arr'[list[f].second] = v
      /\ \A k \in 1 .. n : k # f => arr'[list[k].second] = arr[list[k].second]
  <2>1. arr \in [Buffers -> Value] /\ myMap[ptr] \in Buffers
    BY <1>1 DEF EInv, ListInv, LruTypes
  <2>2. \A k \in 1 .. n : list[k].second \in Buffers
    <3>1. \A k \in 1 .. n : list[k] \in Element
      BY <1>0
    <3> QED
      BY <3>1 DEF Element
  <2>3. \A k \in 1 .. n : k # f => list[k].second # myMap[ptr]
    BY <1>1 DEF ListInv, OneElement
  <2> QED
    BY <1>1, <2>1, <2>2, <2>3
<1>9. /\ EInv' /\ Entries' \in Seq(Entry) /\ Len(Entries') = m
      /\ \A k \in 1 .. m : Entries'[k] = [key |-> list'[k].first, value |-> arr'[list'[k].second]]
  BY <1>7, <1>8, AccessKeeps, EntriesNext
<1>10. /\ new \in Seq(Entry) /\ Len(new) = m
       /\ \A i \in 1 .. m : new[i] = IF i = 1 THEN e ELSE Entries[From(i)]
  <2>1. e \in Entry
    BY DEF Entry
  <2> HIDE DEF e
  <2>2. f \in 1 .. Len(Entries)
    BY <1>3, <1>4
  <2>3. /\ new \in Seq(Entry) /\ Len(new) = Len(Entries)
        /\ \A i \in 1 .. Len(Entries) :
             new[i] = IF i = 1 THEN e ELSE Entries[IF i <= f THEN i - 1 ELSE i]
    <3>1. IsMoved(Entry, Entries, f, e, new)
      BY <1>4, <2>1, <2>2, Moves
    <3> QED
      BY <3>1 DEF IsMoved
  <2> HIDE DEF new
  <2> QED
    BY <1>4, <2>3 DEF From
<1> HIDE DEF new
<1>11. \A i \in 1 .. m : Entries'[i] = new[i]
  <2> TAKE i \in 1 .. m
  <2>1. CASE i = 1
    <3>1. list'[i] = list[f]
      BY <1>6, <2>1
    <3> QED
      BY <1>1, <1>8, <1>9, <1>10, <2>1, <3>1
  <2>2. CASE i # 1
    <3>1. i \in 2 .. n /\ i <= m
      BY <1>0, <1>2, <2>2
    <3>2. From(i) \in 1 .. n /\ From(i) \in 1 .. m /\ From(i) # f /\ list'[i] = list[From(i)]
      BY <1>3, <1>6, <3>1
    <3>3. arr'[list[From(i)].second] = arr[list[From(i)].second]
      BY <1>8, <3>2
    <3>4. Entries[From(i)] = [key |-> list[From(i)].first, value |-> arr[list[From(i)].second]]
      BY <1>4, <3>2
    <3>5. Entries'[i] = [key |-> list[From(i)].first, value |-> arr'[list[From(i)].second]]
      BY <1>9, <3>2
    <3> QED
      BY <1>10, <2>2, <3>3, <3>4, <3>5
  <2> QED
    BY <2>1, <2>2
<1>12. Entries' = new
  BY <1>9, <1>10, <1>11, SeqEqual
<1> QED
  BY <1>3, <1>4, <1>5, <1>9, <1>12 DEF new, f

(* put adds an entry in front, and drops the last one if the cache is      *)
(* full.                                                                   *)
LEMMA PutEntries ==
  ASSUME ListInv, EInv, NEW ptr \in Ptrs, ptr \notin DOMAIN myMap, Put(ptr), NEW v \in Value,
         arr' = [arr EXCEPT ![myMap'[ptr]] = v]
  PROVE  EInv' /\ Lru!Put(ptr, v)
<1> DEFINE n == Len(list)
           last == list[n]
           element == [first |-> ptr, second |-> last.second]
           e == [key |-> ptr, value |-> v]
<1>0. /\ list \in Seq(Element) /\ n = elimNum /\ n \in Nat /\ n > 0 /\ n \in 1 .. n
      /\ ptr # nullptr
  BY ElimNumAssumption, NullAssumption DEF ListInv, LruTypes, MapAgrees
<1>1. /\ Len(list') = n /\ list'[1] = element
      /\ \A i \in 2 .. n : list'[i] = list[i - 1]
      /\ myMap'[ptr] = last.second
  <2>1. Lists!Last(list) = last
    BY <1>0 DEF Lists!Last
  <2>2. list' = <<element>> \o Lists!Front(list)
    BY <2>1 DEF Put
  <2>3. myMap'[ptr] = last.second
    BY <2>1 DEF Put
  <2>4. last \in Element
    BY <1>0
  <2>5. element \in Element
    BY <2>4 DEF Element
  <2> HIDE DEF element
  <2> QED
    BY <1>0, <2>2, <2>3, <2>5, TakesLast
<1>2. PICK m \in 0 .. n : UsedUpTo(m)
  BY DEF EInv
<1>3. /\ Entries \in Seq(Entry) /\ Len(Entries) = m
      /\ \A k \in 1 .. m : Entries[k] = [key |-> list[k].first, value |-> arr[list[k].second]]
  BY <1>2, EntriesAre
<1>13. PICK l \in 1 .. n : l = IF m < n THEN m + 1 ELSE m
  BY <1>0
<1>4. l \in 1 .. n /\ l \in Nat /\ m \in Nat /\ l >= 1 /\ l <= n
  BY <1>0
<1>5. UsedUpTo(l)' /\ l \in 0 .. Len(list')
  <2>1. ASSUME NEW i \in 1 .. n PROVE list'[i].first # nullptr <=> i <= l
    <3>1. CASE i = 1
      BY <1>0, <1>1, <1>4, <3>1
    <3>2. CASE i # 1
      <4>1. i \in 2 .. n /\ i - 1 \in 1 .. n /\ (i <= l <=> i - 1 <= m)
        BY <1>0, <1>13, <3>2
      <4>2. list[i - 1].first # nullptr <=> i - 1 <= m
        BY <1>2, <4>1 DEF UsedUpTo
      <4> QED
        BY <1>1, <4>1, <4>2
    <3> QED
      BY <3>1, <3>2
  <2> HIDE DEF element
  <2>2. \A i \in 1 .. Len(list') : list'[i].first # nullptr <=> i <= l
    BY <1>1, <2>1
  <2>3. UsedUpTo(l)'
    BY <2>2 DEF UsedUpTo
  <2> QED
    BY <1>1, <1>4, <2>3
<1>6. /\ arr' \in [Buffers -> Value] /\ arr'[last.second] = v
      /\ \A k \in 1 .. n - 1 : arr'[list[k].second] = arr[list[k].second]
  <2>1. arr \in [Buffers -> Value]
    BY DEF EInv
  <2>2. \A k \in 1 .. n : list[k].second \in Buffers
    <3>1. \A k \in 1 .. n : list[k] \in Element
      BY <1>0
    <3> QED
      BY <3>1 DEF Element
  <2>3. \A k \in 1 .. n - 1 : k \in 1 .. n /\ k # n
    BY <1>0
  <2>4. \A k \in 1 .. n - 1 : list[k].second # last.second
    BY <1>0, <2>3 DEF ListInv, OneElement
  <2> HIDE DEF n
  <2>5. last.second \in Buffers
    BY <1>0, <2>2
  <2>6. arr' = [arr EXCEPT ![last.second] = v]
    BY <1>1
  <2> HIDE DEF last
  <2> QED
    BY <2>1, <2>2, <2>3, <2>4, <2>5, <2>6
<1>7. /\ EInv' /\ Entries' \in Seq(Entry) /\ Len(Entries') = l
      /\ \A k \in 1 .. l : Entries'[k] = [key |-> list'[k].first, value |-> arr'[list'[k].second]]
  <2>1. ListInv'
    BY PutKeeps
  <2> QED
    BY <1>5, <1>6, <2>1, EntriesNext
<1>8. Entries'[1] = e /\ \A i \in 2 .. l : Entries'[i] = Entries[i - 1]
  <2>1. 1 \in 1 .. l
    BY <1>4
  <2>2. Entries'[1] = e
    BY <1>1, <1>6, <1>7, <2>1
  <2>3. ASSUME NEW i \in 2 .. l PROVE Entries'[i] = Entries[i - 1]
    <3>1. i \in 1 .. l /\ i \in 2 .. n /\ i - 1 \in 1 .. m /\ i - 1 \in 1 .. n - 1
      BY <1>0, <1>4, <1>13
    <3>2. Entries[i - 1] = [key |-> list[i - 1].first, value |-> arr[list[i - 1].second]]
      BY <1>3, <3>1
    <3>3. Entries'[i] = [key |-> list[i - 1].first, value |-> arr'[list[i - 1].second]]
      BY <1>1, <1>7, <3>1
    <3> QED
      BY <1>6, <3>1, <3>2, <3>3
  <2> QED
    BY <2>2, <2>3
<1>9. e \in Entry
  BY DEF Entry
<1>10. ptr \notin Lru!Keys
  <2> SUFFICES ASSUME NEW k \in 1 .. m PROVE Entries[k].key # ptr
    BY <1>3 DEF Lru!Keys
  <2>1. k \in 1 .. n /\ list[k].first # nullptr
    BY <1>0, <1>2 DEF UsedUpTo
  <2>2. list[k].first \in DOMAIN myMap
    BY <2>1 DEF ListInv, MapAgrees
  <2> QED
    BY <1>3, <2>2
<1> HIDE DEF e
<1>11. CASE m < n
  <2> DEFINE new == <<e>> \o Entries
  <2>1. new \in Seq(Entry) /\ Len(new) = l
    BY <1>3, <1>9, <1>11, <1>4, <1>13
  <2>2. new[1] = e /\ \A i \in 2 .. l : new[i] = Entries[i - 1]
    BY <1>3, <1>9, <1>11, <1>4, <1>13
  <2> HIDE DEF new
  <2>3. \A i \in 1 .. l : i = 1 \/ i \in 2 .. l
    BY <1>4
  <2>4. Entries' = new
    BY <1>7, <1>8, <2>1, <2>2, <2>3, SeqEqual
  <2> QED
    BY <1>0, <1>3, <1>7, <1>10, <1>11, <2>4 DEF Lru!Put, new, e
<1>12. CASE ~(m < n)
  <2> DEFINE new == <<e>> \o Lists!Front(Entries)
  <2>1. m = n /\ l = n /\ Len(Entries) = n /\ Len(Entries) > 0
    BY <1>0, <1>3, <1>12, <1>13
  <2>2. new \in Seq(Entry) /\ Len(new) = n /\ new[1] = e
        /\ \A i \in 2 .. n : new[i] = Entries[i - 1]
    BY <1>3, <1>9, <2>1, TakesLast
  <2>3. Lists!Front(Entries) = Lru!Seqs!Front(Entries)
    BY DEF Lists!Front, Lru!Seqs!Front
  <2> HIDE DEF new
  <2>4. \A i \in 1 .. n : i = 1 \/ i \in 2 .. n
    BY <1>0
  <2>5. Entries' = new
    BY <1>7, <1>8, <2>1, <2>2, <2>4, SeqEqual
  <2> QED
    BY <1>0, <1>3, <1>7, <1>10, <1>12, <2>3, <2>5 DEF Lru!Put, new, e
<1> QED
  BY <1>11, <1>12

(* A step is one of the least-recently-used cache, and nothing when there  *)
(* is none.                                                                *)
LEMMA StepOfLru ==
  ASSUME ListInv, EInv, [LruNext]_lruVars
  PROVE  EInv' /\ [Lru!Next]_(Entries)
<1>1. ASSUME NEW ptr \in Ptrs, Reads(ptr)
      PROVE  EInv' /\ Lru!Next
  <2> DEFINE v == arr[myMap[ptr]]
             f == Find(ptr)
  <2>1. Access(ptr) /\ arr' = arr /\ ptr \in DOMAIN myMap
    BY <1>1 DEF Reads, Access
  <2>2. arr \in [Buffers -> Value] /\ myMap[ptr] \in Buffers
    BY <2>1 DEF EInv, ListInv, LruTypes
  <2>3. v \in Value /\ arr' = [arr EXCEPT ![myMap[ptr]] = v]
    BY <2>1, <2>2
  <2>4. /\ EInv' /\ f \in 1 .. Len(Entries) /\ Entries[f].value = v
        /\ Entries' = <<[key |-> Entries[f].key, value |-> v]>> \o Rest(Entries, f)
    BY <2>1, <2>3, AccessEntries
  <2>5. Lru!Access(f)
    <3> HIDE DEF v, f
    <3> QED
      BY <2>4 DEF Lru!Access, Lru!Use, Rest, Lru!Seqs!RemoveAt
  <2> QED
    BY <2>4, <2>5 DEF Lru!Next
<1>2. ASSUME NEW ptr \in Ptrs, NEW v \in Value, Writes(ptr, v)
      PROVE  EInv' /\ Lru!Next
  <2> DEFINE f == Find(ptr)
  <2>1. Access(ptr) /\ ptr \in DOMAIN myMap /\ arr' = [arr EXCEPT ![myMap'[ptr]] = v]
    BY <1>2 DEF Writes, Access
  <2>2. myMap'[ptr] = myMap[ptr]
    BY <2>1, FindIs DEF Access
  <2>3. arr' = [arr EXCEPT ![myMap[ptr]] = v]
    BY <2>1, <2>2
  <2>4. /\ EInv' /\ f \in 1 .. Len(Entries)
        /\ Entries' = <<[key |-> Entries[f].key, value |-> v]>> \o Rest(Entries, f)
    BY <2>1, <2>3, AccessEntries
  <2>5. Lru!Write(f, v)
    <3> HIDE DEF f
    <3> QED
      BY <2>4 DEF Lru!Write, Lru!Use, Rest, Lru!Seqs!RemoveAt
  <2> QED
    BY <2>4, <2>5 DEF Lru!Next
<1>3. ASSUME NEW ptr \in Ptrs, NEW v \in Value, Loads(ptr, v)
      PROVE  EInv' /\ Lru!Next
  <2>1. EInv' /\ Lru!Put(ptr, v)
    BY <1>3, PutEntries DEF Loads
  <2> QED
    BY <2>1 DEF Lru!Next
<1>4. CASE UNCHANGED lruVars
  BY <1>4 DEF lruVars, EInv, UsedUpTo, Entries
<1> QED
  BY <1>1, <1>2, <1>3, <1>4 DEF LruNext

(* No buffer is used at first.                                             *)
LEMMA InitEInv == LruInit => EInv /\ Lru!Init
<1> SUFFICES ASSUME LruInit PROVE EInv /\ Lru!Init
  OBVIOUS
<1>1. /\ elimNum \in Nat /\ elimNum > 0 /\ arr \in [Buffers -> Value]
      /\ list = [k \in 1 .. elimNum |-> [first |-> nullptr, second |-> k - 1]]
  BY ElimNumAssumption DEF LruInit
<1>2. Len(list) = elimNum /\ \A k \in 1 .. elimNum : list[k].first = nullptr
  BY <1>1
<1>3. UsedUpTo(0)
  BY <1>1, <1>2 DEF UsedUpTo
<1>4. EInv
  BY <1>1, <1>2, <1>3 DEF EInv
<1>5. Entries \in Seq(Entry) /\ Len(Entries) = 0
  <2>1. ListInv /\ 0 \in 0 .. Len(list)
    BY <1>1, <1>2, InitIInv
  <2> QED
    BY <1>3, <1>4, <2>1, EntriesAre
<1>6. Entries = <<>>
  BY <1>5
<1> QED
  BY <1>4, <1>6 DEF Lru!Init

(* CacheProvider is a least-recently-used cache: what a client reads is    *)
(* what was last written for its pointer, and the entry that put drops is  *)
(* the one accessed longest ago.                                           *)
THEOREM LruCorrect == LruSpec => ImplementsLru
<1>1. ListInv /\ EInv /\ [LruNext]_lruVars => EInv' /\ [Lru!Next]_(Entries)
  BY StepOfLru
<1> QED
  BY <1>1, InitIInv, NextIInv, InitEInv, PTL DEF LruSpec, ImplementsLru, Lru!Spec
-----------------------------------------------------------------------------
(* Arithmetic: a quotient and its rest are unique.                         *)
LEMMA Quotient ==
  ASSUME NEW b \in Nat, b > 0, NEW q \in Nat, NEW r \in Nat, r < b
  PROVE  (q * b + r) \div b = q /\ (q * b + r) % b = r
<1> QED
  OBVIOUS

LEMMA QuotientIs ==
  ASSUME NEW a \in Nat, NEW b \in Nat, b > 0
  PROVE  a \div b \in Nat /\ a % b \in Nat /\ a % b < b /\ a = (a \div b) * b + (a % b)
<1> QED
  OBVIOUS

(* Shifting to the left and back by more.                                  *)
LEMMA ShiftBack ==
  ASSUME NEW a \in Nat, NEW x \in Nat, x > 0, NEW y \in Nat, y > 0
  PROVE  (a * x) \div (x * y) = a \div y
<1> DEFINE q == a \div y
           r == a % y
<1>1. q \in Nat /\ r \in Nat /\ r < y /\ a = q * y + r
  BY QuotientIs
<1> HIDE DEF q, r
<1>2. a * x = q * (x * y) + r * x
  BY <1>1
<1>3. r * x \in Nat /\ r * x < x * y /\ x * y \in Nat /\ x * y > 0
  BY <1>1
<1>4. (q * (x * y) + r * x) \div (x * y) = q
  <2> DEFINE b == x * y
             s == r * x
  <2>1. b \in Nat /\ b > 0 /\ s \in Nat /\ s < b
    BY <1>3
  <2> HIDE DEF b, s
  <2>2. (q * b + s) \div b = q
    BY <1>1, <2>1, Quotient
  <2> QED
    BY <2>2 DEF b, s
<1> QED
  BY <1>2, <1>4 DEF q

(* A number below B in the free lowest digit does not reach the others.    *)
LEMMA LowDigit ==
  ASSUME NEW B \in Nat, B > 0, NEW k \in Nat, NEW h \in Nat, h < B, NEW z \in Nat, z > 0
  PROVE  (k * B + h) \div (B * z) = (k * B) \div (B * z)
<1> DEFINE q == k \div z
           r == k % z
<1>1. q \in Nat /\ r \in Nat /\ r <= z - 1 /\ k = q * z + r
  BY QuotientIs
<1> HIDE DEF q, r
<1>2. k * B + h = q * (B * z) + (r * B + h) /\ k * B = q * (B * z) + r * B
  BY <1>1
<1>3. r * B <= (z - 1) * B /\ (z - 1) * B = B * z - B /\ B * z \in Nat /\ B * z > 0 /\ r * B \in Nat
  BY <1>1
<1>4. (q * (B * z) + (r * B + h)) \div (B * z) = q /\ (q * (B * z) + r * B) \div (B * z) = q
  <2> DEFINE b == B * z
             s == r * B
  <2>1. b \in Nat /\ b > 0 /\ s \in Nat /\ s <= b - B
    BY <1>3
  <2> HIDE DEF b, s
  <2>2. s + h \in Nat /\ s + h < b /\ s < b
    BY <2>1
  <2>3. (q * b + (s + h)) \div b = q /\ (q * b + s) \div b = q
    BY <1>1, <2>1, <2>2, Quotient
  <2> QED
    BY <2>3 DEF b, s
<1> QED
  BY <1>2, <1>4
-----------------------------------------------------------------------------
(* The powers of Nibble.                                                   *)
LEMMA PowerIs ==
  Power = [k \in 0 .. Group |-> IF k = 0 THEN 1 ELSE Nibble * Power[k - 1]]
<1> DEFINE P(f, m) == f = [k \in 0 .. m |-> IF k = 0 THEN 1 ELSE Nibble * f[k - 1]]
           T == {m \in 0 .. Group : \E f : P(f, m)}
<1>0. Group \in Nat
  BY NibbleAssumption
<1>1. 0 \in T
  <2> DEFINE f == [k \in 0 .. 0 |-> 1]
  <2>1. P(f, 0)
    OBVIOUS
  <2> HIDE DEF f
  <2>2. \E h : P(h, 0)
    BY <2>1
  <2>3. 0 \in 0 .. Group
    BY <1>0
  <2> HIDE DEF P
  <2> QED
    BY <2>2, <2>3
<1>2. ASSUME NEW m \in 0 .. Group - 1, m \in T PROVE m + 1 \in T
  <2>1. PICK f : P(f, m)
    BY <1>2
  <2> DEFINE g == [k \in 0 .. m + 1 |-> IF k = m + 1 THEN Nibble * f[m] ELSE f[k]]
  <2>2. ASSUME NEW k \in 0 .. m + 1 PROVE g[k] = IF k = 0 THEN 1 ELSE Nibble * g[k - 1]
    <3>1. CASE k = m + 1
      <4>1. k # 0 /\ k - 1 = m /\ k - 1 \in 0 .. m + 1 /\ k - 1 # m + 1
        BY <1>0, <3>1
      <4> QED
        BY <3>1, <4>1
    <3>2. CASE k # m + 1
      <4>1. k \in 0 .. m /\ (k # 0 => k - 1 \in 0 .. m + 1 /\ k - 1 # m + 1)
        BY <1>0, <3>2
      <4> QED
        BY <2>1, <3>2, <4>1
    <3> QED
      BY <3>1, <3>2
  <2>3. g = [k \in 0 .. m + 1 |-> g[k]]
    OBVIOUS
  <2> HIDE DEF g
  <2>4. P(g, m + 1)
    BY <2>2, <2>3
  <2>5. m + 1 \in 0 .. Group
    BY <1>0
  <2> QED
    BY <2>4, <2>5
<1> HIDE DEF T
<1>3. Group \in T
  BY <1>0, <1>1, <1>2, UpTo
<1>4. \E f : f = [k \in 0 .. Group |-> IF k = 0 THEN 1 ELSE Nibble * f[k - 1]]
  BY <1>3 DEF T
<1> QED
  BY <1>4 DEF Power

LEMMA PowersOfTwo ==
  /\ Group \in Nat /\ Group > 0 /\ Nibble \in Nat /\ Nibble > 1
  /\ Power[0] = 1
  /\ \A k \in 0 .. Group : Power[k] \in Nat /\ Power[k] > 0
  /\ \A k \in 0 .. Group - 1 : Power[k + 1] = Nibble * Power[k]
  /\ Low = Power[Group]
<1>0. Group \in Nat /\ Group > 0 /\ Nibble \in Nat /\ Nibble > 1
  BY NibbleAssumption
<1>1. Power[0] = 1
  BY <1>0, PowerIs
<1>2. ASSUME NEW k \in 0 .. Group - 1 PROVE Power[k + 1] = Nibble * Power[k]
  <2>1. k + 1 \in 0 .. Group /\ k + 1 # 0 /\ (k + 1) - 1 = k
    BY <1>0
  <2> QED
    BY <2>1, PowerIs
<1> DEFINE S == {k \in 0 .. Group : Power[k] \in Nat /\ Power[k] > 0}
<1>3. 0 \in S
  BY <1>0, <1>1
<1>4. ASSUME NEW k \in 0 .. Group - 1, k \in S PROVE k + 1 \in S
  <2>1. k + 1 \in 0 .. Group
    BY <1>0
  <2>2. \A a, b \in Nat : a > 0 /\ b > 0 => a * b \in Nat /\ a * b > 0
    OBVIOUS
  <2> QED
    BY <1>0, <1>2, <1>4, <2>1, <2>2
<1>5. \A k \in 0 .. Group : k \in S
  <2> HIDE DEF S
  <2> QED
    BY <1>0, <1>3, <1>4, UpTo
<1> QED
  BY <1>0, <1>1, <1>2, <1>5 DEF Low

(* PowersOfTwo are multiplied by adding up.                                     *)
LEMMA PowerPlus ==
  ASSUME NEW a \in Nat, NEW b \in Nat, a + b <= Group
  PROVE  Power[a + b] = Power[a] * Power[b]
<1> DEFINE S == {k \in 0 .. b : Power[a + k] = Power[a] * Power[k]}
<1>0. Group \in Nat /\ Nibble \in Nat /\ \A k \in 0 .. Group : Power[k] \in Nat
  BY PowersOfTwo
<1>1. 0 \in S
  <2>1. a \in 0 .. Group /\ a + 0 = a
    BY <1>0
  <2> QED
    BY <1>0, <2>1, PowersOfTwo
<1>2. ASSUME NEW k \in 0 .. b - 1, k \in S PROVE k + 1 \in S
  <2>1. k + 1 \in 0 .. b /\ k \in 0 .. Group - 1 /\ a + k \in 0 .. Group - 1 /\ a \in 0 .. Group
        /\ k \in 0 .. Group /\ a + (k + 1) = (a + k) + 1
    BY <1>0
  <2>2. Power[k + 1] = Nibble * Power[k] /\ Power[a + (k + 1)] = Nibble * Power[a + k]
    BY <2>1, PowersOfTwo
  <2>3. \A x, y, z \in Nat : z * (x * y) = x * (z * y)
    OBVIOUS
  <2>4. Power[a] \in Nat /\ Power[k] \in Nat
    BY <1>0, <2>1
  <2> QED
    BY <1>0, <1>2, <2>1, <2>2, <2>3, <2>4
<1>3. \A k \in 0 .. b : k \in S
  <2> HIDE DEF S
  <2> QED
    BY <1>1, <1>2, UpTo
<1> QED
  BY <1>3
-----------------------------------------------------------------------------
(* The upper part of a word of the block, and the packed words: w has the  *)
(* upper parts of the g words of the block from the group q on.            *)
Upper(m, p) == m[p] \div Low
Digits(w, m, q, g) ==
  /\ w \in Nat /\ w < Power[g]
  /\ \A i \in 0 .. g - 1 : (w \div Power[g - 1 - i]) % Nibble = Upper(m, q * Group + 1 + i)

(* The next upper part is added behind the others.                         *)
LEMMA DigitsExtend ==
  ASSUME NEW m, NEW q \in Nat, NEW g \in 0 .. Group - 1, NEW w, Digits(w, m, q, g),
         NEW h \in 0 .. Nibble - 1, h = Upper(m, q * Group + 1 + g)
  PROVE  Digits(w * Nibble + h, m, q, g + 1)
<1>0. Group \in Nat /\ Nibble \in Nat /\ Nibble > 1 /\ w \in Nat /\ w < Power[g] /\ h < Nibble
      /\ g \in Nat /\ g \in 0 .. Group /\ h \in Nat /\ Power[g] \in Nat
  BY PowersOfTwo DEF Digits
<1>1. w * Nibble + h \in Nat /\ w * Nibble + h < Power[g + 1]
  <2>1. Power[g + 1] = Nibble * Power[g]
    BY PowersOfTwo
  <2>2. w + 1 <= Power[g]
    BY <1>0
  <2>3. \A a, b, c \in Nat : a + 1 <= b => (a * c) + c <= c * b
    <3> TAKE a, b, c \in Nat
    <3> HAVE a + 1 <= b
    <3>1. PICK d \in Nat : b = (a + 1) + d
      <4>1. b - (a + 1) \in Nat /\ b = (a + 1) + (b - (a + 1))
        OBVIOUS
      <4> QED
        BY <4>1
    <3>2. c * b = ((a * c) + c) + (c * d) /\ c * d \in Nat
      BY <3>1
    <3> QED
      BY <3>2
  <2>4. (w * Nibble) + Nibble <= Nibble * Power[g]
    BY <1>0, <2>2, <2>3
  <2> QED
    BY <1>0, <2>1, <2>4
<1>2. ASSUME NEW i \in 0 .. (g + 1) - 1
      PROVE  ((w * Nibble + h) \div Power[(g + 1) - 1 - i]) % Nibble = Upper(m, q * Group + 1 + i)
  <2>1. CASE i = g
    <3>1. (g + 1) - 1 - i = 0
      BY <1>0, <2>1
    <3>2. (w * Nibble + h) \div 1 = w * Nibble + h /\ (w * Nibble + h) % Nibble = h
      <4>1. (w * Nibble + h) % Nibble = h
        BY <1>0, Quotient
      <4> QED
        BY <1>0, <4>1
    <3> QED
      BY <2>1, <3>1, <3>2, PowersOfTwo
  <2>2. CASE i # g
    <3> DEFINE j == g - 1 - i
               z == Power[j]
    <3>1. i \in 0 .. g - 1 /\ j \in 0 .. Group - 1 /\ (g + 1) - 1 - i = j + 1 /\ j \in 0 .. Group
      BY <1>0, <2>2
    <3>2. z \in Nat /\ z > 0 /\ Power[j + 1] = Nibble * z
      BY <3>1, PowersOfTwo
    <3>3. (w \div z) % Nibble = Upper(m, q * Group + 1 + i)
      BY <3>1 DEF Digits
    <3> HIDE DEF j, z
    <3>4. (w * Nibble + h) \div (Nibble * z) = (w * Nibble) \div (Nibble * z)
      BY <1>0, <3>2, LowDigit
    <3>5. (w * Nibble) \div (Nibble * z) = w \div z
      BY <1>0, <3>2, ShiftBack
    <3> QED
      BY <3>1, <3>2, <3>3, <3>4, <3>5
  <2> QED
    BY <2>1, <2>2
<1> QED
  BY <1>1, <1>2 DEF Digits

(* The digits of a short group, shifted to where those of a whole one are. *)
LEMMA DigitsShift ==
  ASSUME NEW m, NEW q \in Nat, NEW g \in 0 .. Group, NEW w, Digits(w, m, q, g)
  PROVE  /\ w * Power[Group - g] \in Nat /\ w * Power[Group - g] < Low
         /\ \A i \in 0 .. g - 1 :
              ((w * Power[Group - g]) \div Power[Group - 1 - i]) % Nibble
                = Upper(m, q * Group + 1 + i)
<1> DEFINE x == Power[Group - g]
<1>0. Group \in Nat /\ Nibble \in Nat /\ Nibble > 1 /\ w \in Nat /\ w < Power[g]
      /\ g \in Nat /\ g \in 0 .. Group /\ Power[g] \in Nat /\ Group - g \in 0 .. Group
      /\ x \in Nat /\ x > 0 /\ Group - g \in Nat /\ Low = Power[Group]
  <2>1. Group \in Nat /\ Nibble \in Nat /\ Nibble > 1 /\ w \in Nat /\ w < Power[g] /\ Low = Power[Group]
    BY PowersOfTwo DEF Digits
  <2>2. g \in Nat /\ g \in 0 .. Group /\ Group - g \in 0 .. Group /\ Group - g \in Nat
    BY <2>1
  <2> QED
    BY <2>1, <2>2, PowersOfTwo
<1>1. Power[Group] = Power[g] * x
  <2>1. g + (Group - g) = Group
    BY <1>0
  <2>2. Power[g + (Group - g)] = Power[g] * Power[Group - g]
    BY <1>0, <2>1, PowerPlus
  <2> QED
    BY <2>1, <2>2
<1>2. ASSUME NEW i \in 0 .. g - 1
      PROVE  (w * x) \div Power[Group - 1 - i] = w \div Power[g - 1 - i]
  <2> DEFINE j == g - 1 - i
             y == Power[j]
  <2>1. j \in Nat /\ j \in 0 .. Group /\ (Group - g) + j = Group - 1 - i /\ (Group - g) + j <= Group
    BY <1>0
  <2>2. y \in Nat /\ y > 0
    BY <2>1, PowersOfTwo
  <2>3. Power[Group - 1 - i] = x * y
    <3>1. Power[(Group - g) + j] = Power[Group - g] * Power[j]
      BY <1>0, <2>1, PowerPlus
    <3> QED
      BY <2>1, <3>1
  <2> HIDE DEF x, j, y
  <2>4. (w * x) \div (x * y) = w \div y
    BY <1>0, <2>2, ShiftBack
  <2> QED
    BY <2>3, <2>4 DEF j, y
<1>3. w * x \in Nat /\ w * x < Power[g] * x
  <2> HIDE DEF x
  <2>1. \A a, b, c \in Nat : a < b /\ c > 0 => a * c \in Nat /\ a * c < b * c
    <3> TAKE a, b, c \in Nat
    <3> HAVE a < b /\ c > 0
    <3>1. PICK d \in Nat : b = (a + 1) + d
      <4>1. b - (a + 1) \in Nat /\ b = (a + 1) + (b - (a + 1))
        OBVIOUS
      <4> QED
        BY <4>1
    <3>2. b * c = ((a * c) + c) + (d * c) /\ d * c \in Nat
      BY <3>1
    <3> QED
      BY <3>2
  <2> QED
    BY <1>0, <2>1
<1> HIDE DEF x
<1>4. /\ w * x \in Nat /\ w * x < Low
      /\ \A i \in 0 .. g - 1 :
           ((w * x) \div Power[Group - 1 - i]) % Nibble = Upper(m, q * Group + 1 + i)
  BY <1>0, <1>1, <1>2, <1>3 DEF Digits
<1> QED
  BY <1>4 DEF x
-----------------------------------------------------------------------------
(* compress: what a block and the room behind it are, and the state of its *)
(* loop after k words.                                                     *)
Room(len) == 1 .. len + ExtraWords(len)
IsCaller(m, len) == /\ m \in [Room(len) -> Nat]
                    /\ \A p \in 1 .. len : m[p] < Nibble * Low

IsRound(s, m, len, k) ==
  /\ s.mem \in [Room(len) -> Nat]
  /\ s.counter \in 0 .. Group - 1
  /\ s.new \in Nat /\ len <= s.new
  /\ k = (s.new - len) * Group + s.counter
  /\ \A p \in 1 .. len : s.mem[p] = IF p <= k THEN m[p] % Low ELSE m[p]
  /\ \A q \in 0 .. s.new - len - 1 : Digits(s.mem[len + 1 + q], m, q, Group)
  /\ \E v : Digits(v, m, s.new - len, s.counter) /\ s.num = v * Nibble

(* There is a further word for every group that has begun.                 *)
LEMMA Extra ==
  ASSUME NEW len \in Nat
  PROVE  /\ ExtraWords(len) \in Nat
         /\ \A q \in Nat : \A c \in 0 .. Group - 1 :
              len = q * Group + c => ExtraWords(len) = IF c > 0 THEN q + 1 ELSE q
<1>0. Group \in Nat /\ Group > 0
  BY PowersOfTwo
<1>1. ExtraWords(len) \in Nat
  <2>1. len + Group - 1 \in Nat
    BY <1>0
  <2> QED
    BY <1>0, <2>1, QuotientIs DEF ExtraWords
<1>2. ASSUME NEW q \in Nat, NEW c \in 0 .. Group - 1, len = q * Group + c
      PROVE  ExtraWords(len) = IF c > 0 THEN q + 1 ELSE q
  <2>1. CASE c > 0
    <3>1. len + Group - 1 = (q + 1) * Group + (c - 1) /\ c - 1 \in Nat /\ c - 1 < Group
          /\ q + 1 \in Nat
      BY <1>0, <1>2, <2>1
    <3> QED
      BY <1>0, <2>1, <3>1, Quotient DEF ExtraWords
  <2>2. CASE c = 0
    <3>1. len + Group - 1 = q * Group + (Group - 1) /\ Group - 1 \in Nat /\ Group - 1 < Group
      BY <1>0, <1>2, <2>2
    <3>2. (q * Group + (Group - 1)) \div Group = q
      BY <1>0, <3>1, Quotient
    <3> QED
      BY <1>0, <2>2, <3>1, <3>2 DEF ExtraWords
  <2> QED
    BY <1>0, <2>1, <2>2
<1> QED
  BY <1>1, <1>2

(* The groups that are full have a further word.                           *)
LEMMA ExtraEnough ==
  ASSUME NEW len \in Nat, NEW q \in Nat, q * Group <= len
  PROVE  q <= ExtraWords(len)
<1> DEFINE E == ExtraWords(len)
           a == len \div Group
           b == len % Group
<1>0. Group \in Nat /\ Group > 0 /\ E \in Nat
  BY PowersOfTwo, Extra
<1>1. a \in Nat /\ b \in Nat /\ b < Group /\ len = a * Group + b /\ b \in 0 .. Group - 1
  BY <1>0, QuotientIs
<1> HIDE DEF a, b
<1>2. E >= a
  BY <1>0, <1>1, Extra
<1>3. a >= q
  <2> SUFFICES ASSUME a + 1 <= q PROVE FALSE
    BY <1>1
  <2>1. PICK d \in Nat : q = (a + 1) + d
    <3>1. q - (a + 1) \in Nat /\ q = (a + 1) + (q - (a + 1))
      BY <1>1
    <3> QED
      BY <3>1
  <2>2. q * Group = ((a * Group) + Group) + (d * Group) /\ d * Group \in Nat
    BY <1>0, <1>1, <2>1
  <2> QED
    BY <1>0, <1>1, <2>2
<1> QED
  BY <1>0, <1>1, <1>2, <1>3

(* A word is made of its lower and its upper part.                         *)
LEMMA LowUpper ==
  ASSUME NEW a \in Nat
  PROVE  /\ Low \in Nat /\ Low > 0
         /\ a % Low \in Nat /\ a % Low < Low
         /\ a \div Low \in Nat
         /\ (a % Low) + ((a \div Low) * Low) = a
         /\ a < Nibble * Low => a \div Low \in 0 .. Nibble - 1
<1>0. Low \in Nat /\ Low > 0 /\ Nibble \in Nat
  BY PowersOfTwo
<1> DEFINE q == a \div Low
           r == a % Low
<1>1. q \in Nat /\ r \in Nat /\ r < Low /\ a = q * Low + r
  BY <1>0, QuotientIs
<1> HIDE DEF q, r
<1>2. a < Nibble * Low => q < Nibble
  <2> SUFFICES ASSUME q >= Nibble PROVE a >= Nibble * Low
    BY <1>0, <1>1
  <2>1. PICK d \in Nat : q = Nibble + d
    <3>1. q - Nibble \in Nat /\ q = Nibble + (q - Nibble)
      BY <1>0, <1>1
    <3> QED
      BY <3>1
  <2>2. a = ((Nibble * Low) + (d * Low)) + r /\ d * Low \in Nat
    BY <1>0, <1>1, <2>1
  <2> QED
    BY <1>0, <1>1, <2>2
<1>3. q * Low + r = r + (q * Low) /\ (a < Nibble * Low => q \in 0 .. Nibble - 1)
  BY <1>0, <1>1, <1>2
<1> QED
  BY <1>0, <1>1, <1>3 DEF q, r

(* The first round.                                                        *)
LEMMA FirstRound ==
  ASSUME NEW len \in Nat, NEW m, IsCaller(m, len)
  PROVE  IsRound([mem |-> m, num |-> 0, counter |-> 0, new |-> len], m, len, 0)
<1> DEFINE s == [mem |-> m, num |-> 0, counter |-> 0, new |-> len]
<1>0. Group \in Nat /\ Group > 0 /\ Nibble \in Nat /\ Power[0] = 1
  BY PowersOfTwo
<1>1. s.mem = m /\ s.num = 0 /\ s.counter = 0 /\ s.new = len /\ len - len = 0
  OBVIOUS
<1> HIDE DEF s
<1>2. Digits(0, m, s.new - len, s.counter) /\ 0 * Nibble = 0
  BY <1>0, <1>1 DEF Digits
<1>3. \E v : Digits(v, m, s.new - len, s.counter) /\ s.num = v * Nibble
  BY <1>1, <1>2
<1>4. s.mem \in [Room(len) -> Nat] /\ s.counter \in 0 .. Group - 1 /\ s.new \in Nat /\ len <= s.new
  BY <1>0, <1>1 DEF IsCaller
<1>5. 0 = (s.new - len) * Group + s.counter
  BY <1>0, <1>1
<1>6. \A p \in 1 .. len : s.mem[p] = IF p <= 0 THEN m[p] % Low ELSE m[p]
  BY <1>1
<1>7. \A q \in 0 .. s.new - len - 1 : Digits(s.mem[len + 1 + q], m, q, Group)
  <2>1. 0 .. s.new - len - 1 = {}
    BY <1>1
  <2> QED
    BY <2>1
<1>8. IsRound(s, m, len, 0)
  BY <1>3, <1>4, <1>5, <1>6, <1>7 DEF IsRound
<1> QED
  BY <1>8 DEF s

(* Each round takes the upper part out of a word and packs it.             *)
LEMMA NextRound ==
  ASSUME NEW len \in Nat, NEW m, IsCaller(m, len), NEW k \in 0 .. len - 1,
         NEW s, IsRound(s, m, len, k)
  PROVE  IsRound(PackRound(s, k + 1), m, len, k + 1)
<1> DEFINE pos == k + 1
           E == ExtraWords(len)
           c == s.counter
           q0 == s.new - len
           h == s.mem[pos] \div Low
           num == s.num + h
           low == [s.mem EXCEPT ![pos] = @ % Low]
           t == PackRound(s, pos)
<1>0. Group \in Nat /\ Group > 0 /\ Nibble \in Nat /\ Nibble > 1 /\ E \in Nat
  BY PowersOfTwo, Extra
<1>1. /\ s.mem \in [Room(len) -> Nat] /\ c \in 0 .. Group - 1 /\ s.new \in Nat /\ len <= s.new
      /\ k = q0 * Group + c
      /\ \A p \in 1 .. len : s.mem[p] = IF p <= k THEN m[p] % Low ELSE m[p]
      /\ \A q \in 0 .. q0 - 1 : Digits(s.mem[len + 1 + q], m, q, Group)
  BY DEF IsRound
<1>2. PICK v : Digits(v, m, q0, c) /\ s.num = v * Nibble
  BY DEF IsRound
<1>3. q0 \in Nat /\ pos \in 1 .. len /\ pos \in Room(len) /\ ~(pos <= k) /\ s.new = len + q0
      /\ pos = q0 * Group + 1 + c
  <2>1. q0 \in Nat /\ s.new = len + q0
    BY <1>1
  <2>2. pos \in 1 .. len /\ ~(pos <= k)
    OBVIOUS
  <2>3. pos \in Room(len)
    BY <1>0, <2>2 DEF Room
  <2>4. pos = q0 * Group + 1 + c
    <3>1. q0 * Group \in Nat /\ c \in Nat
      BY <1>0, <1>1, <2>1
    <3> HIDE DEF q0, c
    <3> QED
      BY <1>1, <3>1
  <2> QED
    BY <2>1, <2>2, <2>3, <2>4
<1>4. s.mem[pos] = m[pos] /\ m[pos] \in Nat /\ m[pos] < Nibble * Low
  BY <1>1, <1>3 DEF IsCaller
<1>5. h \in 0 .. Nibble - 1 /\ h = Upper(m, q0 * Group + 1 + c) /\ m[pos] % Low \in Nat
  BY <1>3, <1>4, LowUpper DEF Upper
<1>6. /\ low \in [Room(len) -> Nat]
      /\ \A p \in 1 .. len : low[p] = IF p <= pos THEN m[p] % Low ELSE m[p]
      /\ \A p \in Room(len) : p > len => low[p] = s.mem[p]
  <2>1. low \in [Room(len) -> Nat] /\ low[pos] = m[pos] % Low
        /\ \A p \in Room(len) : p # pos => low[p] = s.mem[p]
    BY <1>1, <1>3, <1>4, <1>5
  <2> HIDE DEF low
  <2>2. \A p \in 1 .. len : p \in Room(len) /\ (p # pos => (p <= pos <=> p <= k))
    BY <1>0 DEF Room
  <2>3. \A p \in Room(len) : p > len => p # pos
    BY <1>3
  <2> QED
    BY <1>1, <2>1, <2>2, <2>3
<1>7. Digits(num, m, q0, c + 1) /\ num \in Nat
  <2>1. Digits(v * Nibble + h, m, q0, c + 1)
    BY <1>1, <1>2, <1>3, <1>5, DigitsExtend
  <2> QED
    BY <1>2, <2>1 DEF Digits
<1> HIDE DEF h, low, num
<1>8. CASE c + 1 = Group
  <2> DEFINE at == s.new + 1
             all == [low EXCEPT ![at] = num]
  <2>1. t.mem = all /\ t.num = 0 /\ t.counter = 0 /\ t.new = s.new + 1
    BY <1>8 DEF PackRound, num, low, h
  <2> HIDE DEF t
  <2>2. E >= q0 + 1
    <3>1. pos = (q0 + 1) * Group /\ pos <= len
      BY <1>0, <1>1, <1>3, <1>8
    <3> QED
      BY <1>0, <1>3, <3>1, ExtraEnough
  <2>3. at \in Room(len) /\ at > len /\ at = len + 1 + q0
    BY <1>0, <1>3, <2>2 DEF Room
  <2>4. all \in [Room(len) -> Nat] /\ all[at] = num /\ \A p \in Room(len) : p # at => all[p] = low[p]
    BY <1>6, <1>7, <2>3
  <2> HIDE DEF all, at
  <2>5. \A p \in 1 .. len : all[p] = IF p <= pos THEN m[p] % Low ELSE m[p]
    <3>1. \A p \in 1 .. len : p \in Room(len) /\ p # at
      BY <1>0, <2>3 DEF Room
    <3> QED
      BY <1>6, <2>4, <3>1
  <2>6. t.new - len = q0 + 1
    BY <1>3, <2>1
  <2>7. ASSUME NEW q \in 0 .. t.new - len - 1 PROVE Digits(t.mem[len + 1 + q], m, q, Group)
    <3>1. CASE q = q0
      BY <1>7, <1>8, <2>1, <2>3, <2>4, <3>1
    <3>2. CASE q # q0
      <4>1. q \in 0 .. q0 - 1 /\ len + 1 + q \in Room(len) /\ len + 1 + q # at /\ len + 1 + q > len
        BY <1>0, <1>3, <2>2, <2>3, <2>6, <3>2 DEF Room
      <4>2. all[len + 1 + q] = s.mem[len + 1 + q]
        BY <1>6, <2>4, <4>1
      <4> QED
        BY <1>1, <2>1, <4>1, <4>2
    <3> QED
      BY <3>1, <3>2
  <2>8. k + 1 = (t.new - len) * Group + t.counter
    BY <1>0, <1>1, <1>3, <1>8, <2>1, <2>6
  <2>9. Digits(0, m, t.new - len, t.counter) /\ t.num = 0 * Nibble
    BY <1>0, <2>1, PowersOfTwo DEF Digits
  <2>10. t.mem \in [Room(len) -> Nat] /\ t.counter \in 0 .. Group - 1 /\ t.new \in Nat /\ len <= t.new
    BY <1>0, <1>1, <2>1, <2>4
  <2>11. \A p \in 1 .. len : t.mem[p] = IF p <= k + 1 THEN m[p] % Low ELSE m[p]
    BY <2>1, <2>5
  <2>12. IsRound(t, m, len, k + 1)
    BY <2>7, <2>8, <2>9, <2>10, <2>11 DEF IsRound
  <2> QED
    BY <2>12 DEF t
<1>9. CASE c + 1 # Group
  <2>1. t.mem = low /\ t.num = num * Nibble /\ t.counter = c + 1 /\ t.new = s.new
    BY <1>9 DEF PackRound, num, low, h
  <2> HIDE DEF t
  <2>2. t.mem \in [Room(len) -> Nat] /\ t.counter \in 0 .. Group - 1 /\ t.new \in Nat /\ len <= t.new
        /\ t.new - len = q0
    <3>1. c + 1 \in 0 .. Group - 1
      BY <1>0, <1>1, <1>9
    <3>2. t.new - len = q0 /\ t.new \in Nat /\ len <= t.new
      BY <1>1, <2>1
    <3>3. t.mem \in [Room(len) -> Nat]
      BY <1>6, <2>1
    <3> QED
      BY <2>1, <3>1, <3>2, <3>3
  <2>3. k + 1 = (t.new - len) * Group + t.counter
    <3>1. k + 1 = q0 * Group + (c + 1)
      <4>1. q0 * Group \in Nat /\ c \in Nat
        BY <1>0, <1>1, <1>3
      <4> HIDE DEF q0, c
      <4> QED
        BY <1>1, <4>1
    <3> QED
      BY <2>1, <2>2, <3>1
  <2>4. \A p \in 1 .. len : t.mem[p] = IF p <= k + 1 THEN m[p] % Low ELSE m[p]
    BY <1>6, <2>1
  <2>5. Digits(num, m, t.new - len, t.counter) /\ t.num = num * Nibble
    BY <1>7, <2>1, <2>2
  <2>6. ASSUME NEW q \in 0 .. t.new - len - 1 PROVE Digits(t.mem[len + 1 + q], m, q, Group)
    <3>1. E >= q0
      <4>1. q0 * Group <= len
        <5>1. q0 * Group \in Nat /\ c \in Nat
          BY <1>0, <1>1, <1>3
        <5> HIDE DEF q0, c
        <5> QED
          BY <1>1, <5>1
      <4> QED
        BY <1>3, <4>1, ExtraEnough
    <3>2. q \in 0 .. q0 - 1 /\ len + 1 + q \in Room(len) /\ len + 1 + q > len
      <4>1. q \in 0 .. q0 - 1
        BY <2>2
      <4> HIDE DEF q0, E
      <4> QED
        BY <1>0, <1>3, <3>1, <4>1 DEF Room, E
    <3> QED
      BY <1>1, <1>6, <2>1, <3>2
  <2>7. IsRound(t, m, len, k + 1)
    BY <2>2, <2>3, <2>4, <2>5, <2>6 DEF IsRound
  <2> QED
    BY <2>7 DEF t
<1> QED
  BY <1>8, <1>9

(* The rounds exist, and Packed is the last of them.                       *)
LEMMA PackedIs ==
  ASSUME NEW len \in Nat, NEW m, IsCaller(m, len)
  PROVE  IsRound(Packed(m, len), m, len, len)
<1> DEFINE first == [mem |-> m, num |-> 0, counter |-> 0, new |-> len]
           P(f, n) == f = [pos \in 0 .. n |-> IF pos = 0 THEN first ELSE PackRound(f[pos - 1], pos)]
           T == {n \in 0 .. len : \E f : P(f, n)}
           R == CHOOSE f : P(f, len)
<1>1. 0 \in T
  <2> DEFINE f == [pos \in 0 .. 0 |-> first]
  <2> HIDE DEF first
  <2>1. P(f, 0)
    OBVIOUS
  <2> HIDE DEF f
  <2>2. \E h : P(h, 0)
    BY <2>1
  <2>3. 0 \in 0 .. len
    OBVIOUS
  <2> HIDE DEF P
  <2> QED
    BY <2>2, <2>3
<1>2. ASSUME NEW n \in 0 .. len - 1, n \in T PROVE n + 1 \in T
  <2> HIDE DEF first
  <2>1. PICK f : P(f, n)
    BY <1>2
  <2> DEFINE g == [pos \in 0 .. n + 1 |-> IF pos = n + 1 THEN PackRound(f[n], n + 1) ELSE f[pos]]
  <2>2. ASSUME NEW pos \in 0 .. n + 1
        PROVE  g[pos] = IF pos = 0 THEN first ELSE PackRound(g[pos - 1], pos)
    <3>1. CASE pos = n + 1
      <4>1. pos # 0 /\ pos - 1 = n /\ pos - 1 \in 0 .. n + 1 /\ pos - 1 # n + 1
        BY <3>1
      <4>2. g[pos] = PackRound(f[n], n + 1) /\ g[pos - 1] = f[n]
        BY <3>1, <4>1
      <4> QED
        BY <3>1, <4>1, <4>2
    <3>2. CASE pos # n + 1
      <4>1. pos \in 0 .. n /\ (pos # 0 => pos - 1 \in 0 .. n + 1 /\ pos - 1 # n + 1)
        BY <3>2
      <4>2. f[pos] = IF pos = 0 THEN first ELSE PackRound(f[pos - 1], pos)
        BY <2>1, <4>1
      <4>3. g[pos] = f[pos] /\ (pos # 0 => g[pos - 1] = f[pos - 1])
        BY <3>2, <4>1
      <4> HIDE DEF g
      <4> QED
        BY <4>2, <4>3
    <3> QED
      BY <3>1, <3>2
  <2>3. g = [pos \in 0 .. n + 1 |-> g[pos]]
    OBVIOUS
  <2> HIDE DEF g
  <2>4. P(g, n + 1)
    BY <2>2, <2>3
  <2>5. n + 1 \in 0 .. len
    OBVIOUS
  <2>6. \E h : P(h, n + 1)
    BY <2>4
  <2> HIDE DEF P
  <2> QED
    BY <2>5, <2>6
<1>3. len \in T
  <2> HIDE DEF T
  <2> QED
    BY <1>1, <1>2, UpTo
<1>4. P(R, len)
  <2>1. \E f : P(f, len)
    BY <1>3
  <2> HIDE DEF P
  <2> QED
    BY <2>1
<1>5. Packed(m, len) = R[len]
  BY DEF Packed
<1> HIDE DEF R
<1> DEFINE S == {k \in 0 .. len : IsRound(R[k], m, len, k)}
<1>6. 0 \in S
  <2>1. R[0] = first /\ 0 \in 0 .. len
    <3> HIDE DEF first
    <3> QED
      BY <1>4
  <2> QED
    BY <2>1, FirstRound
<1>7. ASSUME NEW k \in 0 .. len - 1, k \in S PROVE k + 1 \in S
  <2> HIDE DEF first
  <2>1. k + 1 \in 0 .. len /\ k + 1 # 0 /\ (k + 1) - 1 = k
    OBVIOUS
  <2>2. R[k + 1] = PackRound(R[k], k + 1)
    BY <1>4, <2>1
  <2>3. IsRound(R[k], m, len, k)
    BY <1>7
  <2>4. IsRound(PackRound(R[k], k + 1), m, len, k + 1)
    BY <2>3, NextRound
  <2> QED
    BY <2>1, <2>2, <2>4
<1>8. len \in S
  <2> HIDE DEF S
  <2> QED
    BY <1>6, <1>7, UpTo
<1> QED
  BY <1>5, <1>8

(* What compress writes: behind the lower parts all upper ones, also those *)
(* of a short group.                                                       *)
LEMMA Compressed ==
  ASSUME NEW len \in Nat, NEW m, IsCaller(m, len)
  PROVE  LET all == Simple9Compress(m, len).mem
         IN  /\ Simple9Compress(m, len).code = EncodeArray(SubSeq(all, 1, len + ExtraWords(len)))
             /\ all \in [Room(len) -> 0 .. Low - 1]
             /\ \A p \in 1 .. len : all[p] = m[p] % Low
             /\ \A q \in Nat, i \in 0 .. Group - 1 :
                  q * Group + 1 + i \in 1 .. len =>
                    (all[len + 1 + q] \div Power[Group - 1 - i]) % Nibble = Upper(m, q * Group + 1 + i)
<1> DEFINE s == Packed(m, len)
           E == ExtraWords(len)
           c == s.counter
           q0 == s.new - len
           x == s.num * Power[Group - 1 - c]
           all == IF c > 0 THEN [s.mem EXCEPT ![s.new + 1] = x] ELSE s.mem
           n == IF c > 0 THEN s.new + 1 ELSE s.new
<1>0. Group \in Nat /\ Group > 0 /\ Nibble \in Nat /\ Nibble > 1 /\ E \in Nat /\ Low \in Nat /\ Low > 0
      /\ Low = Power[Group]
  BY PowersOfTwo, Extra
<1>1. IsRound(s, m, len, len)
  BY PackedIs
<1>2. /\ Simple9Compress(m, len).mem = all
      /\ Simple9Compress(m, len).code = EncodeArray(SubSeq(all, 1, n))
  BY DEF Simple9Compress
<1> HIDE DEF s
<1>3. /\ s.mem \in [Room(len) -> Nat] /\ c \in 0 .. Group - 1 /\ s.new \in Nat /\ len <= s.new
      /\ len = q0 * Group + c
      /\ \A p \in 1 .. len : s.mem[p] = m[p] % Low
      /\ \A q \in 0 .. q0 - 1 : Digits(s.mem[len + 1 + q], m, q, Group)
  BY <1>1 DEF IsRound
<1>4. PICK v : Digits(v, m, q0, c) /\ s.num = v * Nibble
  BY <1>1 DEF IsRound
<1>5. q0 \in Nat /\ s.new = len + q0 /\ E = (IF c > 0 THEN q0 + 1 ELSE q0) /\ n = len + E
  <2>1. q0 \in Nat /\ s.new = len + q0
    BY <1>3
  <2>2. E = (IF c > 0 THEN q0 + 1 ELSE q0)
    <3> HIDE DEF q0, c
    <3> QED
      BY <1>3, <2>1, Extra
  <2> QED
    BY <1>3, <2>1, <2>2
<1>6. x = v * Power[Group - c] /\ v \in Nat
  <2>1. Group - 1 - c \in 0 .. Group - 1 /\ (Group - 1 - c) + 1 = Group - c /\ Group - 1 - c \in 0 .. Group
    BY <1>0, <1>3
  <2>2. Power[Group - c] = Nibble * Power[Group - 1 - c] /\ Power[Group - 1 - c] \in Nat
    BY <2>1, PowersOfTwo
  <2>3. \A a, b, d \in Nat : (a * b) * d = a * (b * d)
    OBVIOUS
  <2>4. v \in Nat
    BY <1>4 DEF Digits
  <2> QED
    BY <1>0, <1>4, <2>2, <2>3, <2>4
<1>7. /\ x \in 0 .. Low - 1
      /\ \A i \in 0 .. c - 1 : (x \div Power[Group - 1 - i]) % Nibble = Upper(m, q0 * Group + 1 + i)
  <2>1. c \in 0 .. Group
    BY <1>0, <1>3
  <2> HIDE DEF x, q0, c
  <2>2. /\ x \in Nat /\ x < Low
        /\ \A i \in 0 .. c - 1 : (x \div Power[Group - 1 - i]) % Nibble = Upper(m, q0 * Group + 1 + i)
    <3>1. Digits(v, m, q0, c) /\ q0 \in Nat
      BY <1>4, <1>5
    <3> QED
      BY <1>6, <2>1, <3>1, DigitsShift
  <2> QED
    BY <1>0, <2>2
<1>8. \A q \in 0 .. q0 - 1 : s.mem[len + 1 + q] \in 0 .. Low - 1
  BY <1>0, <1>3 DEF Digits
<1> HIDE DEF x
<1>9. /\ c > 0 => all[len + 1 + q0] = x
      /\ \A p \in Room(len) : ~(c > 0 /\ p = len + 1 + q0) => all[p] = s.mem[p]
      /\ all \in [Room(len) -> Nat]
  <2>1. CASE c > 0
    <3>1. s.new + 1 = len + 1 + q0 /\ s.new + 1 \in Room(len)
      BY <1>0, <1>5, <2>1 DEF Room
    <3>2. x \in Nat
      BY <1>0, <1>7
    <3> HIDE DEF q0
    <3> QED
      BY <1>3, <2>1, <3>1, <3>2
  <2>2. CASE ~(c > 0)
    BY <1>3, <2>2
  <2> QED
    BY <2>1, <2>2
<1> HIDE DEF all
<1>10. \A p \in 1 .. len : all[p] = m[p] % Low /\ all[p] \in 0 .. Low - 1
  <2> TAKE p \in 1 .. len
  <2>1. p \in Room(len) /\ p # len + 1 + q0
    BY <1>0, <1>5 DEF Room
  <2>2. m[p] \in Nat
    BY <2>1 DEF IsCaller
  <2> QED
    BY <1>0, <1>3, <1>9, <2>1, <2>2, LowUpper
<1>11. all \in [Room(len) -> 0 .. Low - 1]
  <2>1. ASSUME NEW p \in Room(len) PROVE all[p] \in 0 .. Low - 1
    <3>1. CASE p <= len
      <4>1. p \in 1 .. len
        BY <3>1 DEF Room
      <4> QED
        BY <1>10, <4>1
    <3>2. CASE p > len /\ c > 0 /\ p = len + 1 + q0
      BY <1>7, <1>9, <3>2
    <3>3. CASE p > len /\ ~(c > 0 /\ p = len + 1 + q0)
      <4> DEFINE q == p - len - 1
      <4>1. q \in 0 .. q0 - 1 /\ p = len + 1 + q
        BY <1>0, <1>5, <3>3 DEF Room
      <4> QED
        BY <1>8, <1>9, <3>3, <4>1
    <3>4. p \in Nat
      BY <1>0 DEF Room
    <3> QED
      BY <3>1, <3>2, <3>3, <3>4
  <2> QED
    BY <1>9, <2>1
<1>12. ASSUME NEW q \in Nat, NEW i \in 0 .. Group - 1, q * Group + 1 + i \in 1 .. len
       PROVE  (all[len + 1 + q] \div Power[Group - 1 - i]) % Nibble = Upper(m, q * Group + 1 + i)
  <2>1. q <= q0 /\ (q = q0 => i \in 0 .. c - 1 /\ c > 0)
    <3>1. CASE q >= q0 + 1
      <4>1. PICK d \in Nat : q = (q0 + 1) + d
        <5>1. q - (q0 + 1) \in Nat /\ q = (q0 + 1) + (q - (q0 + 1))
          BY <1>5, <3>1
        <5> QED
          BY <5>1
      <4>2. q * Group = ((q0 * Group) + Group) + (d * Group) /\ d * Group \in Nat /\ q0 * Group \in Nat
        BY <1>0, <1>5, <4>1
      <4>3. FALSE
        <5> HIDE DEF q0
        <5> QED
          BY <1>0, <1>3, <1>12, <4>2
      <4> QED
        BY <4>3
    <3>2. CASE q = q0
      <4>1. q0 * Group \in Nat /\ i \in Nat
        BY <1>0, <1>5
      <4> HIDE DEF q0, c
      <4>2. i < c
        BY <1>0, <1>3, <1>12, <3>2, <4>1
      <4> QED
        BY <1>0, <1>3, <1>5, <3>2, <4>1, <4>2
    <3> QED
      BY <1>5, <3>1, <3>2
  <2>2. CASE q = q0
    <3> HIDE DEF q0
    <3> QED
      BY <1>7, <1>9, <2>1, <2>2
  <2>3. CASE q # q0
    <3>1. q \in 0 .. q0 - 1 /\ len + 1 + q \in Room(len) /\ len + 1 + q # len + 1 + q0
      BY <1>0, <1>5, <2>1, <2>3 DEF Room
    <3> HIDE DEF q0
    <3> QED
      BY <1>3, <1>9, <3>1 DEF Digits
  <2> QED
    BY <2>2, <2>3
<1> QED
  BY <1>2, <1>5, <1>10, <1>11, <1>12

(* A block with room behind it is what compress works on.                  *)
LEMMA CallerIs ==
  ASSUME NEW len \in Nat, NEW block \in [1 .. len -> Word]
  PROVE  LET m == block \o [k \in 1 .. ExtraWords(len) |-> 0]
         IN  IsCaller(m, len) /\ \A p \in 1 .. len : m[p] = block[p]
<1> DEFINE E == ExtraWords(len)
           zeros == [k \in 1 .. E |-> 0]
           m == block \o zeros
<1>0. E \in Nat /\ Nibble * Low \in Nat
  <2>1. Nibble \in Nat /\ Low \in Nat
    BY PowersOfTwo, LowUpper
  <2> QED
    BY <2>1, Extra
<1>1. \A p \in 1 .. len : block[p] \in Nat /\ block[p] < Nibble * Low
  <2> DEFINE b == Nibble * Low
  <2>1. b \in Nat /\ Word \subseteq 0 .. b - 1
    BY <1>0, WordAssumption
  <2>2. \A p \in 1 .. len : block[p] \in Word
    OBVIOUS
  <2> HIDE DEF b
  <2>3. \A w \in 0 .. b - 1 : w \in Nat /\ w < b
    BY <2>1
  <2>4. \A p \in 1 .. len : block[p] \in Nat /\ block[p] < b
    BY <2>1, <2>2, <2>3
  <2> QED
    BY <2>4 DEF b
<1> HIDE DEF E
<1>2. block \in Seq(Nat) /\ Len(block) = len
  <2>1. block \in [1 .. len -> Nat]
    BY <1>1
  <2> QED
    BY <2>1, IsASeq, LenProperties
<1>3. zeros \in Seq(Nat) /\ Len(zeros) = E /\ \A k \in 1 .. E : zeros[k] = 0
  <2>1. zeros \in [1 .. E -> Nat]
    OBVIOUS
  <2> QED
    BY <1>0, <2>1, IsASeq, LenProperties
<1> HIDE DEF zeros
<1>4. m \in Seq(Nat) /\ Len(m) = len + E /\ \A p \in 1 .. len : m[p] = block[p]
  <2>1. m \in Seq(Nat) /\ Len(m) = Len(block) + Len(zeros)
        /\ \A p \in 1 .. Len(block) + Len(zeros) :
             m[p] = IF p <= Len(block) THEN block[p] ELSE zeros[p - Len(block)]
    BY <1>2, <1>3, ConcatProperties
  <2> HIDE DEF m
  <2>2. \A p \in 1 .. len : p \in 1 .. Len(block) + Len(zeros) /\ p <= Len(block)
    BY <1>0, <1>2, <1>3
  <2> QED
    BY <1>2, <1>3, <2>1, <2>2
<1> HIDE DEF m
<1>5. m \in [1 .. len + E -> Nat]
  BY <1>4, LenProperties
<1>6. IsCaller(m, len) /\ \A p \in 1 .. len : m[p] = block[p]
  BY <1>1, <1>4, <1>5 DEF IsCaller, Room, E
<1> QED
  BY <1>6 DEF m, zeros, E

(* The whole of a sequence.                                                *)
LEMMA Whole ==
  ASSUME NEW S, NEW n \in Nat, NEW s \in [1 .. n -> S]
  PROVE  SubSeq(s, 1, n) = s /\ s \in Seq(S) /\ Len(s) = n
<1>1. s \in Seq(S) /\ Len(s) = n
  BY IsASeq, LenProperties
<1>2. SubSeq(s, 1, n) = s
  BY <1>1
<1> QED
  BY <1>1, <1>2

(* decompress returns the block that compress was given.                   *)
LEMMA Simple9Restores ==
  ASSUME NEW len \in Nat, NEW block \in [1 .. len -> Word]
  PROVE  LET code == Simple9Compress(block \o [k \in 1 .. ExtraWords(len) |-> 0], len).code
         IN  code \in Seq(Nat) /\ Simple9Decompress(code, len) = block
<1> DEFINE E == ExtraWords(len)
           m == block \o [k \in 1 .. E |-> 0]
           all == Simple9Compress(m, len).mem
           code == Simple9Compress(m, len).code
           M == len + E
<1>1. IsCaller(m, len) /\ \A p \in 1 .. len : m[p] = block[p]
  BY CallerIs
<1> HIDE DEF m
<1>2. /\ code = EncodeArray(SubSeq(all, 1, M))
      /\ all \in [Room(len) -> 0 .. Low - 1]
      /\ \A p \in 1 .. len : all[p] = m[p] % Low
      /\ \A q \in Nat, i \in 0 .. Group - 1 :
           q * Group + 1 + i \in 1 .. len =>
             (all[len + 1 + q] \div Power[Group - 1 - i]) % Nibble = Upper(m, q * Group + 1 + i)
  BY <1>1, Compressed
<1> HIDE DEF all, code
<1>3. M \in Nat /\ Room(len) = 1 .. M /\ Low \in Nat /\ Low > 0 /\ Group \in Nat /\ Group > 0
      /\ Nibble \in Nat /\ 1 .. len \subseteq Room(len)
  <2>1. E \in Nat
    BY Extra
  <2>2. Low \in Nat /\ Low > 0
    BY LowUpper
  <2> QED
    BY <2>1, <2>2, PowersOfTwo DEF Room
<1> HIDE DEF M
<1>4. SubSeq(all, 1, M) = all /\ all \in Seq(0 .. Low - 1) /\ Len(all) = M
  BY <1>2, <1>3, Whole
<1>5. code = all
  <2>1. \A k \in 1 .. M : all[k] % Low = all[k]
    <3>1. \A a \in 0 .. Low - 1 : a % Low = a
      <4> TAKE a \in 0 .. Low - 1
      <4>1. a \in Nat /\ a < Low /\ 0 * Low + a = a
        BY <1>3
      <4>2. (0 * Low + a) % Low = a
        BY <1>3, <4>1, Quotient
      <4> QED
        BY <4>1, <4>2
    <3> QED
      BY <1>2, <1>3, <3>1
  <2>2. code = [k \in 1 .. M |-> all[k] % Low]
    BY <1>2, <1>4 DEF EncodeArray
  <2>3. all = [k \in 1 .. M |-> all[k]]
    BY <1>2, <1>3
  <2> QED
    BY <2>1, <2>2, <2>3
<1>6. DecodeArray(code, M) = all
  BY <1>4, <1>5 DEF DecodeArray
<1>7. Simple9Decompress(code, len)
        = [pos \in 1 .. len |->
             all[pos] + ((all[len + 1 + (pos - 1) \div Group]
                            \div Power[Group - 1 - ((pos - 1) % Group)]) % Nibble) * Low]
  BY <1>6 DEF Simple9Decompress, M
<1>8. ASSUME NEW pos \in 1 .. len
      PROVE  all[pos] + ((all[len + 1 + (pos - 1) \div Group]
                            \div Power[Group - 1 - ((pos - 1) % Group)]) % Nibble) * Low = block[pos]
  <2> DEFINE q == (pos - 1) \div Group
             i == (pos - 1) % Group
  <2>1. q \in Nat /\ i \in Nat /\ i < Group /\ pos - 1 = q * Group + i
    <3>1. pos - 1 \in Nat
      OBVIOUS
    <3> QED
      BY <1>3, <3>1, QuotientIs
  <2> HIDE DEF q, i
  <2>2. q * Group + 1 + i = pos /\ i \in 0 .. Group - 1
    <3>1. q * Group \in Nat
      BY <1>3, <2>1
    <3> QED
      BY <1>3, <2>1, <3>1
  <2>3. (all[len + 1 + q] \div Power[Group - 1 - i]) % Nibble = Upper(m, pos)
    BY <1>2, <2>1, <2>2
  <2>4. all[pos] = m[pos] % Low /\ m[pos] = block[pos] /\ m[pos] \in Nat
    BY <1>1, <1>2, <1>3 DEF IsCaller
  <2>5. (m[pos] % Low) + (Upper(m, pos) * Low) = m[pos]
    BY <2>4, LowUpper DEF Upper
  <2>6. all[pos] + ((all[len + 1 + q] \div Power[Group - 1 - i]) % Nibble) * Low = block[pos]
    BY <2>3, <2>4, <2>5
  <2> QED
    BY <2>6 DEF q, i
<1>9. Simple9Decompress(code, len) = block
  <2>1. block = [pos \in 1 .. len |-> block[pos]]
    OBVIOUS
  <2> QED
    BY <1>7, <1>8, <2>1
<1>10. code \in Seq(Nat)
  <2>1. all \in [1 .. M -> Nat]
    BY <1>2, <1>3
  <2> QED
    BY <1>3, <1>5, <2>1, Whole
<1> QED
  BY <1>9, <1>10 DEF code, m
-----------------------------------------------------------------------------
(* Both compressors restore a block.                                       *)
CompressorOk == compressor \in {"nocomp", "simple9"}

LEMMA Restores ==
  ASSUME CompressorOk, NEW block \in [1 .. chunkSize -> Word]
  PROVE  LET result == CompressBy(block \o [k \in 1 .. ExtraWords(chunkSize) |-> 0])
         IN  result.code \in Seq(Nat) /\ DecompressBy(result.code) = block
<1> DEFINE m == block \o [k \in 1 .. ExtraWords(chunkSize) |-> 0]
<1>0. chunkSize \in Nat
  BY ChunkAssumption
<1>1. CASE compressor = "simple9"
  BY <1>0, <1>1, Simple9Restores DEF CompressBy, DecompressBy
<1>2. CASE compressor = "nocomp"
  <2>1. IsCaller(m, chunkSize) /\ \A p \in 1 .. chunkSize : m[p] = block[p]
    BY <1>0, CallerIs
  <2> HIDE DEF m
  <2> DEFINE code == SubSeq(m, 1, chunkSize)
             E == ExtraWords(chunkSize)
  <2>2. CompressBy(m) = [mem |-> m, code |-> code]
    BY <1>2 DEF CompressBy
  <2>3. E \in Nat /\ m \in [1 .. chunkSize + E -> Nat]
    BY <1>0, <2>1, Extra DEF IsCaller, Room
  <2> HIDE DEF E
  <2>4. m \in Seq(Nat) /\ Len(m) = chunkSize + E
    BY <1>0, <2>3, Whole
  <2>5. code \in [1 .. chunkSize -> Nat] /\ \A p \in 1 .. chunkSize : code[p] = m[p]
    <3>1. code = [p \in 1 .. chunkSize |-> m[p]]
      BY <1>0, <2>4
    <3>2. \A p \in 1 .. chunkSize : p \in 1 .. chunkSize + E
      BY <1>0, <2>3
    <3> QED
      BY <2>3, <3>1, <3>2
  <2> HIDE DEF code
  <2>6. code = block
    <3>1. block = [p \in 1 .. chunkSize |-> block[p]] /\ code = [p \in 1 .. chunkSize |-> code[p]]
      BY <2>5
    <3> QED
      BY <2>1, <2>5, <3>1
  <2>7. SubSeq(code, 1, chunkSize) = code /\ code \in Seq(Nat)
    BY <1>0, <2>5, Whole
  <2>8. DecompressBy(code) = block
    BY <1>2, <2>6, <2>7 DEF DecompressBy
  <2>9. CompressBy(m).code \in Seq(Nat) /\ DecompressBy(CompressBy(m).code) = block
    BY <2>2, <2>7, <2>8
  <2> QED
    BY <2>9 DEF m
<1> QED
  BY <1>1, <1>2 DEF CompressorOk

ArrayInv == CompressorOk /\ stored \in Seq(Seq(Nat))

LEMMA ArrayInitInv == ArrayInit => ArrayInv
<1> QED
  BY DEF ArrayInit, ArrayInv, CompressorOk

(* One step of addBlock.                                                   *)
LEMMA AddStep ==
  ASSUME ArrayInv, NEW block \in [1 .. chunkSize -> Word], AddCompressedBlock(block)
  PROVE  ArrayInv' /\ Contents' = Append(Contents, block)
<1> DEFINE result == CompressBy(block \o [k \in 1 .. ExtraWords(chunkSize) |-> 0])
           code == result.code
<1>1. code \in Seq(Nat) /\ DecompressBy(code) = block
  BY Restores DEF ArrayInv
<1>2. buffer' = code /\ stored' = Append(stored, code) /\ compressor' = compressor
  BY DEF AddCompressedBlock
<1> HIDE DEF code
<1>3. \A c : DecompressBy(c)' = DecompressBy(c)
  BY <1>2 DEF DecompressBy
<1>4. stored \in Seq(Seq(Nat))
  BY DEF ArrayInv
<1>5. Len(stored') = Len(stored) + 1 /\ stored'[Len(stored) + 1] = code
      /\ \A k \in 1 .. Len(stored) : stored'[k] = stored[k]
  BY <1>1, <1>2, <1>4, AppendProperties
<1>6. ArrayInv'
  BY <1>1, <1>2, <1>4, AppendProperties DEF ArrayInv, CompressorOk
<1>7. Contents' = [k \in 1 .. Len(stored) + 1 |-> DecompressBy(stored'[k])]
  BY <1>3, <1>5 DEF Contents
<1>8. \A k \in 1 .. Len(stored) + 1 :
        DecompressBy(stored'[k]) = IF k = Len(stored) + 1 THEN block ELSE DecompressBy(stored[k])
  <2> TAKE k \in 1 .. Len(stored) + 1
  <2>1. Len(stored) \in Nat
    BY <1>4, LenProperties
  <2>2. k # Len(stored) + 1 => k \in 1 .. Len(stored)
    BY <2>1
  <2> QED
    BY <1>1, <1>5, <2>2
<1>9. Append(Contents, block)
        = [k \in 1 .. Len(stored) + 1 |-> IF k = Len(stored) + 1 THEN block ELSE DecompressBy(stored[k])]
  <2> DEFINE n == Len(stored)
             S == {DecompressBy(stored[k]) : k \in 1 .. n} \cup {block}
             s == Append(Contents, block)
  <2>1. n \in Nat
    BY <1>4, LenProperties
  <2>2. Contents \in [1 .. n -> S] /\ \A k \in 1 .. n : Contents[k] = DecompressBy(stored[k])
    BY DEF Contents
  <2>7. block \in S
    OBVIOUS
  <2> HIDE DEF n, S
  <2>3. Contents \in Seq(S) /\ Len(Contents) = n
    BY <2>1, <2>2, Whole
  <2>4. s = [k \in 1 .. n + 1 |-> IF k = n + 1 THEN block ELSE Contents[k]]
    <3>1. s \in Seq(S) /\ Len(s) = n + 1 /\ s[n + 1] = block
          /\ \A k \in 1 .. n : s[k] = Contents[k]
      BY <2>3, <2>7, AppendProperties
    <3> HIDE DEF s
    <3>2. s \in [1 .. n + 1 -> S]
      BY <3>1, LenProperties
    <3>3. \A k \in 1 .. n + 1 : s[k] = IF k = n + 1 THEN block ELSE Contents[k]
      BY <2>1, <3>1
    <3>4. s = [k \in 1 .. n + 1 |-> s[k]]
      BY <3>2
    <3> QED
      BY <3>3, <3>4
  <2>5. \A k \in 1 .. n + 1 : (IF k = n + 1 THEN block ELSE Contents[k])
                                 = IF k = n + 1 THEN block ELSE DecompressBy(stored[k])
    BY <2>1, <2>2
  <2> HIDE DEF s
  <2>6. s
          = [k \in 1 .. n + 1 |-> IF k = n + 1 THEN block ELSE DecompressBy(stored[k])]
    BY <2>4, <2>5
  <2> QED
    BY <2>6 DEF n, s
<1>10. Contents' = Append(Contents, block)
  BY <1>7, <1>8, <1>9
<1> QED
  BY <1>2, <1>6, <1>10

LEMMA ArrayInvNext == ArrayInv /\ [ArrayNext]_arrayVars => ArrayInv'
<1> SUFFICES ASSUME ArrayInv, [ArrayNext]_arrayVars PROVE ArrayInv'
  OBVIOUS
<1>1. CASE \E block \in [1 .. chunkSize -> Word] : AddCompressedBlock(block)
  BY <1>1, AddStep
<1>2. CASE \E pos \in 0 .. MaxArray - 1 : AccessBlock(pos)
  BY <1>2 DEF AccessBlock, ArrayInv, CompressorOk
<1>3. CASE UNCHANGED arrayVars
  BY <1>3 DEF arrayVars, ArrayInv, CompressorOk
<1> QED
  BY <1>1, <1>2, <1>3 DEF ArrayNext

(* addBlock stores the block it is given, however it is compressed.        *)
THEOREM StoresBlockCorrect == ArraySpec => StoresBlock
<1>1. ASSUME ArrayInv, [ArrayNext]_arrayVars
      PROVE  \A block \in [1 .. chunkSize -> Word] :
               AddCompressedBlock(block) => Contents' = Append(Contents, block)
  BY <1>1, AddStep
<1> QED
  BY <1>1, ArrayInitInv, ArrayInvNext, PTL DEF ArraySpec, StoresBlock
=============================================================================
