# A verification of the bit vector library

The library under `src/memorymanager/` stores bit vectors in compressed blocks: a
memory manager packs the blocks, a cache holds a few of them uncompressed, and a tree
or an array finds the block of a bit. It is sequential C++ templates, driven by tests
and by the experiments that keep graphs in bit vectors. Nothing is persisted and no
two threads run, so what is hard is not interleaving but *duplicated state*: a block's
position is kept in the tree, in shifts pending above it and in the cache; its words in
the cache and in memory; its ones in the block, in its node and in all the sums above
it. Every operation has to keep the copies in step, and a mistake shows many operations
later. The invariants here relate the copies, the refinements say that a client sees
none of this, and the theorems say so for all sizes.

## Inventory

| component | state | operations | depends on |
|---|---|---|---|
| `MemoryManager.cc`, `MemoryPool.cc` | chunks with their block length and `space`, pointers with chunk and `pos`, `ptrVec`, head chunk per length, pool of empty chunks | `create`, `fill`, `load`, `remove` | - |
| `AdvancedMemoryManager.cc` | per length a list of chunks and one of pointers, newest first; blocks may be split over two chunks | `create`, `fill`, `load`, `access`, `remove` | - |
| `SimpleMemoryManager.cc` | a counter | `malloc` and `free` | - |
| `datastructures/SimpleCache.cc` | N buffers, the block in each, stored blocks | `push`, `get` | a memory manager, a compressor |
| `datastructures/DynamicBitVector.cc` | segment tree of ones, number of blocks | `addBlock`, `access`, `accessUint32_t`, `modify`, `modifyUint32_t`, `rank`, `select` | SimpleCache |
| `datastructures/FlexibleCache.cc` | N slots: node, start bit, tree, words | `push`, `get`, `getObjectByIndex`, `updateStartPos`, `loadIntoBuffer`, `magic`, `deletePointer` | a memory manager, a compressor, the nodes |
| `avl/FlexibleAVLTree.cc`, `avl/FlexibleAVLNode.cc` | AVL tree by bit position, shifts pending in `addPos`, ones in `numOnes` and `mysize` | `insert`, `deleteElem`, `find`, `updatePath2`, `rank`, `select` | FlexibleCache (`magic`, `deletePointer`) |
| `datastructures/FlexibleBitVector.cc`, `MemoryProvider.cc` | tree and size; cache and memory shared by vectors | `addBlock`, `insertUint32_t`, `insertBlock`, `deleteUint32_t`, `modify`, `modifyUint32_t`, `access`, `accessUint32_t`, `rank`, `select` | the two above |
| `datastructures/BlockBitVector.cc`, `avl/BlockAVLTree.cc` | blocks in a tree by position | `addBlock`, `access`, `modify`, `rank`, `select` | MemoryManager |
| `SetBitVector.cc` with `AVLTree.cpp`, `AdvancedSetBitVector.cc` with `AdvancedAVLTree.cpp` | places of the ones, or words, in a tree | the same | - |
| `datastructures/CacheProvider.cc` | buffers in a list by recency, a map | `access`, `put` | - |
| `CompressedArray.cc` | stored blocks, one buffer | `addBlock`, `accessBlock` | AdvancedMemoryManager |
| `compression/` | - | `compress`, `decompress`, `getMaxOutBuffer` | external libraries, but for `Simple9Compressor` and `NoCompressor` |
| `experiment_stackexchange*.cc` | a graph: bags of edges of 64 vertices each in one vector of words, or lists of edges; the state of the search | load a graph line by line, extract its connected components | FlexibleBitVector, or `std::vector` |
| `experiment_time.cc`, `multiphase*/`, `functions/` | - | random calls, times and sizes | everything |

What makes each of them correct, and where it is hard:

- **MemoryManager**: a pointer leads to the bytes written through it, although `remove`
  moves another client's block. No overlap, no lost chunk, at most one chunk per length
  with room.
- **AdvancedMemoryManager**: the same with blocks cut at chunk boundaries and copied in
  pieces; the i-th block of a length is at byte (i-1)*len.
- **SimpleCache / DynamicBitVector**: a block changed in its buffer reaches memory when
  it is evicted; the segment tree agrees with the words wherever they are.
- **FlexibleAVLTree**: the shifts pending in the tree misplace no block, the sums are
  exact, whatever rotations and deletions have done.
- **SetBitVector, AdvancedSetBitVector, BlockBitVector**: the same bits and the same
  answers from three trees, and every stored block owned by one node.
- **FlexibleCache / FlexibleBitVector**: slots know where their blocks start, also after
  insertions elsewhere, splits, merges and the moves of blocks between nodes that a
  deletion with two children makes; vectors that share a cache do not disturb each other.
- **CacheProvider**: the map of iterators and the list tell of the same buffers, and the
  least recently used one is evicted. **CompressedArray**: a block comes back as it was
  added, though `Simple9Compressor` takes its numbers apart in place.
- **The graph programs**: the words of a group are shifted by every insertion and are
  found again by adding up the lengths before them, so that the graph in the bags stays
  the graph that was read; the search ends and its result is the connected components.

## Modules

| module | models | kind |
|---|---|---|
| `BlockStore` | what a memory manager promises | abstract |
| `MemoryManager`, `MemoryManager_proofs` | `MemoryManager.cc`, `MemoryPool.cc` | detailed, implements BlockStore; proofs |
| `AdvancedMemoryManager`, `AdvancedMemoryManager_proofs` | `AdvancedMemoryManager.cc` | detailed, implements BlockStore; proofs |
| `BlockArray`, `BitArray` | an array of blocks, of bits | abstract |
| `SimpleCache` | `SimpleCache.cc` | operations on cache and memory |
| `DynamicBitVector` | `DynamicBitVector.cc` on SimpleCache | detailed, implements BlockArray |
| `AVLTree` | `AVLTree.cpp`, and what its two copies share with it | functions (recursive functions) |
| `AdvancedAVLTree`, `BlockAVLTree` | the walks of `AdvancedAVLTree.cpp` and `BlockAVLTree.cc` | functions (recursive functions) |
| `TreeBitVectors`, `TreeBitVectors_proofs` | `SetBitVector.cc`, `AdvancedSetBitVector.cc`, `BlockBitVector.cc` under the same calls | detailed, implements BitArray; proofs |
| `FlexibleAVLTree` | the tree, as functions on nested records | functions (recursive functions) |
| `BlockSequence` | what the tree promises | abstract |
| `BlockIndex`, `BlockIndex_proofs` | the tree under the calls of FlexibleBitVector, without words or cache | detailed, implements BlockSequence; proofs |
| `FlexibleCache` | `FlexibleCache.cc`, as functions on slots and trees | functions |
| `WordSequence` | what a bit vector promises | abstract |
| `FlexibleBitVector` | `FlexibleBitVector.cc` with tree and cache | detailed, implements WordSequence |
| `LruCache` | a cache that evicts the least recently used entry | abstract |
| `CacheProvider` | `CacheProvider.cc` and a client | detailed, implements LruCache |
| `Simple9Compressor` | `Simple9Compressor.cc` | functions (recursive functions) |
| `CompressedArray` | `CompressedArray.cc` with `NoCompressor` or `Simple9Compressor` | actions |
| `Buffers_proofs` | | proofs about DynamicBitVector, CacheProvider and CompressedArray |
| `ConnectedComponents` | the search that all the graph programs share | actions on the search state |
| `NaiveGraph`, `NaiveGraph_proofs` | `experiment_stackexchange_naive.cc` and `_naive_fix.cc` | abstract for the next; proofs about it and the search |
| `BlockArrayGroup` | the class of that name: lists of edges in one sequence of words | functions (folds) |
| `BlockedGraph`, `BlockedGraph_proofs` | `experiment_stackexchange.cc`, `_fbv.cc` and `_fbv_fix.cc` | detailed, implements NaiveGraph; proofs |
| `SetInduction` | | induction over numbers and finite sets, as sets, for the proofs |
| `MC*` | contents, compressors, bounds and symmetry for TLC | |

Each operation is one action that contains all its calls, in their order. Definitions
keep the names of the source; those called *Mutant* in their comment are deliberate
mistakes by which each property is shown to depend on the code, and are used nowhere.

### The memory managers

`MemoryManager` is byte-exact: a chunk is a function from addresses to bytes, `Write`
and `Load` copy, `Remove` is `swapPointer` and the bookkeeping of `remove`. `Ptrs` and
`Chunks` stand for the objects `new` returns. Fresh chunks hold an indeterminate byte
`Uninit`. `LensAssumption` (0 < len <= chunkSize) is what the callers guarantee and the
code does not check. `AdvancedMemoryManager` keeps chunks and pointers in sequences,
newest first, as the two lists of the code; a `chunkRef` iterator is the chunk it points
to, `CopyRound` is the body of the copy loop. Two blocks of at most two pieces take at
most three rounds. Both memory managers return any block
contents for a `create`, as `BlockStore` allows. Destructors are not modelled.

### DynamicBitVector on SimpleCache

`ptrArr`, `chArr` and `ptrList` are the arrays of the code, the swap loop of `makeFree`
is `Moved`. A client gets a pointer into a buffer and writes through it, so `Get(i, b)`
leaves b in the buffer of block i. `Compress` and `Decompress` are parameters with the
one assumption the compressor tests check: what was compressed comes back
(`RoundTrip`). It does not hold of `SimdCompCompressor` for blocks that are no multiple
of 128 words, and for `Simple9Compressor` only of the block as it was before, since it writes into its input
(`StoresBlock` in `CompressedArray`). The memory manager is used as `BlockStore` promises. Blocks are
functions from bit places to {0, 1}; a `uint32_t` has `IntBit` of them. `numberOfOnes`
is the segment tree with the root at 0.

### The bit vectors on plain trees

`TreeBitVectors` has the tree of each of the three bit vectors and the blocks that
BlockBitVector has stored, and an action is one call made to all three, as the template
clients `test_fun_datastructures.cc` and `experiment_time.cc` make it to any of them. The
three trees are copies of one source: `AVLTree` has their rotations and insertion, with
`ones` for what `getOnes` returns, 1 in `AVLTree.cpp`. The word in a node of
`AdvancedAVLTree` is the set of its places with a one. Each walk is a recursive function
whose domain is `Trees`, the trees with at most `MaxHeight` nodes on a path. The bound
leaves out no tree: the elements of a search tree are different places of the vector, so
that a path has at most as many nodes as the vector has bits (`EnoughHeight`). `access`, `rank` and `select`
change nothing and are operators. `Compress` is a parameter as above. `AddBlock` has the
guard `NumOnesUpToDate` (see *Disagreements*).

### The tree and FlexibleBitVector

A tree is a nested record. The walks of the code that record a path and rebalance it
backwards are recursive functions on `Trees`, the trees with at most `MaxHeight` nodes on a
path; a walk that changes the position it looks for on its way is for each tree a function
of that position. The bound leaves nothing out where there are at most `MaxHeight` blocks
(`BlocksAssumption`, `HeightSuffices`), since a path has no more nodes than the tree. `id` is the identity of a node object, which is what slots of
the cache point to: when `deleteElem` moves the successor's values into a node, `id`
stays and the slots have to follow (`magic`).

`BlockIndex` drives the tree alone, with block lengths and numbers of ones chosen freely
as far as the bit vector's arithmetic allows, so that many more shapes of trees occur
than with words. `FlexibleBitVector` adds words and cache. Its state `s` is the slots
and the trees, an operation is a function on `s`, composed of the calls of the code.
`insertBlock` takes a member of `Data`: single words (`insertUint32_t`) and, as the graph
programs insert them, edges of three words. Insertions that make a block of an odd number
of words too long are left out: line 401 would cut a word in half. The code does not
exclude them, but single words cannot (a block is split at exactly 2 * chunkSize), nor
can the graph programs: their vectors start with 64 words, and an edge adds three to
blocks of 256, so that a block has 512 or 514 words when it is split (64 and 256 are 1
modulo 3, 257 is 2).

A word is a model value or the numbers 0 and 1; `Count(w)` is its number of ones, which
are taken to be its lowest bits. The stored block of a node (`ptr`) is its words, because
`NoCompressor` copies, and a memory manager is a `BlockStore`. `bitElementCounter` is
the size in bits. `MemoryProvider` is that `Vector` has several members.

The specification comes in variants that differ in the operations clients call, because
some operations of the code break the properties of the others (see *Disagreements*):
`SpecWords` reads and changes words, `SpecReads` adds `rank` and `select`, `SpecShrinking`
deletions in the only block. `SpecOnes` is about the numbers of ones. The code loses count
of them in four ways, which `BlockMiscounts`, `InsertMiscounts` and `DeleteMiscounts` name:
"block" (data with ones before its last word), "append" (a word with a one behind the last),
"split" (of a block at another word than its first) and "merge" (of two blocks into one, the
right one with ones). The constant `Miscounts` says which of them may happen: none in
the run `fbv`, merges in `fbv_merge_ones`. `DeleteMerging` reads the
ones of the right block where the code does, after they have been set to 0.

### Caches and compressed arrays

In `CacheProvider` an iterator of the list is the buffer of its element, which no other
has (`MapAgrees`). The client asks for an array, writes to the buffer it gets, and puts
the array there if it got none, as the comment of `put` asks.
`Simple9Compressor` works on words of `Group + 1` nibbles (8 in the code). `Simple9`
itself is external: it restores numbers below 2^28. `compress` changes the caller's
memory, which is in the variable `caller`; the caller has room behind its block.
`CompressedArray` keeps what the pointers lead to (`stored`), as BlockStore promises.

### The graph programs

`load_graph` reads lines until the input ends, and `extract_connected_components` is then
a state machine over its `queue`, `visited` flags and components: one action per step of
its two loops. The five programs differ in the container of the edges and in whether the
search follows the edges that come in (`follows_in`, the two `_fix` programs); the
variable `program` chooses. `BlockArrayGroup` computes each position anew from the
lengths at the start of the vector, as the code does, for its three kinds of vector; a
FlexVector is the sequence of words that `fbv` shows FlexibleBitVector to be. The
refinement reads the lists of edges back out of the bags. A vertex that is out of order
ends the one program by an assertion (the makefile does not set NDEBUG) and is ignored by
the other; the bags stop there, which the refinement maps to a program that is still
reading. Edges join vertices that have been inserted: for others the code has undefined
behaviour.

## Runs

| run | question | bounds |
|---|---|---|
| `mm` | layout, pool, head chunks, overlap, fragmentation, that only the block that fills the hole moves, and that it implements BlockStore | 4 pointers, 3 chunks of 3 bytes, lengths 1-2, filled or not |
| `amm` | positions, lists, number of chunks, only the newest block moves, implements BlockStore | 4 pointers, chunks of 5 bytes, lengths 2 and 3, 2 contents |
| `buffers` | DynamicBitVector: CacheInv, rank, select, implements BlockArray; CacheProvider: implements LruCache; CompressedArray: addBlock stores what it is given | 3 blocks of 4 bits (2 words), 2 buffers, tree of 4 leaves; 3 buffers for 4 pointers; 2 blocks of 4 words of 4 nibbles, 3 of them packed together |
| `index` | positions, find, rank, implements BlockSequence | 5 blocks of 1 or 2 words, 0 or 1 ones, shifts of at most one word |
| `fbv` | cache and trees agree, size, neighbours in merges; accessUint32_t, implements WordSequence; rank, for the operations that keep count of the ones | 2 vectors, blocks of 2 words (chunkSize 8), words inserted one or three at a time, within one of: 7 words of one kind, 3 slots; 5 words of two kinds, 1 slot; 4 of them, or 5 in one vector, 2 slots; 5 words with and without a one, in one vector, 1 slot or 2 |
| `tree_vectors` | three bit vectors alike, rank, select, stored blocks, heights, implements BitArray | 3 blocks of 2 words of 2 bits, clients modify the last 3 bits of each |
| `graph` | bags and lists tell of the same graph, implements NaiveGraph, each vertex in one component, the components, termination | up to 4 vertices in bags of 3, up to 3 edges, every order of lines, all programs |
| `index_select`, `fbv_rank_start`, `fbv_shrinking`, `fbv_merge_ones`, `array_access` | the disagreements below; TLC finds each property violated | |

Why these bounds show something:

- memory managers: with lengths 1 and 2 in chunks of 3 bytes chunks fill exactly, or with
  one byte left over and a single block; four blocks leave full chunks besides the head,
  empty a head, and pass chunks between lengths through the pool. Bytes are told apart by
  their place in the block and by whether they have been filled. Chunks of 5 bytes with blocks
  of 2 and 3 have every way to cut a block, and every pair of cuts in a copy.
- `buffers`: three blocks and two buffers evict a changed and an unchanged block in every
  order; four leaves give the segment tree two levels, and the last leaf stays empty. Four pointers
  for three buffers evict the oldest, the newest and any between. Four words with groups of
  three leave a last group that is one word short of two, where the packing shifts; the
  words have upper nibbles 0, 1 and 3 of 0 to 3. The three components share no state and
  are one run because each is small.
- `tree_vectors`: sets of up to nine places, so that deletions meet nodes with two
  children whose successor is near or far, and unbalanced ones; six words and
  three blocks, whose trees rotate while they are filled; blocks of two words, so that a
  word starts in the middle of a block. The first block added may be empty or not.
- `index`: five blocks are the least with which the node of a deletion has two children
  and its successor is not its child, below and above rotations. `MaxShift` bounds
  `addPos`, which is otherwise unbounded: a node under which blocks come and go while
  the words left of it grow and shrink can gather any shift, with an `elem` that makes
  up for it. The bound lets every node have shifts of one word in either direction.
- `fbv`: blocks of two words (chunkSize 8) split at four words, merge up to three and
  redistribute at four, so that five words do all of these and seven make trees of
  three and more blocks, as many as the slots or more. With three slots both blocks of a
  deletion with two children can be cached, with two they evict each other, and with one
  every access to another block evicts. Words carry no control: no branch of the code
  depends on their value, so one kind is enough for shapes and two for contents, and the
  ones, which no branch reads either, need a single vector. `MCBitVectors` keeps each
  behaviour to one of these bounds. Blocks of `addBlock` have chunkSize bytes as in the code.
- `graph`: four vertices in bags of three need a second pair of bags and leave it almost
  empty; three edges put two into one list with one before or behind it, and make a cycle,
  a path, double edges and loops. Components of one to four vertices occur.

Symmetry is used for pointers, chunks, words and vectors, which the code does not
compare (`lastChunk` and the pool are keyed by length and order of events). Deadlock is
checked but in `graph`, whose program ends, and in `buffers`, whose array stops at its
bound.

Fairness: the operations of the library are calls that return, nobody schedules them, and
they promise nothing for later, so their specifications have none. A graph program runs
on its own once it has read its input: `BlockedGraph` has weak fairness of the steps of
`extract_connected_components` that come after the first, and no fairness of the input,
which may be of any length. `Terminates` follows: each program ends.

## Proofs

`MemoryManager_proofs`, for any number of pointers and chunks, any chunk size, any set of
lengths and contents:

- `LayoutCorrect`, `RoomCorrect`, `PoolCorrect`: the parts of the inductive invariant
  `IInv == Types /\ Layout /\ OnlyHeadHasRoom /\ PoolOK`. None is
  inductive alone: that a removal finds its hole filler needs the layout of the head; that
  the layout survives needs the head of a length to be a chunk of that length; that a full
  chunk may become the head needs that no other has room; that a reserved chunk is empty
  needs the pool.
- `TypeCorrect` (`TypeOK`): besides the types, that every block ends within the used part
  of its chunk, and that within the chunk (`BlocksInside`). It follows from the layout
  (`LiveBlock`): a block is one of the `Len(ptrVec)` slots that `space` counts.
- `Disjoint` (no two blocks share a byte) follows from the layout: blocks of a chunk are
  its multiples of one length.
- `Compact` (`NoFragmentation`: of the chunks of a length only the head has room) counts.
  By the layout the blocks of a length are in bijection with the places of its chunks
  below their `space`, and the number of chunks follows from cardinalities. The set of
  pointers may be infinite, so that the invariant adds that those in use are finitely many.
- `OnlyIntoHole`, an action property, and `Refinement` (`Spec => ImplementsStore`): a
  step maps to the abstract step or a stutter, since `swapPointer` copies the moved bytes
  before its owner's pointer is changed.

`AdvancedMemoryManager_proofs`, for any set of pointers, any chunk size, any lengths that
fit into a chunk and any contents:

- the argument: the chunks of a length are one linear memory (`At`), in which the i-th
  oldest block begins at byte (i - 1) * l. The arithmetic of chunks, positions and pieces
  is in the lemmas about it: `PutAt` (bytes written to a piece), `ArrayOfBlock` (a block is
  one piece or two), `AccessAt`, `FillAt`, and for the copy loop `RoundStep` (a round keeps
  that the bytes copied so far are those of the source, and advances to the next piece of
  one block at least) and `CopyBlockAt` (three rounds copy the block).
- `LayoutCorrect`, `ListsCorrect`: the parts of `IInv == Layout /\ ListsComplete`. Neither is
  inductive alone: the position of a block follows from its place in the list, and the
  number of chunks from the length of the list.
- `OnlyNewestMoves`, an action property, and `Refinement` (`Spec => ImplementsStore`): what
  create, fill and remove do to the linear memory (`CreateEffect`, `FillEffect`,
  `RemoveEffect`) leaves every other block as it was, since blocks do not overlap.

`Buffers_proofs`, about the caches and compressed arrays:

- `MapCorrect`, for any number of buffers and pointers: every pointer in the map leads to
  a buffer of its own, and no buffer is lost. `MapAgrees` says the latter by counting the
  buffers; the invariant adds `OneElement`, that no two elements of the list have the same
  buffer, from which the steps follow.
- `LruCorrect` (`Spec => ImplementsLru`): `CacheProvider` evicts the least recently used
  array. The list of the code has all buffers, unused ones among them, and the list of the
  abstract cache only the arrays: the invariant `EInv` says that the used elements are the
  front of the list, up to some place (`UsedUpTo`), so that what is filtered out is its
  tail, and moving an element to the front commutes with the filter.
- `StoresBlockCorrect`, for any number and length of blocks, any number of nibbles in a
  word: what `CompressedArray` has stored is decompressed to the block as it was added,
  with `NoCompressor` and `Simple9Compressor`. `Digits` says that a packed word has the
  upper parts of a group of words as its digits, the first of them the highest;
  `IsRound` is the invariant of the loop of `compress` (`FirstRound`, `NextRound`,
  `PackedIs`), with the word that is being packed as its digits so far. `Compressed` adds
  the shift of the last, short group, and `Simple9Restores` that `decompress` takes each
  digit back from its place.

and about DynamicBitVector, for any number of buffers, size of blocks and tree, and any
lossless compressor:

- `CacheCorrect`: no block has two buffers, free buffers come last, and a block without
  a buffer is stored. The invariant adds that buffers and list have their types and that
  a buffer with a block has been filled. `MoveStep` is the lemma about `makeFree`: every
  buffer but the freed one is found again one place further, and nothing else is.
- `Transparent` (`Spec => ImplementsArray`): an operation adds a block or changes one.
  `MoveKeepsContent` shows that the block that is evicted reads the same from memory as
  from its buffer before, by `RoundTrip`, and that all others are where they were.

- `RankCorrect`, `SelectCorrect`: the answers are those of counting the ones of the
  vector. The segment tree is an array in which the children of i are 2i + 1 and 2i + 2;
  `TreeInv` says that a leaf has the ones of its block, wherever its words are, and any
  other node the sum of its children. `Sums` is that it is invariant: a change of a leaf
  goes up to the root. `Before(i)` are the ones in front of block i. The levels of the tree
  are powers of two (`PowerAssumption`), so that a node has the ones of a range of
  blocks (`LevelSums`); the walk up of `rank` adds what is left of the path, and the walk
  down of `select` keeps that the block it looks for, the `Least` with enough ones before
  its end, is below the node at hand.

`BlockIndex_proofs`, for any number of blocks, any lengths of whole words, any numbers of
ones and any bound on the shifts:

- a tree stands for a sequence of items, `Sq`: length, ones and position of each block in
  order, where the position counts all the shifts pending above it. `PropagateIs`,
  `LeftRotateIs`, `RightRotateIs` and `RebalanceIs` say that what moves nodes and hands shifts
  down leaves the sequence as it is, and brings `mysize` up to date; that subtrees are only
  shifted is what makes this an argument about `Shift` and `Three` (two sequences with an item between).
- each walk replaces some items and moves those behind them, which is `Put`: `UpdateWalk`,
  `SetLenWalk`, `InsertWalk`, `DeleteWalk`, with `FindWalk` and `RankWalk` for the answers. They
  are inductions over the trees (`TreeInduction`); `Descend` is what a node has to decide, on
  which side the item of a position is. Deletion of a node with two children is the longest:
  the successor is taken out of the right subtree by its own shifts (`LeftmostWalk`,
  `WithoutWalk`), and `mysize` stays true only because the ones of the block have been taken
  off the path before (`DeleteNodeIs`).
- the invariant `IInv` says that `mysize` is right at every node (`Summed`), and that the
  items follow one another without a gap from bit 0 on, at most `MaxBlocks` of them, with
  lengths and ones that blocks can have (`Good`). `Summed` is needed since `rank` reads sums nothing recomputes, and `Good`
  since every walk goes by position: two overlapping blocks would send it to the wrong one.
  `GoodPut` says when a replacement keeps `Good`; in between the two updates of a merge or a
  split the sequence is not good, so these are put together item by item (`SplitStep`,
  `MergeStep`, `RedistributeStep`). That trees stay within `MaxHeight` is `FewLow`.
- `ContiguousCorrect`, `FindsEveryBitCorrect`, `RankCountsCorrect` and `Refinement`
  (`Spec => ImplementsSequence`) follow. `IInv` is no invariant of the run `index`, since
  TLC cannot enumerate the domain of `Sq`; what it says of the blocks is `Contiguous`, and
  of the sums `RankCounts`.

`TreeBitVectors_proofs`, for blocks of any size, any number of them, any blocks and
places that clients use, and any lossless compressor:

- the argument: an operation on a tree is what it does to the entries of its nodes, which
  are elements, payloads and ones without the shape (`Entries`). A `SearchTree` has its
  elements in order and true heights. `RebalanceIs` says that a rotation, with its
  sums, keeps both and the entries; `InsertNewKeeps`, `DeleteFromKeeps`, `ModifyBitKeeps`,
  `SetPtrKeeps` and `UpdatePathKeeps` say which entry a walk adds, removes or changes, and
  `FindHas`, `FindBitHas` and `FindBlockHas` which one it finds. They are inductions over the
  trees up to a height (`TreesInduction`); `FitsInto` says that the search trees of a
  vector are among them: a search tree is no higher than there are numbers between its
  bounds.
- the invariant: there is one set of places S, those of the ones, and each of the three
  trees agrees with it. `SetFits`: the elements are S. `WordsFit`: the words are next to each
  other (`Tiled`) and hold S. `BlocksFit`: so do the blocks, every entry owns one stored
  block and no other entry does, and its own ones are those of that block. The last is not
  in `numOnes` once a bit has been changed, so that the invariant is about what `mysize`
  has (`OwnOnes`); `AddBlock` needs `NumOnesUpToDate`, under which rebalancing finds the same.
- `TreesCorrect`, `SameCorrect` and `ArrayCorrect` (`Spec => ImplementsArray`) follow from it.
- `RankCorrect`, `SelectCorrect`: an entry covers a range of places, and its own ones are
  the number of those in S (`Counts`). Then `mysize` is the number of ones that a tree
  covers, and of these the left subtree has the smallest and the right one the greatest
  (`CountNode`); `CountTells` says that a one is found from how many come before it. The
  walks of rank and select follow by induction, for the three trees in turn.

`NaiveGraph_proofs`, for any number of vertices, any graph and any order of lines:

- the search is proved about on its own, with the edges followed from a vertex as a
  parameter. Its invariants are `SearchTypes`; `SearchOnce` (no vertex is in two places, or
  twice in one, and the visited ones are those in the queue and the components);
  `SearchFromRoot` and `SearchReached` (what is in the queue or the component is in every
  closed set that has the root); `SearchCovered` and `SearchSeparate` (the vertices before
  the root are in components; the edges of the vertices that have left the queue lead to
  visited ones, and those of complete components stay inside, which needs that the edges
  are followed both ways).
- `MirroredCorrect`: the lists of edges in and out tell of the same edges.
- `EachOnceCorrect`, `OnlyReachableCorrect`: for all the programs.
- `FindsComponentsCorrect`: with edges followed both ways, the result is the connected
  components. It needs `Mirrored`, which makes the relation symmetric.

`BlockedGraph_proofs`, for any number of vertices, any size of bag and any input:

- `Refinement` (`Spec => ImplementsGraph`): the programs that keep their edges in bags
  are the ones that keep them in lists. A bag is one sequence of words, and where a list
  begins is the sum of the lengths at its start. `Lefts` has these sums as a function of
  the list, and `Complete` says that the lists fill the bag (`BagsInv`). An insertion moves
  what is behind it by one edge, which is what the changed length does to the sums
  (`PushBackPushes`: that list has the edge at its end, every other is what it was); the
  three kinds of vector insert the same words, one by one or together (`StlInsertIs`,
  `InsertWordsIs`).
- `BagsCompleteCorrect`, `SearchesGraphCorrect`, `EachOnceCorrect` and
  `FindsComponentsCorrect` follow: the bags tell of the graph that was read, and what the
  search over the bags has found are its connected components.

Where a proof needs induction over the natural numbers, `SetInduction` states it of a set
of numbers, those with the property, rather than of a predicate. That a recursive function
is what its definition says is proved the same way, level by level. So what stays out of
reach is a RECURSIVE operator, not a recursive function.

The assumptions are the named `ASSUME`s of the modules; TLC evaluates each of them. They
say that sizes are natural numbers, a block fits into a chunk, a compressor is lossless,
the walks are defined for trees as high as a vector has bits or blocks, clients add blocks and change
bits in them, and that the times of edges and the kinds of programs are the ones the code has.

Only model-checked: liveness (`Terminates`), which is out of the prover's reach, and
`FlexibleBitVector`, whose state has trees, slots and words at once: that its tree alone is
right is proved in `BlockIndex_proofs`, that the slots of the cache follow it is not.

## Disagreements between the code and what is said of it

Shown by runs:

- `index_select`: `FlexibleAVLTree::select` forgets the shifts pending above the node it
  returns (FlexibleAVLTree.cc:312).
- `fbv_rank_start`: `rank` and `select` cache a block with start -1, and the next access
  to bit 0 reads it (FlexibleBitVector.cc:547, with a TODO at 546).
- `fbv_shrinking`: a deletion in the only, short block leaves the size as it was
  (FlexibleBitVector.cc:209).
- `fbv_merge_ones`: a deletion that merges two blocks into one loses the ones of the right
  one: line 252 sets its `numOnes` to 0 and line 255 reads it for the left block.
- `array_access`: `CompressedArray::accessBlock` decompresses whatever was compressed last
  (line 38). test_CompressedArray.cc says "get out what you put in", but adds only equal
  blocks.

Met while modelling, and kept out of the passing runs by guards or bounds that say so:

- a split counts the ones of the first half from the inserted word on, past the end of the
  block if need be (FlexibleBitVector.cc:410); line 408 says "Calculate the sum of the fist
  half of bits", and `intBuffer2`, which points to the start, is not used. `insertBlock` at
  the end of a vector counts no ones (line 389, "there is nothing to do here"), and of its
  data those of the last word only (`addNum =` in line 322 stands in a loop). With
  `Miscounts` set to "split", "append" or "block" TLC finds `RankRight` violated after two or
  three operations.
- `BlockBitVector::modify` changes `mysize` and not `numOnes`, from which `rebalance`
  computes `mysize` when a block is added later (BlockBitVector.cc:171):
  `NumOnesUpToDate`. `addSize` of BlockAVLNode.cc:12 would do it and has no caller.
- `AVLTree` deletes without rebalancing the node whose place it fills (AVLTree.cpp:335),
  so that subtrees of heights 2 and -1 under one node are possible; `HeightsRight` says
  only that the heights are the true ones. `deleteMin` and `deleteMax` of AVLTree.h:45-46
  drop the new root, and those of AdvancedAVLTree the data of the node; nothing calls them.
- with chunkSize 4 the right block of a merge has one word, the blocks behind it have
  moved onto its position, and `deleteElem` removes the wrong one: chunkSize is 8 in the
  runs, and `BlockIndex` merges no block of one word into its left neighbour.
- `deleteElem` never rebalances the node whose values it replaces (FlexibleAVLTree.cc:116
  and 164), so the tree is not always an AVL tree. Nothing relies on it but running time.
- `loadIntoBuffer` forgets the stored block of a cached one, which is never freed
  (FlexibleCache.cc:104).
- `DynamicBitVector::accessUint32_t` returns one char of the block (line 134).
- when the old block of a split or a merge is in the last slot, `push` evicts it and copies
  the new block's words out of the buffer that it writes to (FlexibleCache.cc:56); the
  `memcpy` overlaps itself when an odd number of words is shared out. The model copies by
  value.
- `experiment_stackexchange.cc`, `_fbv.cc` and `_naive.cc` follow only the edges that go
  out, although the comment promises "the connected components" (_fbv.cc:582-588): a vertex
  that leads to an earlier component gets a component of its own. The `_fix` programs
  follow both, and `FindsComponents` is about those.
- `Simple9Compressor::compress` writes behind the block it is given (line 28);
  `experiment_time.cc:144` compresses parts of one array, so that the next part is
  overwritten before it is added.

## Not modelled, and why

- destructors, memory accounting and printing.
- the external compressors; the bits inside words of a `FlexibleBitVector`, and so
  `select` within a block. Overflow of `addPos`, `elem` and sizes takes more operations
  than a bounded run has.
- `FlexBitVector2.cc` (an older copy of FlexibleBitVector that does not compile),
  `SimpleCache2.cc` (no caller), `SimpleMemoryManager.cc` (`malloc` and `free`),
  `experiment_time.cc` and `multiphase*/` (they call the library at random and measure it).
- in the graph programs: parsing of the input beyond what a line is, printing, and
  measuring. Edges to vertices that are not there (undefined behaviour).

## Plan

Done: everything above. Next, in this order:

1. FlexibleCache and `FlexibleBitVector` proved about: that a slot knows where its block
   starts (`CacheAgrees`), with the sequence of blocks of `BlockIndex_proofs`.
2. FlexibleCache with a memory manager instead of stored words: which stored blocks are
   reachable, and which leak; the chars of words and `accessUint32_t`.
