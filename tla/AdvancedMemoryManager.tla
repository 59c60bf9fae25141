----------------------- MODULE AdvancedMemoryManager -----------------------
(***************************************************************************)
(* src/memorymanager/AdvancedMemoryManager.cc: the blocks of one length    *)
(* are packed without gaps into a list of chunks of that length, so that a *)
(* block may begin in one chunk and end in the next. A removed block is    *)
(* overwritten with the newest one, and a chunk no block reaches any more  *)
(* is freed.                                                               *)
(*                                                                         *)
(* The lists of the code grow and shrink at the front only. Here they are  *)
(* written oldest first, so that an iterator, which stays good while the   *)
(* front moves, is an index: std::prev of an iterator is the next index,   *)
(* begin() the last one.                                                   *)
(***************************************************************************)
EXTENDS Integers, Sequences

Seqs == INSTANCE SequencesExt
Sets == INSTANCE FiniteSetsExt

CONSTANTS Ptrs,        \* AdvancedPointer objects
          ChunkSize,   \* bytes of a chunk
          Lens,        \* block lengths the clients ask for
          Byte,        \* values a byte can hold, the indeterminate one included
          Uninit,      \* the value of a byte of new char[size]
          Images(_)    \* Images(l): data a client fills a block of length l with

ASSUME SizeAssumption == ChunkSize \in Nat \ {0}
ASSUME LensAssumption == Lens \subseteq 1..ChunkSize
ASSUME ByteAssumption == Uninit \in Byte
ASSUME ImagesAssumption == \A l \in Lens : Images(l) \subseteq [0..(l - 1) -> Byte]

VARIABLES len,         \* AdvancedPointer::len; 0: the pointer owns no block
          pos,         \* AdvancedPointer::pos
          chunkRef,    \* AdvancedPointer::chunkRef, an index of chunkList[len]
          ref,         \* AdvancedPointer::ref, an index of ptrList[len]
          ptrList,     \* the pointers of each length
          chunkList    \* the chunks of each length, as their bytes

vars == <<len, pos, chunkRef, ref, ptrList, chunkList>>

Addr == 0..(ChunkSize - 1)
Live == {p \in Ptrs : len[p] # 0}
NewChunk == [a \in Addr |-> Uninit]

TypeOK == /\ len \in [Ptrs -> Lens \cup {0}]
          /\ pos \in [Ptrs -> Addr]
          /\ chunkRef \in [Ptrs -> Nat]
          /\ ref \in [Ptrs -> Nat]
          /\ ptrList \in [Lens -> Seq(Ptrs)]
          /\ chunkList \in [Lens -> Seq([Addr -> Byte])]

Init == /\ len = [p \in Ptrs |-> 0]
        /\ pos = [p \in Ptrs |-> 0]
        /\ chunkRef = [p \in Ptrs |-> 0]
        /\ ref = [p \in Ptrs |-> 0]
        /\ ptrList = [l \in Lens |-> <<>>]
        /\ chunkList = [l \in Lens |-> <<>>]
-----------------------------------------------------------------------------
(* Mutant: the chunk of the newest block is kept although that block       *)
(* overflowed.                                                             *)
PlaceInOldChunk(l) ==
  IF ptrList[l] = <<>> THEN [pos |-> ChunkSize, chunk |-> 0]
  ELSE LET prev == Seqs!Last(ptrList[l])
           next == pos[prev] + len[prev]
       IN  [pos |-> IF next > ChunkSize THEN next - ChunkSize ELSE next,
            chunk |-> chunkRef[prev]]

(* Where create puts a block of length l: after the newest block of that   *)
(* length, in the following chunk if that block ends beyond its own. With  *)
(* no block yet a chunk is opened, as at the end of one.                   *)
Place(l) ==
  IF ptrList[l] = <<>> THEN [pos |-> ChunkSize, chunk |-> 0]
  ELSE LET prev == Seqs!Last(ptrList[l])
           next == pos[prev] + len[prev]
       IN  IF next > ChunkSize THEN [pos |-> next - ChunkSize, chunk |-> chunkRef[prev] + 1]
                               ELSE [pos |-> next, chunk |-> chunkRef[prev]]

(* create: a block at the very end of a chunk starts a new one (case 1), a *)
(* block that does not fit in its chunk continues in a new one (case 2).   *)
Create(l, p) ==
  LET place == Place(l)
      fresh == place.pos = ChunkSize
  IN  /\ len[p] = 0
      /\ chunkList' = [chunkList EXCEPT
           ![l] = IF fresh \/ place.pos + l > ChunkSize THEN Append(@, NewChunk) ELSE @]
      /\ len' = [len EXCEPT ![p] = l]
      /\ pos' = [pos EXCEPT ![p] = IF fresh THEN 0 ELSE place.pos]
      /\ chunkRef' = [chunkRef EXCEPT ![p] = IF fresh THEN Len(chunkList'[l]) ELSE place.chunk]
      /\ ptrList' = [ptrList EXCEPT ![l] = Append(@, p)]
      /\ ref' = [ref EXCEPT ![p] = Len(ptrList'[l])]

(* getMemoryArray: the one or two pieces of memory p's block lies in.      *)
MemoryArray(p) ==
  LET n == Sets!Min({len[p], ChunkSize - pos[p]})
      first == [chunk |-> chunkRef[p], at |-> pos[p], n |-> n]
      rest == [chunk |-> chunkRef[p] + 1, at |-> 0, n |-> len[p] - n]
  IN  IF len[p] > n THEN <<first, rest>> ELSE <<first>>

(* access: the i-th byte of p's block.                                     *)
Access(p, i) ==
  LET arr == MemoryArray(p)
      mem == chunkList[len[p]]
  IN  IF i < arr[1].n THEN mem[arr[1].chunk][arr[1].at + i]
                      ELSE mem[arr[2].chunk][arr[2].at + (i - arr[1].n)]

Load(p) == [i \in 0..(len[p] - 1) |-> Access(p, i)]

(* memcpy of data[from], ..., data[from + n - 1] into the piece.           *)
Put(mem, piece, n, data, from) ==
  [mem EXCEPT ![piece.chunk] =
    [a \in Addr |-> IF a \in piece.at..(piece.at + n - 1) THEN data[from + (a - piece.at)]
                                                          ELSE @[a]]]

(* fill: one memcpy per piece.                                             *)
Fill(p, img) ==
  LET arr   == MemoryArray(p)
      first == Put(chunkList[len[p]], arr[1], arr[1].n, img, 0)
  IN  /\ chunkList' = [chunkList EXCEPT ![len[p]] =
           IF Len(arr) = 1 THEN first ELSE Put(first, arr[2], arr[2].n, img, arr[1].n)]
      /\ UNCHANGED <<len, pos, chunkRef, ref, ptrList>>

(* Mutant: the round writes to the start of the piece it is in.            *)
CopyRoundToStart(to, from, s) ==
  LET l1 == to[s.i].n - s.a
      l2 == from[s.j].n - s.b
      l  == Sets!Min({l1, l2})
      dest == [chunk |-> to[s.i].chunk, at |-> to[s.i].at]
  IN  [mem |-> Put(s.mem, dest, l, s.mem[from[s.j].chunk], from[s.j].at + s.b),
       i |-> IF l1 <= l2 THEN s.i + 1 ELSE s.i, a |-> IF l1 <= l2 THEN 0 ELSE s.a + l,
       j |-> IF l2 <= l1 THEN s.j + 1 ELSE s.j, b |-> IF l2 <= l1 THEN 0 ELSE s.b + l,
       left |-> s.left - l]

(* The body of the copy loop of remove, over the pieces of both blocks:    *)
(* s holds the memory, the places index[] and add[] and the bytes left.    *)
CopyRound(to, from, s) ==
  LET l1 == to[s.i].n - s.a
      l2 == from[s.j].n - s.b
      l  == Sets!Min({l1, l2})
      dest == [chunk |-> to[s.i].chunk, at |-> to[s.i].at + s.a]
  IN  [mem |-> Put(s.mem, dest, l, s.mem[from[s.j].chunk], from[s.j].at + s.b),
       i |-> IF l1 <= l2 THEN s.i + 1 ELSE s.i, a |-> IF l1 <= l2 THEN 0 ELSE s.a + l,
       j |-> IF l2 <= l1 THEN s.j + 1 ELSE s.j, b |-> IF l2 <= l1 THEN 0 ELSE s.b + l,
       left |-> s.left - l]

Round(to, from, s) == IF s.left = 0 THEN s ELSE CopyRound(to, from, s)

(* The loop: two blocks of at most two pieces take at most three rounds.   *)
CopyBlock(to, from, n, mem) ==
  LET s0 == [mem |-> mem, i |-> 1, a |-> 0, j |-> 1, b |-> 0, left |-> n]
  IN  Round(to, from, Round(to, from, Round(to, from, s0)))

(* Mutants: the position, or the back reference, of the moved pointer is   *)
(* not corrected.                                                          *)
SwapPointerKeepsPos(p, front) ==
  /\ pos' = [pos EXCEPT ![p] = 0]
  /\ chunkRef' = [chunkRef EXCEPT ![front] = chunkRef[p], ![p] = 0]
  /\ ref' = [ref EXCEPT ![front] = ref[p], ![p] = 0]
  /\ ptrList' = [ptrList EXCEPT ![len[p]] = Seqs!Front([@ EXCEPT ![ref[p]] = front])]

SwapPointerKeepsRef(p, front) ==
  /\ pos' = [pos EXCEPT ![front] = pos[p], ![p] = 0]
  /\ chunkRef' = [chunkRef EXCEPT ![front] = chunkRef[p], ![p] = 0]
  /\ ref' = [ref EXCEPT ![p] = 0]
  /\ ptrList' = [ptrList EXCEPT ![len[p]] = Seqs!Front([@ EXCEPT ![ref[p]] = front])]

(* swapPointer and pop_front: the newest pointer takes the place of p. The *)
(* fields of p, which no operation reads any more, are forgotten.          *)
SwapPointer(p, front) ==
  /\ pos' = [pos EXCEPT ![front] = pos[p], ![p] = 0]
  /\ chunkRef' = [chunkRef EXCEPT ![front] = chunkRef[p], ![p] = 0]
  /\ ref' = [ref EXCEPT ![front] = ref[p], ![p] = 0]
  /\ ptrList' = [ptrList EXCEPT ![len[p]] = Seqs!Front([@ EXCEPT ![ref[p]] = front])]

(* The newest block began the newest chunk, or reached into it.            *)
EmptiesChunk(at, l) == at = 0 \/ at + l > ChunkSize

Remove(p) ==
  LET l     == len[p]
      front == Seqs!Last(ptrList[l])
      moved == IF p = front THEN chunkList[l]
               ELSE CopyBlock(MemoryArray(p), MemoryArray(front), l, chunkList[l]).mem
  IN  /\ SwapPointer(p, front)
      /\ len' = [len EXCEPT ![p] = 0]
      /\ chunkList' = [chunkList EXCEPT
           ![l] = IF EmptiesChunk(pos[front], l) THEN Seqs!Front(moved) ELSE moved]

Next == \/ \E l \in Lens, p \in Ptrs : Create(l, p)
        \/ \E p \in Live : \E img \in Images(len[p]) : Fill(p, img)
        \/ \E p \in Live : Remove(p)

Spec == Init /\ [][Next]_vars
-----------------------------------------------------------------------------
(* test_AdvancedMemoryManager.cc PointerPosition, for any history of       *)
(* removals: the i-th oldest block of a length lies at byte (i - 1) * l of *)
(* that length's chunks taken together, and its pointer knows its place.   *)
PointerPosition == \A l \in Lens : \A i \in 1..Len(ptrList[l]) :
  LET p == ptrList[l][i]
  IN  /\ len[p] = l
      /\ ref[p] = i
      /\ pos[p] = ((i - 1) * l) % ChunkSize
      /\ chunkRef[p] = ((i - 1) * l) \div ChunkSize + 1

(* Every live pointer is in the list of its length, at its ref.            *)
ListsComplete == \A p \in Live :
  ref[p] \in 1..Len(ptrList[len[p]]) /\ ptrList[len[p]][ref[p]] = p

(* A length has as many chunks as its blocks need, and no more: no chunk a *)
(* block reaches is freed, and none is kept.                               *)
ChunkCount == \A l \in Lens :
  Len(chunkList[l]) = (Len(ptrList[l]) * l + ChunkSize - 1) \div ChunkSize

(* The types, and what positions and chunks follow from the lists alone.   *)
Layout == TypeOK /\ PointerPosition /\ ChunkCount

(* A step moves no block but the newest of a length, and that one only to  *)
(* the place of the block removed.                                         *)
PlaceOf(p) == <<chunkRef[p], pos[p]>>
MovesOnlyNewest ==
  [][\A q \in Live : len'[q] # 0 =>
       \/ PlaceOf(q)' = PlaceOf(q)
       \/ /\ q = Seqs!Last(ptrList[len[q]])
          /\ \E p \in Live : len'[p] = 0 /\ len[p] = len[q] /\ PlaceOf(q)' = PlaceOf(p)]_vars

(* The manager implements the store of blocks, also when a block is split  *)
(* differently before and after it is moved.                               *)
Store == INSTANCE BlockStore
           WITH content <- [p \in Live |-> Load(p)], Cell <- Byte
ImplementsStore == Store!Spec
=============================================================================
