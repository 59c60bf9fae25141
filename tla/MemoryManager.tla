--------------------------- MODULE MemoryManager ---------------------------
(***************************************************************************)
(* src/memorymanager/MemoryManager.cc with MemoryPool.cc: blocks of one    *)
(* length are packed into chunks of ChunkSize bytes, a chunk serves one    *)
(* length at a time, the hole a removed block leaves is filled with the    *)
(* last block of the length's head chunk (whose owner's pointer is         *)
(* corrected), and a chunk that becomes empty goes to a pool all lengths   *)
(* share.                                                                  *)
(***************************************************************************)
EXTENDS Integers, Sequences, FiniteSets

Seqs == INSTANCE SequencesExt

CONSTANTS Ptrs,        \* MemoryPointer objects
          Chunks,      \* MemoryChunk objects (bounds the calls of new)
          ChunkSize,   \* MemoryPool::chunkSize = MemoryChunk::size
          Lens,        \* block lengths the clients ask for
          Byte,        \* values a byte can hold, the indeterminate one included
          Uninit,      \* the value of a byte of new char[size]
          Images(_),   \* Images(len): data a client fills a block of length len with
          NULL

ASSUME SizeAssumption == ChunkSize \in Nat \ {0}
ASSUME LensAssumption == Lens \subseteq 1..ChunkSize
ASSUME ByteAssumption == Uninit \in Byte
ASSUME ImagesAssumption == \A len \in Lens : Images(len) \subseteq [0..(len - 1) -> Byte]
ASSUME NullAssumption == NULL \notin Chunks

VARIABLES chunk,       \* MemoryPointer::chunk; NULL: p owns no block
          pos,         \* MemoryPointer::pos
          clen,        \* MemoryChunk::len
          space,       \* MemoryChunk::space
          ptrVec,      \* MemoryChunk::ptrVec
          memory,      \* MemoryChunk::memory
          lastChunk,   \* MemoryManager::lastChunk
          savedMemory, \* MemoryPool::savedMemory, its top last
          allocated    \* the chunks that were newed

vars == <<chunk, pos, clen, space, ptrVec, memory, lastChunk, savedMemory, allocated>>

Addr == 0..(ChunkSize - 1)
Live == {p \in Ptrs : chunk[p] # NULL}

Types == /\ chunk \in [Ptrs -> Chunks \cup {NULL}]
         /\ pos \in [Ptrs -> Nat]
         /\ clen \in [Chunks -> Lens \cup {0}]
         /\ space \in [Chunks -> Nat]
         /\ ptrVec \in [Chunks -> Seq(Ptrs)]
         /\ memory \in [Chunks -> [Addr -> Byte]]
         /\ lastChunk \in [Lens -> Chunks \cup {NULL}]
         /\ savedMemory \in Seq(Chunks)
         /\ allocated \in SUBSET Chunks

(* No place leads out of the used part of its chunk, nor that out of the   *)
(* chunk: what fill, load and remove copy lies inside.                     *)
BlocksInside == /\ \A c \in Chunks : space[c] <= ChunkSize
                /\ \A p \in Live : pos[p] + clen[chunk[p]] <= space[chunk[p]]

TypeOK == Types /\ BlocksInside

Init == /\ chunk = [p \in Ptrs |-> NULL]
        /\ pos = [p \in Ptrs |-> 0]
        /\ clen = [c \in Chunks |-> 0]
        /\ space = [c \in Chunks |-> 0]
        /\ ptrVec = [c \in Chunks |-> <<>>]
        /\ memory = [c \in Chunks |-> [a \in Addr |-> Uninit]]
        /\ lastChunk = [len \in Lens |-> NULL]
        /\ savedMemory = <<>>
        /\ allocated = {}
-----------------------------------------------------------------------------
(* Mutant: >= for >, so that a slot that just fits is never used.          *)
IsFullEarly(c) == clen[c] + space[c] >= ChunkSize

IsFull(c) == clen[c] + space[c] > ChunkSize

IsLastPointer(c, p) == chunk[p] = c /\ pos[p] = space[c] - clen[c]

(* Mutants: reserve leaves the chunk in the pool; it forgets setLen.       *)
ReserveKeepsInPool(len, c) ==
  /\ \/ savedMemory # <<>> /\ c = Seqs!Last(savedMemory) /\ UNCHANGED allocated
     \/ /\ savedMemory = <<>>
        /\ c \in Chunks \ allocated
        /\ allocated' = allocated \cup {c}
  /\ UNCHANGED savedMemory
  /\ clen' = [clen EXCEPT ![c] = len]

ReserveKeepsLen(len, c) ==
  \/ /\ savedMemory # <<>>
     /\ c = Seqs!Last(savedMemory)
     /\ savedMemory' = Seqs!Front(savedMemory)
     /\ UNCHANGED <<allocated, clen>>
  \/ /\ savedMemory = <<>>
     /\ c \in Chunks \ allocated
     /\ allocated' = allocated \cup {c}
     /\ clen' = [clen EXCEPT ![c] = len]
     /\ UNCHANGED savedMemory

(* MemoryPool::reserve: the top of the pool, or a new chunk, set to len.   *)
Reserve(len, c) ==
  /\ \/ /\ savedMemory # <<>>
        /\ c = Seqs!Last(savedMemory)
        /\ savedMemory' = Seqs!Front(savedMemory)
        /\ UNCHANGED allocated
     \/ /\ savedMemory = <<>>
        /\ c \in Chunks \ allocated
        /\ allocated' = allocated \cup {c}
        /\ UNCHANGED savedMemory
  /\ clen' = [clen EXCEPT ![c] = len]

(* Mutant: the new block's place is computed from the end of the chunk's   *)
(* last block as if it were already counted.                               *)
AddElementShifted(c, len, p) ==
  /\ chunk' = [chunk EXCEPT ![p] = c]
  /\ pos' = [pos EXCEPT ![p] = space[c] - len]
  /\ space' = [space EXCEPT ![c] = @ + len]
  /\ ptrVec' = [ptrVec EXCEPT ![c] = Append(@, p)]

(* MemoryChunk::addElement, with len the length of c after the step.       *)
AddElement(c, len, p) ==
  /\ chunk' = [chunk EXCEPT ![p] = c]
  /\ pos' = [pos EXCEPT ![p] = space[c]]
  /\ space' = [space EXCEPT ![c] = @ + len]
  /\ ptrVec' = [ptrVec EXCEPT ![c] = Append(@, p)]

(* create(len) and create(len, p): p is a new pointer object, or one whose *)
(* block was removed.                                                      *)
Create(len, p) ==
  /\ p \notin Live
  /\ \E c \in Chunks :
       /\ IF lastChunk[len] = NULL \/ IsFull(lastChunk[len])
          THEN /\ Reserve(len, c)
               /\ lastChunk' = [lastChunk EXCEPT ![len] = c]
          ELSE /\ c = lastChunk[len]
               /\ UNCHANGED <<savedMemory, allocated, clen, lastChunk>>
       /\ AddElement(c, len, p)
  /\ UNCHANGED memory

(* load, getMemoryLocation: the bytes p points to.                         *)
Load(p) == [i \in 0..(clen[chunk[p]] - 1) |-> memory[chunk[p]][pos[p] + i]]

(* Mutant: memcpy to the start of the chunk instead of the block.          *)
WriteAtStart(p, img) ==
  [memory EXCEPT ![chunk[p]] = [a \in Addr |-> IF a \in DOMAIN img THEN img[a] ELSE @[a]]]

(* memcpy of the bytes of img to the place p points to.                    *)
Write(p, img) ==
  [memory EXCEPT ![chunk[p]] =
    [a \in Addr |-> IF a - pos[p] \in DOMAIN img THEN img[a - pos[p]] ELSE @[a]]]

Fill(p, img) ==
  /\ memory' = Write(p, img)
  /\ UNCHANGED <<chunk, pos, clen, space, ptrVec, lastChunk, savedMemory, allocated>>

(* Mutants: the pos of the moved pointer is not corrected; its entry in    *)
(* ptrVec lands one slot too low.                                          *)
SwapPointerKeepsPos(p, head, q) ==
  /\ chunk' = [chunk EXCEPT ![q] = chunk[p], ![p] = NULL]
  /\ pos' = [pos EXCEPT ![p] = 0]
  /\ LET place == (pos[p] \div clen[chunk[p]]) + 1
         swapped == [ptrVec EXCEPT ![chunk[p]] = [@ EXCEPT ![place] = q]]
     IN ptrVec' = [swapped EXCEPT ![head] = Seqs!Front(@)]

SwapPointerOffByOne(p, head, q) ==
  /\ chunk' = [chunk EXCEPT ![q] = chunk[p], ![p] = NULL]
  /\ pos' = [pos EXCEPT ![q] = pos[p], ![p] = 0]
  /\ LET place == pos[p] \div clen[chunk[p]]
         swapped == [ptrVec EXCEPT ![chunk[p]] =
                      [i \in DOMAIN @ |-> IF i = place THEN q ELSE @[i]]]
     IN ptrVec' = [swapped EXCEPT ![head] = Seqs!Front(@)]

(* swapPointer(p, head) and the pop of p: the last pointer q of head takes *)
(* the place of p.                                                         *)
SwapPointer(p, head, q) ==
  /\ chunk' = [chunk EXCEPT ![q] = chunk[p], ![p] = NULL]
  /\ pos' = [pos EXCEPT ![q] = pos[p], ![p] = 0]
  /\ LET place == (pos[p] \div clen[chunk[p]]) + 1
         swapped == [ptrVec EXCEPT ![chunk[p]] = [@ EXCEPT ![place] = q]]
     IN ptrVec' = [swapped EXCEPT ![head] = Seqs!Front(@)]

(* A removed pointer keeps stale fields in the code and nothing reads them *)
(* before create(len, p) sets them; here they are forgotten.               *)
Drop(p, head) ==
  /\ chunk' = [chunk EXCEPT ![p] = NULL]
  /\ pos' = [pos EXCEPT ![p] = 0]
  /\ ptrVec' = [ptrVec EXCEPT ![head] = Seqs!Front(@)]

(* Mutant: the hole is filled from the block's own chunk.                  *)
HeadOfOwnChunk(p) == chunk[p]

HeadOf(p) == LET last == lastChunk[clen[chunk[p]]]
             IN  IF last = NULL THEN chunk[p] ELSE last

Remove(p) ==
  LET len  == clen[chunk[p]]
      head == HeadOf(p)
      q    == Seqs!Last(ptrVec[head])
      left == space[head] - clen[head]
  IN  /\ IF IsLastPointer(head, p)
         THEN Drop(p, head) /\ UNCHANGED memory
         ELSE memory' = Write(p, Load(q)) /\ SwapPointer(p, head, q)
      /\ space' = [space EXCEPT ![head] = left]
      /\ IF left = 0
         THEN /\ savedMemory' = Append(savedMemory, head)
              /\ lastChunk' = [lastChunk EXCEPT ![len] = NULL]
         ELSE /\ lastChunk' = [lastChunk EXCEPT ![len] = head]
              /\ UNCHANGED savedMemory
      /\ UNCHANGED <<clen, allocated>>

Next == \/ \E len \in Lens, p \in Ptrs : Create(len, p)
        \/ \E p \in Live : \E img \in Images(clen[chunk[p]]) : Fill(p, img)
        \/ \E p \in Live : Remove(p)

Spec == Init /\ [][Next]_vars
-----------------------------------------------------------------------------
Pooled == {savedMemory[i] : i \in 1..Len(savedMemory)}

(* The layout: the i-th pointer of a chunk's ptrVec points to its i-th     *)
(* slot of clen bytes, space counts the slots and stays in the chunk.      *)
SlotsOK == \A c \in Chunks :
  /\ ptrVec[c] # <<>> => clen[c] \in Lens
  /\ space[c] = clen[c] * Len(ptrVec[c])
  /\ space[c] <= ChunkSize
  /\ \A i \in 1..Len(ptrVec[c]) :
       /\ chunk[ptrVec[c][i]] = c
       /\ pos[ptrVec[c][i]] = (i - 1) * clen[c]

(* Every live pointer is in its chunk's ptrVec, so that the division in    *)
(* swapPointer finds it there.                                             *)
BackPointersOK == \A p \in Live :
  \E i \in 1..Len(ptrVec[chunk[p]]) : ptrVec[chunk[p]][i] = p

(* lastChunk[len] is a chunk of that length with at least one block.       *)
HeadsOK == \A len \in Lens : lastChunk[len] # NULL =>
  /\ clen[lastChunk[len]] = len
  /\ ptrVec[lastChunk[len]] # <<>>

(* Pointers, ptrVec, space and lastChunk tell the same story, through      *)
(* every order of creations and removals across lengths: the assumption    *)
(* under which remove finds the block it moves and the owner it corrects.  *)
Layout == SlotsOK /\ BackPointersOK /\ HeadsOK

(* Only the head chunk of a length can have room for another block (the    *)
(* design comment at the top of MemoryManager.cc): otherwise create would  *)
(* open a chunk while another is half empty, and remove would fill a hole  *)
(* from a chunk that is not the emptiest.                                  *)
OnlyHeadHasRoom == \A c \in Chunks :
  (ptrVec[c] # <<>> /\ ~IsFull(c)) => lastChunk[clen[c]] = c

(* The pool holds exactly the allocated chunks without blocks, each once:  *)
(* no chunk is lost and none is handed to two lengths.                     *)
PoolOK ==
  /\ Pooled = {c \in allocated : ptrVec[c] = <<>>}
  /\ \A i, j \in 1..Len(savedMemory) : savedMemory[i] = savedMemory[j] => i = j
  /\ \A c \in Chunks : ptrVec[c] # <<>> => c \in allocated

(* No two blocks overlap, whatever their lengths.                          *)
Extent(p) == {<<chunk[p], a>> : a \in pos[p]..(pos[p] + clen[chunk[p]] - 1)}
NoOverlap == \A p, q \in Live : p # q => Extent(p) \cap Extent(q) = {}

(* The space a length takes is the least for its number of blocks: the     *)
(* chunks are ceil(n / floor(ChunkSize / len)), so that deletions in any   *)
(* order never fragment memory.                                            *)
NoFragmentation == \A len \in Lens :
  LET n   == Cardinality({p \in Live : clen[chunk[p]] = len})
      per == ChunkSize \div len
  IN  Cardinality({c \in Chunks : ptrVec[c] # <<>> /\ clen[c] = len})
        = (n + per - 1) \div per

(* A step moves no block but one: the block that fills the hole of the     *)
(* removed one, and it goes to exactly that place. A client may keep the   *)
(* address getMemoryLocation returned across create and fill.              *)
Moved == {q \in Live : chunk'[q] # NULL /\ <<chunk'[q], pos'[q]>> # <<chunk[q], pos[q]>>}
MovesOnlyIntoHole ==
  [][\A q \in Moved : \E p \in Live :
       /\ chunk'[p] = NULL
       /\ chunk'[q] = chunk[p] /\ pos'[q] = pos[p]
       /\ Moved = {q}]_vars

(* The manager implements the store of blocks: every pointer's bytes are   *)
(* those its client wrote, wherever the block has been moved.              *)
Store == INSTANCE BlockStore
           WITH content <- [p \in Live |-> Load(p)], Cell <- Byte
ImplementsStore == Store!Spec
=============================================================================
