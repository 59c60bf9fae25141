---------------------------- MODULE SimpleCache ----------------------------
(***************************************************************************)
(* src/memorymanager/datastructures/SimpleCache.cc: N buffers that hold    *)
(* the last loaded of the compressed blocks in ptrList. A client changes   *)
(* a block in its buffer, and the block is compressed and stored when the  *)
(* buffer is needed for another. The memory manager behind it returns what *)
(* was stored (BlockStore), for a compressor that loses nothing            *)
(* (compression/test_Compressor.cc). Buffer n of the code is n + 1 here,   *)
(* and block i is ptrList[i + 1].                                          *)
(***************************************************************************)
EXTENDS Integers, Sequences

CONSTANTS N,                \* number of buffers
          Block,            \* contents of an uncompressed block
          Compress(_), Decompress(_),
          NULL              \* nullptr in ptrList

ASSUME NAssumption == N \in Nat \ {0}
ASSUME RoundTrip ==
  \A b \in Block : Decompress(Compress(b)) = b /\ Compress(b) # NULL

VARIABLES ptrArr,           \* the block in each buffer, or -1
          chArr,            \* the buffers
          ptrList           \* the stored blocks

cacheVars == <<ptrArr, chArr, ptrList>>

Slots == 1 .. N
Indices == 0 .. Len(ptrList) - 1
Cached(i) == \E n \in Slots : ptrArr[n] = i

(* The contents of block i: what get returns a pointer to.                 *)
Content(i) ==
  IF Cached(i) THEN chArr[CHOOSE n \in Slots : ptrArr[n] = i] ELSE Decompress(ptrList[i + 1])

(* NULL stands for what a buffer holds that has never been filled.         *)
CacheInit == /\ ptrArr = [n \in Slots |-> -1]
             /\ chArr = [n \in Slots |-> NULL]
             /\ ptrList = <<>>

(* makeFree takes the first free buffer, or the last one if none is free.  *)
MakesFree(index) ==
  \/ /\ ptrArr[index] = -1
     /\ \A n \in 1 .. index - 1 : ptrArr[n] # -1
  \/ /\ index = N
     /\ \A n \in Slots : ptrArr[n] # -1

(* Mutant: the block that leaves the cache is not stored again.            *)
StoredOnce(index) ==
  IF ptrArr[index] # -1 /\ ptrList[ptrArr[index] + 1] = NULL
  THEN [ptrList EXCEPT ![ptrArr[index] + 1] = Compress(chArr[index])]
  ELSE ptrList

Stored(index) ==
  IF ptrArr[index] # -1
  THEN [ptrList EXCEPT ![ptrArr[index] + 1] = Compress(chArr[index])]
  ELSE ptrList

(* Mutant: the buffers are moved one place too few.                        *)
MovedShort(arr, index, first) ==
  [n \in Slots |-> IF n = 1 THEN first
                   ELSE IF n < index THEN arr[n - 1] ELSE arr[n]]

(* The swaps of makeFree, and the first buffer filled.                     *)
Moved(arr, index, first) ==
  [n \in Slots |-> IF n = 1 THEN first
                   ELSE IF n <= index THEN arr[n - 1] ELSE arr[n]]

Push(block) ==
  \E index \in Slots :
    /\ MakesFree(index)
    /\ ptrArr' = Moved(ptrArr, index, Len(ptrList))
    /\ chArr' = Moved(chArr, index, block)
    /\ ptrList' = Append(Stored(index), NULL)

(* get of block i, which the client then changes into block in its buffer. *)
(* A hit moves no buffer.                                                  *)
Get(i, block) ==
  \/ \E n \in Slots :
       /\ ptrArr[n] = i
       /\ chArr' = [chArr EXCEPT ![n] = block]
       /\ UNCHANGED <<ptrArr, ptrList>>
  \/ /\ ~Cached(i)
     /\ \E index \in Slots :
          /\ MakesFree(index)
          /\ ptrArr' = Moved(ptrArr, index, i)
          /\ chArr' = Moved(chArr, index, block)
          /\ ptrList' = Stored(index)

-----------------------------------------------------------------------------
(* No block has two buffers, of which a later write would reach one only,  *)
(* the free buffers are the last ones, and a block without a buffer is     *)
(* stored, so that get finds it.                                           *)
CacheInv ==
  /\ \A m, n \in Slots : ptrArr[m] = ptrArr[n] /\ ptrArr[m] # -1 => m = n
  /\ \A m, n \in Slots : ptrArr[m] = -1 /\ m < n => ptrArr[n] = -1
  /\ \A i \in Indices : Cached(i) \/ ptrList[i + 1] # NULL

(* The cache is transparent: the blocks, each read from its buffer or from *)
(* memory, are an array in which an operation changes the block it is      *)
(* called for and no other, although blocks are stored and loaded.         *)
Array == INSTANCE BlockArray WITH
  blocks <- [j \in 1 .. Len(ptrList) |-> Content(j - 1)]
ImplementsArray == Array!Spec
=============================================================================
