-------------------------- MODULE CompressedArray --------------------------
(***************************************************************************)
(* src/memorymanager/CompressedArray.cc: blocks are compressed and stored  *)
(* by an AdvancedMemoryManager, which returns what was stored (BlockStore).*)
(* The compressor is NoCompressor or Simple9Compressor.                    *)
(***************************************************************************)
EXTENDS Simple9Compressor

CONSTANTS chunkSize,      \* words of a block
          Word,           \* values of a word that the clients use
          MaxArray       \* bound on the blocks

ASSUME WordAssumption == Word \subseteq 0 .. Nibble * Low - 1
ASSUME ChunkAssumption == chunkSize \in Nat

VARIABLES compressor,     \* "nocomp" or "simple9"
          caller,         \* the memory addBlock is called with, and behind
          stored,         \* what ptrList points to: the compressed blocks
          buffer, outBuffer

arrayVars == <<compressor, caller, stored, buffer, outBuffer>>

(* The static functions of the compressor.                                 *)
CompressBy(mem) == IF compressor = "simple9" THEN Simple9Compress(mem, chunkSize)
                   ELSE [mem |-> mem, code |-> SubSeq(mem, 1, chunkSize)]
DecompressBy(code) == IF compressor = "simple9" THEN Simple9Decompress(code, chunkSize)
                      ELSE SubSeq(code, 1, chunkSize)

ArrayInit ==
  /\ compressor \in {"nocomp", "simple9"}
  /\ caller = <<>> /\ stored = <<>> /\ buffer = <<>> /\ outBuffer = <<>>

(* The caller has room behind its block for what compress writes there, as *)
(* in test_Compressor.cc: zeros here.                                      *)
AddCompressedBlock(block) ==
  /\ Len(stored) < MaxArray
  /\ LET result == CompressBy(block \o [k \in 1 .. ExtraWords(chunkSize) |-> 0])
     IN  /\ caller' = result.mem
         /\ buffer' = result.code
         /\ stored' = Append(stored, result.code)
  /\ UNCHANGED <<compressor, outBuffer>>

(* accessBlock: whatever pos is, what buffer holds is decompressed.        *)
Accessed(pos) == DecompressBy(buffer)

AccessBlock(pos) ==
  /\ pos < Len(stored)
  /\ outBuffer' = Accessed(pos)
  /\ UNCHANGED <<compressor, caller, stored, buffer>>

ArrayNext == \/ \E block \in [1 .. chunkSize -> Word] : AddCompressedBlock(block)
             \/ \E pos \in 0 .. MaxArray - 1 : AccessBlock(pos)

ArraySpec == ArrayInit /\ [][ArrayNext]_arrayVars
-----------------------------------------------------------------------------
(* addBlock stores the block it is given: decompressed, the stored blocks  *)
(* are the old ones and the new one, although compress changes the words   *)
(* that it reads.                                                          *)
Contents == [k \in 1 .. Len(stored) |-> DecompressBy(stored[k])]
StoresBlock ==
  [][\A block \in [1 .. chunkSize -> Word] :
       AddCompressedBlock(block) => Contents' = Append(Contents, block)]_arrayVars

(* accessBlock returns the block it is asked for ("get out what you put    *)
(* in", test_CompressedArray.cc). It does not: pos is not used (line 38).  *)
AccessReturnsBlock == \A pos \in 0 .. Len(stored) - 1 : Accessed(pos) = Contents[pos + 1]
=============================================================================
