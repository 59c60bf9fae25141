------------------------ MODULE MemoryManager_proofs ------------------------
(***************************************************************************)
(* Proofs about MemoryManager, for every set of pointers, chunks and       *)
(* lengths and every chunk size.                                           *)
(***************************************************************************)
EXTENDS MemoryManager, FiniteSetTheorems, TLAPS

-----------------------------------------------------------------------------
(* Arithmetic of slots of length len.                                      *)

LEMMA LenNat == \A len \in Lens : len \in Nat /\ len > 0 /\ len <= ChunkSize
  BY SizeAssumption, LensAssumption

LEMMA SlotSucc == \A len, n \in Nat : /\ len * n \in Nat
                                      /\ len * (n + 1) = len * n + len
  OBVIOUS

LEMMA SlotZero == \A len, n \in Nat : len > 0 => (len * n = 0 <=> n = 0)
  OBVIOUS

LEMMA SlotDiv == ASSUME NEW len \in Nat, len > 0, NEW n \in Nat
                 PROVE  (n * len) \div len = n
  OBVIOUS

LEMMA SlotOrder == ASSUME NEW len \in Nat, len > 0, NEW m \in Nat, NEW n \in Nat, m < n
                   PROVE  m * len + len <= n * len
  OBVIOUS

(* Front and Last of SequencesExt, on non-empty sequences.                 *)
LEMMA FrontLast ==
  ASSUME NEW S, NEW s \in Seq(S), s # <<>>
  PROVE  /\ Len(s) \in Nat /\ Len(s) > 0
         /\ Seqs!Last(s) = s[Len(s)]
         /\ Seqs!Last(s) \in S
         /\ Seqs!Front(s) \in Seq(S)
         /\ Len(Seqs!Front(s)) = Len(s) - 1
         /\ \A i \in 1..(Len(s) - 1) : Seqs!Front(s)[i] = s[i]
<1>1. Len(s) \in Nat /\ Len(s) > 0
  OBVIOUS
<1>2. Seqs!Last(s) = s[Len(s)] /\ Seqs!Last(s) \in S
  BY <1>1 DEF Seqs!Last
<1>3. Seqs!Front(s) = [i \in 1..(Len(s) - 1) |-> s[i]]
  BY <1>1 DEF Seqs!Front
<1>4. Len(Seqs!Front(s)) = Len(s) - 1
  BY <1>1, <1>3
<1>5. Seqs!Front(s) \in Seq(S)
  BY <1>1, <1>3
<1> QED
  BY <1>1, <1>2, <1>3, <1>4, <1>5
-----------------------------------------------------------------------------
(* The inductive invariant. Layout alone is not inductive: create takes a  *)
(* chunk from the pool and relies on its being empty (PoolOK), and remove  *)
(* relies on the chunk of the removed block being full, or the head, when  *)
(* it takes the block to move from the head chunk (OnlyHeadHasRoom).       *)
IInv == Types /\ Layout /\ OnlyHeadHasRoom /\ PoolOK

LEMMA InitIInv == Init => IInv
<1> SUFFICES ASSUME Init PROVE IInv
  OBVIOUS
<1> USE SizeAssumption, LensAssumption, NullAssumption DEF Init
<1>1. Types
  BY ByteAssumption DEF Types, Addr
<1>2. Layout
  BY DEF Layout, SlotsOK, BackPointersOK, HeadsOK, Live
<1>3. OnlyHeadHasRoom /\ PoolOK
  BY DEF OnlyHeadHasRoom, PoolOK, Pooled
<1> QED
  BY <1>1, <1>2, <1>3 DEF IInv

(* What create does to the chunk c it adds the block to, the same for the  *)
(* head chunk, a pooled chunk and a new one.                               *)
LEMMA CreateEffect ==
  ASSUME IInv, NEW len \in Lens, NEW p \in Ptrs, Create(len, p)
  PROVE  \E c \in Chunks :
           /\ ptrVec[c] # <<>> => clen[c] = len
           /\ space[c] = len * Len(ptrVec[c])
           /\ space[c] + len <= ChunkSize
           /\ \A d \in Chunks \ {c} : ptrVec[d] # <<>> /\ ~IsFull(d) => clen[d] # len
           /\ AddElement(c, len, p)
           /\ clen' = [clen EXCEPT ![c] = len]
           /\ lastChunk' = [lastChunk EXCEPT ![len] = c]
           /\ savedMemory' \in Seq(Chunks)
           /\ Pooled' = Pooled \ {c}
           /\ \A i, j \in 1..Len(savedMemory') : savedMemory'[i] = savedMemory'[j] => i = j
           /\ allocated' = allocated \cup {c}
<1> USE SizeAssumption, LenNat, NullAssumption DEF IInv, Types
<1>1. PICK c \in Chunks :
        /\ IF lastChunk[len] = NULL \/ IsFull(lastChunk[len])
           THEN /\ Reserve(len, c)
                /\ lastChunk' = [lastChunk EXCEPT ![len] = c]
           ELSE /\ c = lastChunk[len]
                /\ UNCHANGED <<savedMemory, allocated, clen, lastChunk>>
        /\ AddElement(c, len, p)
  BY DEF Create
<1>2. CASE lastChunk[len] = NULL \/ IsFull(lastChunk[len])
  <2>1. Reserve(len, c) /\ lastChunk' = [lastChunk EXCEPT ![len] = c]
    BY <1>1, <1>2
  <2>2. \A d \in Chunks : ptrVec[d] # <<>> /\ ~IsFull(d) => clen[d] # len
    BY <1>2 DEF OnlyHeadHasRoom
  <2>3. ptrVec[c] = <<>> /\ savedMemory' \in Seq(Chunks) /\ Pooled' = Pooled \ {c}
        /\ (\A i, j \in 1..Len(savedMemory') : savedMemory'[i] = savedMemory'[j] => i = j)
        /\ allocated' = allocated \cup {c}
    <3>1. CASE savedMemory # <<>>
      <4>1. c = Seqs!Last(savedMemory) /\ savedMemory' = Seqs!Front(savedMemory)
            /\ allocated' = allocated
        BY <2>1, <3>1 DEF Reserve
      <4>2. c = savedMemory[Len(savedMemory)] /\ Len(savedMemory) \in Nat /\ Len(savedMemory) > 0
            /\ savedMemory' \in Seq(Chunks) /\ Len(savedMemory') = Len(savedMemory) - 1
            /\ \A i \in 1..(Len(savedMemory) - 1) : savedMemory'[i] = savedMemory[i]
        BY <3>1, <4>1, FrontLast
      <4> DEFINE n == Len(savedMemory)
      <4>3. \A i \in 1..(n - 1) : i \in 1..n /\ n \in 1..n /\ savedMemory[i] # c
        <5>0. n \in Nat /\ n > 0
          BY <4>2
        <5>1. \A i \in 1..(n - 1) : i \in 1..n /\ n \in 1..n /\ i # n
          BY <5>0
        <5>2. \A i \in 1..(n - 1) : savedMemory[i] # savedMemory[n]
          BY <5>1 DEF PoolOK
        <5> QED
          BY <4>2, <5>1, <5>2
      <4>4. \A x : x \in Pooled' <=> \E i \in 1..(n - 1) : x = savedMemory[i]
        <5>1. \A x : x \in Pooled' <=> \E i \in 1..Len(savedMemory') : x = savedMemory'[i]
          BY DEF Pooled
        <5> QED
          BY <4>2, <5>1
      <4>5. \A x : x \in Pooled <=> (x = c \/ \E i \in 1..(n - 1) : x = savedMemory[i])
        <5>1. \A x : x \in Pooled <=> \E i \in 1..n : x = savedMemory[i]
          BY DEF Pooled
        <5>2. \A i : i \in 1..n <=> (i = n \/ i \in 1..(n - 1))
          BY <4>2
        <5> QED
          BY <4>2, <5>1, <5>2
      <4>6. Pooled' = Pooled \ {c}
        BY <4>3, <4>4, <4>5
      <4>7. ptrVec[c] = <<>> /\ c \in allocated
        BY <4>5 DEF PoolOK
      <4>8. \A i, j \in 1..Len(savedMemory') : savedMemory'[i] = savedMemory'[j] => i = j
        <5>1. \A i, j \in 1..n : savedMemory[i] = savedMemory[j] => i = j
          BY DEF PoolOK
        <5>2. Len(savedMemory') = n - 1
          BY <4>2
        <5>3. \A i \in 1..(n - 1) : savedMemory'[i] = savedMemory[i]
          BY <4>2
        <5> QED
          BY <4>3, <5>1, <5>2, <5>3
      <4> QED
        BY <4>1, <4>2, <4>6, <4>7, <4>8
    <3>2. CASE savedMemory = <<>>
      BY <2>1, <3>2 DEF Reserve, PoolOK, Pooled
    <3> QED
      BY <3>1, <3>2
  <2>4. space[c] = 0 /\ Len(ptrVec[c]) = 0
    <3>1. Len(ptrVec[c]) = 0 /\ clen[c] \in Nat
      BY <2>3
    <3>2. \A n \in Nat : n * 0 = 0
      OBVIOUS
    <3>3. space[c] = clen[c] * Len(ptrVec[c])
      BY DEF Layout, SlotsOK
    <3> QED
      BY <3>1, <3>2, <3>3
  <2>5. clen' = [clen EXCEPT ![c] = len]
    BY <2>1 DEF Reserve
  <2>6. space[c] = len * Len(ptrVec[c]) /\ space[c] + len <= ChunkSize
    BY <2>4
  <2> QED
    BY <1>1, <2>1, <2>2, <2>3, <2>5, <2>6
<1>3. CASE ~(lastChunk[len] = NULL \/ IsFull(lastChunk[len]))
  <2>1. c = lastChunk[len] /\ UNCHANGED <<savedMemory, allocated, clen, lastChunk>>
    BY <1>1, <1>3
  <2>2. clen[c] = len /\ ptrVec[c] # <<>> /\ ~IsFull(c)
    BY <1>3, <2>1 DEF Layout, HeadsOK
  <2>3. space[c] = len * Len(ptrVec[c]) /\ space[c] + len <= ChunkSize
    BY <2>2 DEF Layout, SlotsOK, IsFull
  <2>4. \A d \in Chunks \ {c} : ptrVec[d] # <<>> /\ ~IsFull(d) => clen[d] # len
    BY <2>1 DEF OnlyHeadHasRoom
  <2>5. clen' = [clen EXCEPT ![c] = len] /\ lastChunk' = [lastChunk EXCEPT ![len] = c]
    BY <2>1, <2>2
  <2>6. c \in allocated /\ c \notin Pooled
    BY <2>2 DEF PoolOK
  <2> QED
    BY <1>1, <2>1, <2>2, <2>3, <2>4, <2>5, <2>6 DEF PoolOK, Pooled
<1> QED
  BY <1>2, <1>3

LEMMA CreateIInv ==
  ASSUME IInv, NEW len \in Lens, NEW p \in Ptrs, Create(len, p)
  PROVE  IInv'
<1>1. PICK c \in Chunks :
        /\ ptrVec[c] # <<>> => clen[c] = len
        /\ space[c] = len * Len(ptrVec[c])
        /\ space[c] + len <= ChunkSize
        /\ \A d \in Chunks \ {c} : ptrVec[d] # <<>> /\ ~IsFull(d) => clen[d] # len
        /\ AddElement(c, len, p)
        /\ clen' = [clen EXCEPT ![c] = len]
        /\ lastChunk' = [lastChunk EXCEPT ![len] = c]
        /\ savedMemory' \in Seq(Chunks)
        /\ Pooled' = Pooled \ {c}
        /\ \A i, j \in 1..Len(savedMemory') : savedMemory'[i] = savedMemory'[j] => i = j
        /\ allocated' = allocated \cup {c}
  BY CreateEffect
<1>2. chunk[p] = NULL /\ memory' = memory
  BY DEF Create, Live
<1>t. Types
  BY DEF IInv
<1> DEFINE m == Len(ptrVec[c])
<1>3. /\ m \in Nat
      /\ ptrVec' \in [Chunks -> Seq(Ptrs)]
      /\ Len(ptrVec'[c]) = m + 1 /\ ptrVec'[c][m + 1] = p /\ ptrVec'[c] # <<>>
      /\ \A i \in 1..m : ptrVec'[c][i] = ptrVec[c][i]
      /\ \A d \in Chunks \ {c} : ptrVec'[d] = ptrVec[d]
  BY <1>1, <1>t DEF Types, AddElement
<1>4. /\ chunk' = [chunk EXCEPT ![p] = c]
      /\ pos' = [pos EXCEPT ![p] = space[c]]
      /\ space' = [space EXCEPT ![c] = @ + len]
  BY <1>1 DEF AddElement
<1>5. Types'
  BY <1>1, <1>2, <1>3, <1>4, <1>t, LenNat DEF Types
<1>6. \A d \in Chunks : \A i \in 1..Len(ptrVec[d]) : ptrVec[d][i] \in Ptrs \ {p}
  BY <1>2, <1>t, NullAssumption DEF IInv, Layout, SlotsOK, Types
<1>7. SlotsOK'
  <2> SUFFICES ASSUME NEW d \in Chunks
               PROVE  /\ ptrVec'[d] # <<>> => clen'[d] \in Lens
                      /\ space'[d] = clen'[d] * Len(ptrVec'[d])
                      /\ space'[d] <= ChunkSize
                      /\ \A i \in 1..Len(ptrVec'[d]) :
                           /\ chunk'[ptrVec'[d][i]] = d
                           /\ pos'[ptrVec'[d][i]] = (i - 1) * clen'[d]
    BY DEF SlotsOK
  <2>1. /\ ptrVec[d] # <<>> => clen[d] \in Lens
        /\ space[d] = clen[d] * Len(ptrVec[d])
        /\ space[d] <= ChunkSize
        /\ \A i \in 1..Len(ptrVec[d]) :
             /\ chunk[ptrVec[d][i]] = d
             /\ pos[ptrVec[d][i]] = (i - 1) * clen[d]
    BY DEF IInv, Layout, SlotsOK
  <2>2. CASE d # c
    <3>1. ptrVec'[d] = ptrVec[d] /\ clen'[d] = clen[d] /\ space'[d] = space[d]
      BY <1>1, <1>3, <1>4, <1>t, <2>2 DEF Types
    <3>2. \A i \in 1..Len(ptrVec[d]) : /\ chunk'[ptrVec[d][i]] = chunk[ptrVec[d][i]]
                                       /\ pos'[ptrVec[d][i]] = pos[ptrVec[d][i]]
      BY <1>4, <1>6, <1>t DEF Types
    <3> QED
      BY <2>1, <3>1, <3>2
  <2>3. CASE d = c
    <3>1. clen'[c] = len /\ space'[c] = space[c] + len
      BY <1>1, <1>4, <1>t DEF Types
    <3>2. space'[c] = len * Len(ptrVec'[c])
      <4>1. len \in Nat
        BY LenNat
      <4> QED
        BY <1>1, <1>3, <3>1, <4>1, SlotSucc
    <3>3. ASSUME NEW i \in 1..m
          PROVE  chunk'[ptrVec'[c][i]] = c /\ pos'[ptrVec'[c][i]] = (i - 1) * len
      <4>1. ptrVec'[c][i] = ptrVec[c][i] /\ ptrVec[c][i] \in Ptrs \ {p}
        BY <1>3, <1>6
      <4>2. clen[c] = len
        BY <1>1, <1>3
      <4>3. chunk[ptrVec[c][i]] = c /\ pos[ptrVec[c][i]] = (i - 1) * len
        BY <2>1, <2>3, <4>2
      <4> QED
        BY <1>4, <1>t, <4>1, <4>3 DEF Types
    <3>4. chunk'[p] = c /\ pos'[p] = m * len
      <4>1. len \in Nat /\ space[c] = m * len
        BY <1>1, <1>3, LenNat
      <4> QED
        BY <1>4, <1>t, <4>1 DEF Types
    <3>5. \A i \in 1..(m + 1) : chunk'[ptrVec'[c][i]] = c /\ pos'[ptrVec'[c][i]] = (i - 1) * len
      <4> SUFFICES ASSUME NEW i \in 1..(m + 1)
                   PROVE  chunk'[ptrVec'[c][i]] = c /\ pos'[ptrVec'[c][i]] = (i - 1) * len
        OBVIOUS
      <4>1. CASE i \in 1..m
        BY <3>3, <4>1
      <4>2. CASE i = m + 1
        <5>1. i - 1 = m
          BY <1>3, <4>2
        <5> QED
          BY <1>3, <3>4, <4>2, <5>1
      <4> QED
        BY <1>3, <4>1, <4>2
    <3> QED
      BY <1>1, <1>3, <2>3, <3>1, <3>2, <3>5
  <2> QED
    BY <2>2, <2>3
<1>8. BackPointersOK'
  <2> SUFFICES ASSUME NEW x \in Ptrs, chunk'[x] # NULL
               PROVE  \E i \in 1..Len(ptrVec'[chunk'[x]]) : ptrVec'[chunk'[x]][i] = x
    BY DEF BackPointersOK, Live
  <2>1. CASE x = p
    <3>1. chunk'[x] = c /\ m + 1 \in 1..(m + 1)
      BY <1>3, <1>4, <1>t, <2>1 DEF Types
    <3> QED
      BY <1>3, <2>1, <3>1
  <2>2. CASE x # p
    <3>1. chunk'[x] = chunk[x]
      BY <1>4, <1>t, <2>2 DEF Types
    <3>2. PICK i \in 1..Len(ptrVec[chunk[x]]) : ptrVec[chunk[x]][i] = x
      BY <3>1 DEF IInv, Layout, BackPointersOK, Live
    <3>3. chunk[x] \in Chunks
      BY <3>1, <1>t DEF Types
    <3> QED
      BY <1>3, <3>1, <3>2, <3>3
  <2> QED
    BY <2>1, <2>2
<1>9. HeadsOK'
  <2> SUFFICES ASSUME NEW l \in Lens, lastChunk'[l] # NULL
               PROVE  clen'[lastChunk'[l]] = l /\ ptrVec'[lastChunk'[l]] # <<>>
    BY DEF HeadsOK
  <2>1. CASE l = len
    <3>1. lastChunk'[l] = c /\ clen'[c] = l
      BY <1>1, <1>t, <2>1 DEF Types
    <3> QED
      BY <1>3, <3>1
  <2>2. CASE l # len
    <3>1. lastChunk'[l] = lastChunk[l] /\ lastChunk[l] \in Chunks
      BY <1>1, <1>t, <2>2 DEF Types
    <3>2. clen[lastChunk[l]] = l /\ ptrVec[lastChunk[l]] # <<>>
      BY <3>1, NullAssumption DEF IInv, Layout, HeadsOK
    <3>3. lastChunk[l] # c
      BY <1>1, <2>2, <3>2
    <3> QED
      BY <1>1, <1>3, <1>t, <3>1, <3>2, <3>3 DEF Types
  <2> QED
    BY <2>1, <2>2
<1>10. OnlyHeadHasRoom'
  <2> SUFFICES ASSUME NEW d \in Chunks, ptrVec'[d] # <<>>, ~IsFull(d)'
               PROVE  lastChunk'[clen'[d]] = d
    BY DEF OnlyHeadHasRoom
  <2>1. CASE d = c
    BY <1>1, <1>t, <2>1 DEF Types
  <2>2. CASE d # c
    <3>1. ptrVec[d] # <<>> /\ clen'[d] = clen[d] /\ ~IsFull(d)
      BY <1>1, <1>3, <1>4, <1>t, <2>2 DEF Types, IsFull
    <3>2. clen[d] \in Lens /\ lastChunk[clen[d]] = d /\ clen[d] # len
      BY <1>1, <2>2, <3>1 DEF IInv, Layout, SlotsOK, OnlyHeadHasRoom
    <3> QED
      BY <1>1, <1>t, <3>1, <3>2 DEF Types
  <2> QED
    BY <2>1, <2>2
<1>11. PoolOK'
  <2>1. Pooled = {d \in allocated : ptrVec[d] = <<>>}
        /\ \A d \in Chunks : ptrVec[d] # <<>> => d \in allocated
    BY DEF IInv, PoolOK
  <2>2. allocated \subseteq Chunks
    BY <1>t DEF Types
  <2> QED
    BY <1>1, <1>3, <2>1, <2>2 DEF PoolOK
<1> QED
  BY <1>5, <1>7, <1>8, <1>9, <1>10, <1>11 DEF IInv, Layout

(* A live pointer's block lies in the used part of its chunk.              *)
LEMMA LiveBlock ==
  ASSUME IInv, NEW p \in Live
  PROVE  /\ p \in Ptrs /\ chunk[p] \in Chunks /\ clen[chunk[p]] \in Lens
         /\ pos[p] \in Nat /\ pos[p] + clen[chunk[p]] <= space[chunk[p]]
         /\ pos[p] + clen[chunk[p]] <= ChunkSize
         /\ Load(p) \in [0..(clen[chunk[p]] - 1) -> Byte]
<1> DEFINE c == chunk[p]
<1>1. p \in Ptrs /\ c \in Chunks /\ pos[p] \in Nat
  BY DEF IInv, Types, Live
<1>2. PICK i \in 1..Len(ptrVec[c]) : ptrVec[c][i] = p
  BY DEF IInv, Layout, BackPointersOK
<1>3. Len(ptrVec[c]) \in Nat /\ ptrVec[c] # <<>>
  BY <1>1, <1>2 DEF IInv, Types
<1>4. /\ clen[c] \in Lens /\ pos[p] = (i - 1) * clen[c]
      /\ space[c] = clen[c] * Len(ptrVec[c]) /\ space[c] <= ChunkSize
  BY <1>1, <1>2, <1>3 DEF IInv, Layout, SlotsOK
<1>5. pos[p] + clen[c] <= space[c] /\ pos[p] + clen[c] <= ChunkSize
  <2>1. clen[c] \in Nat /\ clen[c] > 0
    BY <1>4, LenNat
  <2>2. (i - 1) * clen[c] + clen[c] <= Len(ptrVec[c]) * clen[c]
    BY <1>2, <1>3, <2>1, SlotOrder
  <2>3. Len(ptrVec[c]) * clen[c] = clen[c] * Len(ptrVec[c])
    BY <1>3, <2>1
  <2>4. space[c] \in Nat
    BY <1>1 DEF IInv, Types
  <2> QED
    BY <1>1, <1>4, <2>1, <2>2, <2>3, <2>4, SizeAssumption
<1>6. \A k \in 0..(clen[c] - 1) : pos[p] + k \in Addr
  BY <1>1, <1>4, <1>5, LenNat, SizeAssumption DEF Addr
<1> QED
  BY <1>1, <1>4, <1>5, <1>6 DEF Load, IInv, Types

(* fill writes the block's bytes and nothing else.                         *)
LEMMA FillIInv ==
  ASSUME IInv, NEW p \in Live, NEW img \in Images(clen[chunk[p]]), Fill(p, img)
  PROVE  IInv'
<1>1. chunk[p] \in Chunks /\ clen[chunk[p]] \in Lens
  BY LiveBlock
<1>2. /\ memory' = Write(p, img)
      /\ UNCHANGED <<chunk, pos, clen, space, ptrVec, lastChunk, savedMemory, allocated>>
  BY DEF Fill
<1>3. img \in [DOMAIN img -> Byte]
  BY <1>1, ImagesAssumption
<1>4. memory' \in [Chunks -> [Addr -> Byte]]
  BY <1>1, <1>2, <1>3 DEF IInv, Types, Write
<1>5. Types'
  BY <1>2, <1>4 DEF IInv, Types
<1>6. Layout'
  BY <1>2 DEF IInv, Layout, SlotsOK, BackPointersOK, HeadsOK, Live
<1>7. OnlyHeadHasRoom' /\ PoolOK'
  BY <1>2 DEF IInv, OnlyHeadHasRoom, IsFull, PoolOK, Pooled
<1> QED
  BY <1>5, <1>6, <1>7 DEF IInv

(* What remove does, the same whether or not the removed block p is the    *)
(* last of its length's head chunk: the last block q of head comes to the  *)
(* i-th slot of p's chunk c, and the last slot of head is given up.        *)
Removed(p, c, i, head, q) ==
  /\ c = chunk[p] /\ clen[c] \in Lens /\ i \in 1..Len(ptrVec[c]) /\ ptrVec[c][i] = p
  /\ clen[head] = clen[c] /\ Len(ptrVec[head]) > 0 /\ q = ptrVec[head][Len(ptrVec[head])]
  /\ head # c => IsFull(c)
  /\ head = HeadOf(p)
  /\ pos[p] = (i - 1) * clen[c]
  /\ chunk[q] = head /\ pos[q] = (Len(ptrVec[head]) - 1) * clen[c]
  /\ chunk' = [x \in Ptrs |-> IF x = p THEN NULL ELSE IF x = q THEN c ELSE chunk[x]]
  /\ pos' = [x \in Ptrs |-> IF x = p THEN 0 ELSE IF x = q THEN pos[p] ELSE pos[x]]
  /\ ptrVec' \in [Chunks -> Seq(Ptrs)]
  /\ Len(ptrVec'[head]) = Len(ptrVec[head]) - 1
  /\ \A d \in Chunks \ {head} : Len(ptrVec'[d]) = Len(ptrVec[d])
  /\ \A d \in Chunks : \A j \in 1..Len(ptrVec'[d]) :
       ptrVec'[d][j] = IF d = c /\ j = i THEN q ELSE ptrVec[d][j]
  /\ memory' = IF p = q THEN memory ELSE Write(p, Load(q))

LEMMA RemoveEffect ==
  ASSUME IInv, NEW p \in Live, Remove(p)
  PROVE  \E c, head \in Chunks, q \in Ptrs : \E i \in Nat : Removed(p, c, i, head, q)
<1>t. Types
  BY DEF IInv
<1> DEFINE c == chunk[p]
           head == HeadOf(p)
           n == Len(ptrVec[head])
           q == Seqs!Last(ptrVec[head])
<1>1. p \in Ptrs /\ c \in Chunks
  BY <1>t DEF Types, Live
<1>2. PICK i \in 1..Len(ptrVec[c]) : ptrVec[c][i] = p
  BY DEF IInv, Layout, BackPointersOK
<1>3. /\ Len(ptrVec[c]) \in Nat /\ ptrVec[c] # <<>> /\ clen[c] \in Lens
      /\ pos[p] = (i - 1) * clen[c]
  BY <1>1, <1>2, <1>t DEF Types, IInv, Layout, SlotsOK
<1>4. /\ head \in Chunks /\ clen[head] = clen[c] /\ ptrVec[head] # <<>>
      /\ head # c => IsFull(c)
  BY <1>1, <1>3, <1>t DEF Types, IInv, Layout, HeadsOK, OnlyHeadHasRoom, HeadOf
<1>5. ptrVec[head] \in Seq(Ptrs)
  BY <1>4, <1>t DEF Types
<1>6. n \in Nat /\ n > 0 /\ q = ptrVec[head][n] /\ q \in Ptrs
  BY <1>4, <1>5, FrontLast
<1>7. chunk[q] = head /\ pos[q] = (n - 1) * clen[c]
  BY <1>4, <1>6 DEF IInv, Layout, SlotsOK
<1>8. space[head] - clen[head] = (n - 1) * clen[c]
  <2>1. space[head] = clen[c] * n
    BY <1>4 DEF IInv, Layout, SlotsOK
  <2>2. clen[c] \in Nat /\ n - 1 \in Nat
    BY <1>3, <1>6, LenNat
  <2>3. clen[c] * ((n - 1) + 1) = clen[c] * (n - 1) + clen[c]
    BY <2>2, SlotSucc
  <2> QED
    BY <1>4, <1>6, <2>1, <2>2, <2>3
<1>9. IsLastPointer(head, p) <=> p = q
  <2>1. ASSUME IsLastPointer(head, p) PROVE p = q
    <3>1. c = head /\ (i - 1) * clen[c] = (n - 1) * clen[c]
      BY <1>3, <1>8, <2>1 DEF IsLastPointer
    <3>2. i - 1 \in Nat /\ n - 1 \in Nat /\ clen[c] \in Nat /\ clen[c] > 0
      BY <1>2, <1>3, <1>6, LenNat
    <3>3. i - 1 = n - 1
      BY <3>1, <3>2, SlotDiv
    <3> QED
      BY <1>2, <1>3, <1>6, <3>1, <3>3
  <2>2. ASSUME p = q PROVE IsLastPointer(head, p)
    BY <1>7, <1>8, <2>2 DEF IsLastPointer
  <2> QED
    BY <2>1, <2>2
<1>10. CASE p = q
  <2>1. Drop(p, head) /\ memory' = memory
    BY <1>9, <1>10 DEF Remove
  <2>2. chunk' = [chunk EXCEPT ![p] = NULL] /\ pos' = [pos EXCEPT ![p] = 0]
        /\ ptrVec' = [ptrVec EXCEPT ![head] = Seqs!Front(@)]
    BY <2>1 DEF Drop
  <2>3. /\ ptrVec' \in [Chunks -> Seq(Ptrs)]
        /\ Len(ptrVec'[head]) = n - 1
        /\ \A j \in 1..(n - 1) : ptrVec'[head][j] = ptrVec[head][j]
        /\ \A d \in Chunks \ {head} : ptrVec'[d] = ptrVec[d]
    BY <1>4, <1>5, <2>2, <1>t, FrontLast DEF Types
  <2>4. c = head /\ i = n
    <3>1. IsLastPointer(head, p)
      BY <1>9, <1>10
    <3>2. c = head /\ (i - 1) * clen[c] = (n - 1) * clen[c]
      BY <1>3, <1>8, <3>1 DEF IsLastPointer
    <3>3. i - 1 \in Nat /\ n - 1 \in Nat /\ clen[c] \in Nat /\ clen[c] > 0
      BY <1>2, <1>3, <1>6, LenNat
    <3>4. i - 1 = n - 1
      BY <3>2, <3>3, SlotDiv
    <3> QED
      BY <1>2, <1>3, <1>6, <3>2, <3>4
  <2>5. \A d \in Chunks : \A j \in 1..Len(ptrVec'[d]) :
          ptrVec'[d][j] = IF d = c /\ j = i THEN q ELSE ptrVec[d][j]
    BY <1>6, <2>3, <2>4
  <2>6. /\ chunk' = [x \in Ptrs |-> IF x = p THEN NULL ELSE IF x = q THEN c ELSE chunk[x]]
        /\ pos' = [x \in Ptrs |-> IF x = p THEN 0 ELSE IF x = q THEN pos[p] ELSE pos[x]]
    BY <1>10, <2>2, <1>t DEF Types
  <2>7. Removed(p, c, i, head, q)
    BY <1>2, <1>3, <1>4, <1>6, <1>7, <1>10, <2>1, <2>3, <2>5, <2>6 DEF Removed
  <2> QED
    BY <1>1, <1>2, <1>3, <1>4, <1>6, <2>7
<1>11. CASE p # q
  <2>1. SwapPointer(p, head, q) /\ memory' = Write(p, Load(q))
    BY <1>9, <1>11 DEF Remove
  <2> DEFINE place == (pos[p] \div clen[chunk[p]]) + 1
             swapped == [ptrVec EXCEPT ![chunk[p]] = [@ EXCEPT ![place] = q]]
  <2>2. /\ chunk' = [chunk EXCEPT ![q] = chunk[p], ![p] = NULL]
        /\ pos' = [pos EXCEPT ![q] = pos[p], ![p] = 0]
        /\ ptrVec' = [swapped EXCEPT ![head] = Seqs!Front(@)]
    BY <2>1 DEF SwapPointer
  <2>3. place = i
    <3>1. i - 1 \in Nat /\ clen[c] \in Nat /\ clen[c] > 0
      BY <1>2, <1>3, LenNat
    <3>2. ((i - 1) * clen[c]) \div clen[c] = i - 1
      BY <3>1, SlotDiv
    <3> QED
      BY <1>2, <1>3, <3>2
  <2>4. /\ swapped \in [Chunks -> Seq(Ptrs)]
        /\ \A d \in Chunks : Len(swapped[d]) = Len(ptrVec[d])
        /\ \A d \in Chunks : \A j \in 1..Len(ptrVec[d]) :
             swapped[d][j] = IF d = c /\ j = i THEN q ELSE ptrVec[d][j]
    <3>1. ptrVec[c] \in Seq(Ptrs)
      BY <1>1, <1>t DEF Types
    <3>2. /\ [ptrVec[c] EXCEPT ![i] = q] \in Seq(Ptrs)
          /\ Len([ptrVec[c] EXCEPT ![i] = q]) = Len(ptrVec[c])
          /\ \A j \in 1..Len(ptrVec[c]) :
               [ptrVec[c] EXCEPT ![i] = q][j] = IF j = i THEN q ELSE ptrVec[c][j]
      BY <1>2, <1>6, <3>1
    <3> QED
      BY <1>1, <2>3, <3>2, <1>t DEF Types
  <2> HIDE DEF swapped
  <2>5. swapped[head] \in Seq(Ptrs) /\ swapped[head] # <<>> /\ Len(swapped[head]) = n
    BY <1>4, <1>6, <2>4
  <2>6. /\ ptrVec' \in [Chunks -> Seq(Ptrs)]
        /\ Len(ptrVec'[head]) = n - 1
        /\ \A j \in 1..(n - 1) : ptrVec'[head][j] = swapped[head][j]
        /\ \A d \in Chunks \ {head} : ptrVec'[d] = swapped[d]
    <3>1. /\ Seqs!Front(swapped[head]) \in Seq(Ptrs)
          /\ Len(Seqs!Front(swapped[head])) = n - 1
          /\ \A j \in 1..(n - 1) : Seqs!Front(swapped[head])[j] = swapped[head][j]
      BY <2>5, FrontLast
    <3>2. ptrVec' = [swapped EXCEPT ![head] = Seqs!Front(swapped[head])]
      BY <2>2
    <3> QED
      BY <1>4, <2>4, <3>1, <3>2
  <2>7. \A d \in Chunks : \A j \in 1..Len(ptrVec'[d]) :
          ptrVec'[d][j] = IF d = c /\ j = i THEN q ELSE ptrVec[d][j]
    <3> SUFFICES ASSUME NEW d \in Chunks, NEW j \in 1..Len(ptrVec'[d])
                 PROVE  ptrVec'[d][j] = IF d = c /\ j = i THEN q ELSE ptrVec[d][j]
      OBVIOUS
    <3>1. CASE d = head
      BY <1>6, <2>4, <2>6, <3>1
    <3>2. CASE d # head
      BY <2>4, <2>6, <3>2
    <3> QED
      BY <3>1, <3>2
  <2>8. /\ chunk' = [x \in Ptrs |-> IF x = p THEN NULL ELSE IF x = q THEN c ELSE chunk[x]]
        /\ pos' = [x \in Ptrs |-> IF x = p THEN 0 ELSE IF x = q THEN pos[p] ELSE pos[x]]
    BY <1>11, <2>2, <1>t DEF Types
  <2>9. \A d \in Chunks \ {head} : Len(ptrVec'[d]) = Len(ptrVec[d])
    BY <2>4, <2>6
  <2>10. Removed(p, c, i, head, q)
    BY <1>2, <1>3, <1>4, <1>6, <1>7, <1>11, <2>1, <2>6, <2>7, <2>8, <2>9 DEF Removed
  <2> QED
    BY <1>1, <1>2, <1>3, <1>4, <1>6, <2>10
<1> QED
  BY <1>10, <1>11

(* A pointer stands in one slot of one chunk.                              *)
LEMMA OneSlot ==
  ASSUME IInv, NEW c \in Chunks, NEW d \in Chunks,
         NEW i \in 1..Len(ptrVec[c]), NEW j \in 1..Len(ptrVec[d]), ptrVec[c][i] = ptrVec[d][j]
  PROVE  c = d /\ i = j
<1>1. /\ chunk[ptrVec[c][i]] = c /\ pos[ptrVec[c][i]] = (i - 1) * clen[c]
      /\ chunk[ptrVec[d][j]] = d /\ pos[ptrVec[d][j]] = (j - 1) * clen[d]
  BY DEF IInv, Layout, SlotsOK
<1>2. c = d /\ (i - 1) * clen[c] = (j - 1) * clen[c]
  BY <1>1
<1>3. clen[c] \in Nat /\ clen[c] > 0 /\ i - 1 \in Nat /\ j - 1 \in Nat
  <2>1. Len(ptrVec[c]) \in Nat /\ Len(ptrVec[d]) \in Nat /\ ptrVec[c] # <<>>
    BY DEF IInv, Types
  <2> QED
    BY <2>1, LenNat DEF IInv, Layout, SlotsOK
<1>4. ((i - 1) * clen[c]) \div clen[c] = i - 1 /\ ((j - 1) * clen[c]) \div clen[c] = j - 1
  BY <1>3, SlotDiv
<1> QED
  BY <1>2, <1>3, <1>4

LEMMA RemoveIInv ==
  ASSUME IInv, NEW p \in Live, Remove(p)
  PROVE  IInv'
<1>1. PICK c \in Chunks, head \in Chunks, q \in Ptrs, i \in Nat : Removed(p, c, i, head, q)
  BY RemoveEffect
<1>t. Types /\ Layout
  BY DEF IInv
<1> DEFINE n == Len(ptrVec[head])
           len == clen[c]
<1>2. /\ n \in Nat /\ n > 0 /\ len \in Lens /\ len \in Nat /\ len > 0 /\ clen[head] = len
      /\ i \in 1..Len(ptrVec[c]) /\ ptrVec[c][i] = p /\ q = ptrVec[head][n] /\ p \in Ptrs
      /\ n \in 1..n /\ ptrVec[head] # <<>>
  <2>1. ptrVec[head] \in Seq(Ptrs) /\ p \in Ptrs
    BY <1>t DEF Types, Live
  <2>2. n \in Nat
    BY <2>1
  <2>3. /\ n > 0 /\ len \in Lens /\ clen[head] = len
        /\ i \in 1..Len(ptrVec[c]) /\ ptrVec[c][i] = p /\ q = ptrVec[head][n]
    BY <1>1 DEF Removed
  <2>4. n \in 1..n /\ ptrVec[head] # <<>>
    BY <2>1, <2>2, <2>3
  <2> QED
    BY <2>1, <2>2, <2>3, <2>4, LenNat
<1>3. space[head] - clen[head] = len * (n - 1)
  <2>1. space[head] = len * n
    BY <1>2, <1>t DEF Layout, SlotsOK
  <2>2. n - 1 \in Nat /\ (n - 1) + 1 = n
    BY <1>2
  <2>3. len * ((n - 1) + 1) = len * (n - 1) + len /\ len * (n - 1) \in Nat
    BY <1>2, <2>2, SlotSucc
  <2> QED
    BY <1>2, <2>1, <2>2, <2>3
<1>4. /\ space' = [space EXCEPT ![head] = len * (n - 1)]
      /\ IF n = 1
         THEN /\ savedMemory' = Append(savedMemory, head)
              /\ lastChunk' = [lastChunk EXCEPT ![len] = NULL]
         ELSE /\ lastChunk' = [lastChunk EXCEPT ![len] = head]
              /\ savedMemory' = savedMemory
      /\ clen' = clen /\ allocated' = allocated
  <2>1. len * (n - 1) = 0 <=> n = 1
    <3>1. n - 1 \in Nat /\ (n - 1 = 0 <=> n = 1)
      BY <1>2
    <3> QED
      BY <1>2, <3>1, SlotZero
  <2>2. head = HeadOf(p) /\ c = chunk[p]
    BY <1>1 DEF Removed
  <2> QED
    BY <1>3, <2>1, <2>2 DEF Remove
<1>len. \A d \in Chunks : /\ Len(ptrVec[d]) \in Nat
                          /\ Len(ptrVec'[d]) = IF d = head THEN n - 1 ELSE Len(ptrVec[d])
  <2>1. \A d \in Chunks : Len(ptrVec[d]) \in Nat
    BY <1>t DEF Types
  <2>2. \A d \in Chunks : d # head => Len(ptrVec'[d]) = Len(ptrVec[d])
    BY <1>1 DEF Removed
  <2>3. Len(ptrVec'[head]) = n - 1
    BY <1>1 DEF Removed
  <2> QED
    BY <2>1, <2>2, <2>3
<1>5. \A d \in Chunks, j \in Nat : j \in 1..Len(ptrVec'[d]) =>
        /\ j \in 1..Len(ptrVec[d])
        /\ d = c /\ j = i => ptrVec'[d][j] = q /\ p # q
        /\ ~(d = c /\ j = i) => /\ ptrVec'[d][j] = ptrVec[d][j]
                                /\ ptrVec[d][j] \in Ptrs \ {p, q}
  <2> SUFFICES ASSUME NEW d \in Chunks, NEW j \in 1..Len(ptrVec'[d])
               PROVE  /\ j \in 1..Len(ptrVec[d])
                      /\ d = c /\ j = i => ptrVec'[d][j] = q /\ p # q
                      /\ ~(d = c /\ j = i) => /\ ptrVec'[d][j] = ptrVec[d][j]
                                              /\ ptrVec[d][j] \in Ptrs \ {p, q}
    OBVIOUS
  <2>1. j \in 1..Len(ptrVec[d]) /\ (d = head => j # n)
    BY <1>2, <1>len
  <2>2. ptrVec[d][j] # q
    BY <1>2, <2>1, OneSlot
  <2>3. ptrVec[d][j] = p => d = c /\ j = i
    BY <1>2, <2>1, OneSlot
  <2>4. ptrVec[d][j] \in Ptrs
    BY <2>1, <1>t DEF Types
  <2> QED
    BY <1>1, <1>2, <2>1, <2>2, <2>3, <2>4 DEF Removed
<1>6. Types'
  <2>1. Load(q) \in [0..(len - 1) -> Byte] \/ p = q
    <3>1. q \in Live
      BY <1>1, <1>2, NullAssumption DEF Removed, Live
    <3> QED
      BY <1>1, <1>2, <3>1, LiveBlock DEF Removed
  <2>2. memory' \in [Chunks -> [Addr -> Byte]]
    <3>1. memory' = IF p = q THEN memory ELSE Write(p, Load(q))
      BY <1>1 DEF Removed
    <3>2. ASSUME Load(q) \in [0..(len - 1) -> Byte]
          PROVE  Write(p, Load(q)) \in [Chunks -> [Addr -> Byte]]
      BY <1>t, <3>2 DEF Write, Types
    <3>3. memory \in [Chunks -> [Addr -> Byte]]
      BY <1>t DEF Types
    <3> QED
      BY <2>1, <3>1, <3>2, <3>3
  <2>3. chunk' \in [Ptrs -> Chunks \cup {NULL}] /\ pos' \in [Ptrs -> Nat]
        /\ ptrVec' \in [Chunks -> Seq(Ptrs)]
    <3>1. chunk' \in [Ptrs -> Chunks \cup {NULL}]
      BY <1>1, <1>t DEF Removed, Types
    <3>2. pos' \in [Ptrs -> Nat]
      BY <1>1, <1>t DEF Removed, Types
    <3>3. ptrVec' \in [Chunks -> Seq(Ptrs)]
      BY <1>1, <1>t DEF Removed, Types
    <3> QED
      BY <3>1, <3>2, <3>3
  <2>4. len * (n - 1) \in Nat
    BY <1>2, SlotSucc
  <2>5. space' \in [Chunks -> Nat] /\ clen' \in [Chunks -> Lens \cup {0}]
        /\ allocated' \in SUBSET Chunks
    BY <1>4, <1>t, <2>4 DEF Types
  <2>6. lastChunk' \in [Lens -> Chunks \cup {NULL}]
    BY <1>4, <1>t DEF Types
  <2>7. savedMemory' \in Seq(Chunks)
    <3>1. savedMemory \in Seq(Chunks) /\ Append(savedMemory, head) \in Seq(Chunks)
      BY <1>t DEF Types
    <3> QED
      BY <1>4, <3>1
  <2> QED
    BY <2>2, <2>3, <2>5, <2>6, <2>7 DEF Types
<1>7. SlotsOK'
  <2> SUFFICES ASSUME NEW d \in Chunks
               PROVE  /\ ptrVec'[d] # <<>> => clen[d] \in Lens
                      /\ space'[d] = clen[d] * Len(ptrVec'[d])
                      /\ space'[d] <= ChunkSize
                      /\ \A j \in 1..Len(ptrVec'[d]) :
                           /\ chunk'[ptrVec'[d][j]] = d
                           /\ pos'[ptrVec'[d][j]] = (j - 1) * clen[d]
    BY <1>4 DEF SlotsOK
  <2>1. /\ ptrVec[d] # <<>> => clen[d] \in Lens
        /\ space[d] = clen[d] * Len(ptrVec[d])
        /\ space[d] <= ChunkSize
        /\ \A j \in 1..Len(ptrVec[d]) :
             /\ chunk[ptrVec[d][j]] = d
             /\ pos[ptrVec[d][j]] = (j - 1) * clen[d]
    BY <1>t DEF Layout, SlotsOK
  <2>2. ptrVec'[d] # <<>> => clen[d] \in Lens
    <3>1. ptrVec'[d] # <<>> => Len(ptrVec'[d]) > 0
      BY <1>6 DEF Types
    <3>2. Len(ptrVec'[d]) > 0 => Len(ptrVec[d]) > 0
      BY <1>1, <1>2 DEF Removed
    <3> QED
      BY <2>1, <3>1, <3>2
  <2>3. space'[d] = clen[d] * Len(ptrVec'[d]) /\ space'[d] <= ChunkSize
    <3>1. CASE d = head
      <4>1. space'[d] = len * (n - 1) /\ Len(ptrVec'[d]) = n - 1
        BY <1>1, <1>4, <1>t, <3>1 DEF Removed, Types
      <4>2. space'[d] = space[d] - len /\ space[d] \in Nat
        BY <1>2, <1>3, <1>t, <3>1, <4>1 DEF Types
      <4>3. space'[d] <= ChunkSize
        BY <1>2, <2>1, <4>2, SizeAssumption
      <4> QED
        BY <1>2, <3>1, <4>1, <4>3
    <3>2. CASE d # head
      BY <1>1, <1>4, <1>t, <2>1, <3>2 DEF Removed, Types
    <3> QED
      BY <3>1, <3>2
  <2>4. ASSUME NEW j \in 1..Len(ptrVec'[d])
        PROVE  chunk'[ptrVec'[d][j]] = d /\ pos'[ptrVec'[d][j]] = (j - 1) * clen[d]
    <3>1. CASE d = c /\ j = i
      <4>1. ptrVec'[d][j] = q /\ p # q
        BY <1>5, <3>1
      <4> QED
        BY <1>1, <3>1, <4>1 DEF Removed
    <3>2. CASE ~(d = c /\ j = i)
      <4>1. /\ j \in 1..Len(ptrVec[d]) /\ ptrVec'[d][j] = ptrVec[d][j]
            /\ ptrVec[d][j] \in Ptrs \ {p, q}
        BY <1>5, <3>2
      <4> QED
        BY <1>1, <2>1, <4>1 DEF Removed
    <3> QED
      BY <3>1, <3>2
  <2> QED
    BY <2>2, <2>3, <2>4
<1>8. BackPointersOK'
  <2> SUFFICES ASSUME NEW x \in Ptrs, chunk'[x] # NULL
               PROVE  \E j \in 1..Len(ptrVec'[chunk'[x]]) : ptrVec'[chunk'[x]][j] = x
    BY DEF BackPointersOK, Live
  <2>1. x # p
    BY <1>1 DEF Removed
  <2>2. CASE x = q
    <3>1. chunk'[x] = c
      BY <1>1, <2>1, <2>2 DEF Removed
    <3>2. c = head => i # n
      BY <1>2, <2>1, <2>2
    <3>3. i \in 1..Len(ptrVec'[c])
      BY <1>1, <1>2, <3>2 DEF Removed
    <3> QED
      BY <1>5, <2>2, <3>1, <3>3
  <2>3. CASE x # q
    <3>1. chunk'[x] = chunk[x] /\ chunk[x] \in Chunks
      BY <1>1, <2>1, <2>3, <1>t DEF Removed, Types
    <3>2. PICK j \in 1..Len(ptrVec[chunk[x]]) : ptrVec[chunk[x]][j] = x
      BY <3>1, <1>t DEF Layout, BackPointersOK, Live
    <3>3. j \in 1..Len(ptrVec'[chunk[x]])
      <4>1. chunk[x] = head => j # n
        BY <1>2, <2>3, <3>2
      <4> QED
        BY <1>2, <1>len, <3>1, <3>2, <4>1
    <3>4. ~(chunk[x] = c /\ j = i)
      BY <1>2, <2>1, <3>2
    <3> QED
      BY <1>5, <3>1, <3>2, <3>3, <3>4
  <2> QED
    BY <2>2, <2>3
<1>9. \A d \in Chunks : /\ d # head => (ptrVec'[d] = <<>> <=> ptrVec[d] = <<>>)
                        /\ d = head => (ptrVec'[d] = <<>> <=> n = 1)
  <2>1. \A d \in Chunks : ptrVec'[d] \in Seq(Ptrs) /\ ptrVec[d] \in Seq(Ptrs)
    BY <1>6, <1>t DEF Types
  <2>2. \A d \in Chunks : /\ ptrVec'[d] = <<>> <=> Len(ptrVec'[d]) = 0
                          /\ ptrVec[d] = <<>> <=> Len(ptrVec[d]) = 0
    BY <2>1
  <2>3. \A d \in Chunks : d # head => Len(ptrVec'[d]) = Len(ptrVec[d])
    BY <1>len
  <2>4. Len(ptrVec'[head]) = n - 1
    BY <1>1 DEF Removed
  <2>5. n - 1 = 0 <=> n = 1
    BY <1>2
  <2> QED
    BY <2>2, <2>3, <2>4, <2>5
<1>10. HeadsOK'
  <2> SUFFICES ASSUME NEW l \in Lens, lastChunk'[l] # NULL
               PROVE  clen[lastChunk'[l]] = l /\ ptrVec'[lastChunk'[l]] # <<>>
    BY <1>4 DEF HeadsOK
  <2>1. CASE l = len
    BY <1>2, <1>4, <1>9, <1>t, <2>1 DEF Types
  <2>2. CASE l # len
    <3>1. lastChunk'[l] = lastChunk[l]
      BY <1>4, <1>t, <2>2 DEF Types
    <3>2. lastChunk[l] \in Chunks /\ clen[lastChunk[l]] = l /\ ptrVec[lastChunk[l]] # <<>>
      BY <3>1, <1>t DEF Types, Layout, HeadsOK
    <3> QED
      BY <1>2, <1>9, <2>2, <3>1, <3>2
  <2> QED
    BY <2>1, <2>2
<1>11. OnlyHeadHasRoom'
  <2> SUFFICES ASSUME NEW d \in Chunks, ptrVec'[d] # <<>>, ~IsFull(d)'
               PROVE  lastChunk'[clen[d]] = d
    BY <1>4 DEF OnlyHeadHasRoom
  <2>1. CASE d = head
    BY <1>2, <1>4, <1>9, <1>t, <2>1 DEF Types
  <2>2. CASE d # head
    <3>1. ptrVec[d] # <<>> /\ ~IsFull(d)
      BY <1>4, <1>9, <1>t, <2>2 DEF Types, IsFull
    <3>2. clen[d] \in Lens /\ lastChunk[clen[d]] = d
      BY <3>1, <1>t DEF IInv, Layout, SlotsOK, OnlyHeadHasRoom
    <3>3. clen[d] # len
      BY <1>1, <2>2, <3>2, NullAssumption DEF Removed, HeadOf
    <3> QED
      BY <1>4, <1>t, <3>2, <3>3 DEF Types
  <2> QED
    BY <2>1, <2>2
<1>12. PoolOK'
  <2>1. /\ Pooled = {d \in allocated : ptrVec[d] = <<>>}
        /\ \A k, l \in 1..Len(savedMemory) : savedMemory[k] = savedMemory[l] => k = l
        /\ \A d \in Chunks : ptrVec[d] # <<>> => d \in allocated
    BY DEF IInv, PoolOK
  <2>2. allocated \subseteq Chunks /\ savedMemory \in Seq(Chunks)
    BY <1>t DEF Types
  <2>3. head \in allocated /\ head \notin Pooled
    BY <1>2, <2>1
  <2>4. \A d \in Chunks : ptrVec'[d] # <<>> => d \in allocated'
    BY <1>2, <1>4, <1>9, <2>1
  <2>5. CASE n = 1
    <3>1. savedMemory' = Append(savedMemory, head)
      BY <1>4, <2>5
    <3> DEFINE m == Len(savedMemory)
    <3>2. /\ m \in Nat /\ Len(savedMemory') = m + 1 /\ savedMemory'[m + 1] = head
          /\ \A k \in 1..m : savedMemory'[k] = savedMemory[k]
      BY <2>2, <3>1
    <3>3. \A k \in 1..m : savedMemory[k] # head
      BY <2>3 DEF Pooled
    <3>4. \A k, l \in 1..Len(savedMemory') : savedMemory'[k] = savedMemory'[l] => k = l
      <4>1. \A k \in 1..(m + 1) : k \in 1..m \/ k = m + 1
        BY <3>2
      <4> QED
        BY <2>1, <3>2, <3>3, <4>1
    <3>5. Pooled' = Pooled \cup {head}
      <4>1. \A x : x \in Pooled' <=> \E k \in 1..(m + 1) : x = savedMemory'[k]
        BY <3>2 DEF Pooled
      <4>2. \A x : x \in Pooled <=> \E k \in 1..m : x = savedMemory[k]
        BY DEF Pooled
      <4>3. \A k : k \in 1..(m + 1) <=> k \in 1..m \/ k = m + 1
        BY <3>2
      <4> QED
        BY <3>2, <4>1, <4>2, <4>3
    <3>6. Pooled' = {d \in allocated' : ptrVec'[d] = <<>>}
      BY <1>4, <1>9, <2>1, <2>2, <2>3, <2>5, <3>5
    <3> QED
      BY <2>4, <3>4, <3>6 DEF PoolOK
  <2>6. CASE n # 1
    <3>1. savedMemory' = savedMemory
      BY <1>4, <2>6
    <3>2. Pooled' = {d \in allocated' : ptrVec'[d] = <<>>}
      BY <1>2, <1>4, <1>9, <2>1, <2>2, <2>6, <3>1 DEF Pooled
    <3> QED
      BY <2>1, <2>4, <3>1, <3>2 DEF PoolOK
  <2> QED
    BY <2>5, <2>6
<1> QED
  BY <1>6, <1>7, <1>8, <1>10, <1>11, <1>12 DEF IInv, Layout

LEMMA NextIInv == IInv /\ [Next]_vars => IInv'
<1> SUFFICES ASSUME IInv, [Next]_vars PROVE IInv'
  OBVIOUS
<1>1. CASE \E len \in Lens, p \in Ptrs : Create(len, p)
  BY <1>1, CreateIInv
<1>2. CASE \E p \in Live : \E img \in Images(clen[chunk[p]]) : Fill(p, img)
  BY <1>2, FillIInv
<1>3. CASE \E p \in Live : Remove(p)
  BY <1>3, RemoveIInv
<1>4. CASE UNCHANGED vars
  BY <1>4 DEF vars, IInv, Types, Layout, SlotsOK, BackPointersOK, HeadsOK,
              OnlyHeadHasRoom, IsFull, PoolOK, Pooled, Live
<1> QED
  BY <1>1, <1>2, <1>3, <1>4 DEF Next

(* The manager's bookkeeping holds in every reachable state: types, the    *)
(* layout of the blocks, room only in the head chunks, and the pool.       *)
THEOREM Safety == Spec => []IInv
<1> QED
  BY InitIInv, NextIInv, PTL DEF Spec

(* Every variable keeps its type, and no block of a pointer reaches beyond *)
(* the used part of its chunk, nor that beyond the chunk: no address that  *)
(* fill, load or the copy of remove uses leaves the chunk.                 *)
THEOREM TypeCorrect == Spec => []TypeOK
<1>1. IInv => TypeOK
  <2> SUFFICES ASSUME IInv PROVE TypeOK
    OBVIOUS
  <2>1. \A c \in Chunks : space[c] <= ChunkSize
    BY DEF IInv, Layout, SlotsOK
  <2>2. \A p \in Live : pos[p] + clen[chunk[p]] <= space[chunk[p]]
    BY LiveBlock
  <2> QED
    BY <2>1, <2>2 DEF IInv, TypeOK, BlocksInside
<1> QED
  BY <1>1, Safety, PTL

(* Pointers, ptrVec, space and lastChunk agree after any operations.       *)
THEOREM LayoutCorrect == Spec => []Layout
<1>1. IInv => Layout
  BY DEF IInv
<1> QED
  BY <1>1, Safety, PTL

(* Of the chunks of one length only the head has room.                     *)
THEOREM RoomCorrect == Spec => []OnlyHeadHasRoom
<1>1. IInv => OnlyHeadHasRoom
  BY DEF IInv
<1> QED
  BY <1>1, Safety, PTL

(* The pool holds the empty chunks, each once, and no chunk is lost.       *)
THEOREM PoolCorrect == Spec => []PoolOK
<1>1. IInv => PoolOK
  BY DEF IInv
<1> QED
  BY <1>1, Safety, PTL
-----------------------------------------------------------------------------
(* Two live blocks of one chunk lie one after the other.                   *)
LEMMA SlotsApart ==
  ASSUME IInv, NEW p \in Live, NEW q \in Live, p # q, chunk[p] = chunk[q]
  PROVE  \/ pos[p] + clen[chunk[p]] <= pos[q]
         \/ pos[q] + clen[chunk[p]] <= pos[p]
<1> DEFINE c == chunk[p]
           len == clen[c]
<1>1. c \in Chunks /\ len \in Nat /\ len > 0
  BY LiveBlock, LenNat
<1>2. PICK i \in 1..Len(ptrVec[c]) : ptrVec[c][i] = p
  BY DEF IInv, Layout, BackPointersOK
<1>3. PICK j \in 1..Len(ptrVec[c]) : ptrVec[c][j] = q
  BY DEF IInv, Layout, BackPointersOK
<1>4. pos[p] = (i - 1) * len /\ pos[q] = (j - 1) * len
  BY <1>1, <1>2, <1>3 DEF IInv, Layout, SlotsOK
<1>5. Len(ptrVec[c]) \in Nat
  BY <1>1 DEF IInv, Types
<1>6. i - 1 \in Nat /\ j - 1 \in Nat /\ (i - 1 < j - 1 \/ j - 1 < i - 1)
  BY <1>2, <1>3, <1>5
<1> QED
  BY <1>1, <1>4, <1>6, SlotOrder

(* No two blocks overlap, whatever their lengths.                          *)
THEOREM Disjoint == Spec => []NoOverlap
<1>1. IInv => NoOverlap
  <2> SUFFICES ASSUME IInv, NEW p \in Live, NEW q \in Live, p # q,
                      NEW x \in Extent(p), x \in Extent(q)
               PROVE  FALSE
    BY DEF NoOverlap
  <2>1. PICK a \in pos[p]..(pos[p] + clen[chunk[p]] - 1) : x = <<chunk[p], a>>
    BY DEF Extent
  <2>2. PICK b \in pos[q]..(pos[q] + clen[chunk[q]] - 1) : x = <<chunk[q], b>>
    BY DEF Extent
  <2>3. chunk[p] = chunk[q] /\ a = b
    BY <2>1, <2>2
  <2>4. pos[p] \in Nat /\ pos[q] \in Nat /\ clen[chunk[p]] \in Nat
    BY LiveBlock, LenNat
  <2>5. \/ pos[p] + clen[chunk[p]] <= pos[q]
        \/ pos[q] + clen[chunk[p]] <= pos[p]
    BY <2>3, SlotsApart
  <2> QED
    BY <2>3, <2>4, <2>5
<1> QED
  BY <1>1, Safety, PTL

(* The chunks that were ever newed are finite in number.                   *)
LEMMA AllocatedFinite == Spec => []IsFiniteSet(allocated)
<1>1. Init => IsFiniteSet(allocated)
  BY FS_EmptySet DEF Init
<1>2. ASSUME IsFiniteSet(allocated), [Next]_vars PROVE IsFiniteSet(allocated)'
  <2>1. ASSUME NEW len \in Lens, NEW p \in Ptrs, Create(len, p)
        PROVE  IsFiniteSet(allocated')
    BY <1>2, <2>1, FS_AddElement DEF Create, Reserve
  <2>2. ASSUME NEW p \in Live, NEW img \in Images(clen[chunk[p]]), Fill(p, img)
        PROVE  IsFiniteSet(allocated')
    BY <1>2, <2>2 DEF Fill
  <2>3. ASSUME NEW p \in Live, Remove(p)
        PROVE  IsFiniteSet(allocated')
    BY <1>2, <2>3 DEF Remove
  <2>4. ASSUME UNCHANGED vars PROVE IsFiniteSet(allocated')
    BY <1>2, <2>4 DEF vars
  <2> QED
    BY <1>2, <2>1, <2>2, <2>3, <2>4 DEF Next
<1> QED
  BY <1>1, <1>2, PTL DEF Spec

(* ceil(n / per), when all chunks but one are full and that one is not     *)
(* empty.                                                                  *)
LEMMA RoundUp ==
  ASSUME NEW m \in Nat, NEW per \in Nat, NEW k \in 1..per
  PROVE  (m * per + k + per - 1) \div per = m + 1
<1>1. m * per + k + per - 1 = (m + 1) * per + (k - 1)
  OBVIOUS
<1>2. k - 1 \in 0..(per - 1) /\ per > 0 /\ m + 1 \in Nat
  OBVIOUS
<1>3. \A a, r \in Nat : r < per => (a * per + r) \div per = a
  BY <1>2
<1> QED
  BY <1>1, <1>2, <1>3

(* The blocks of a length, one to one with the places of its chunks that   *)
(* they take.                                                              *)
ChunksOf(len) == {c \in Chunks : ptrVec[c] # <<>> /\ clen[c] = len}
BlocksOf(len) == {p \in Live : clen[chunk[p]] = len}
PlacesOf(len) == {s \in ChunksOf(len) \X Nat : s[2] < Len(ptrVec[s[1]])}

LEMMA BlocksToPlaces ==
  ASSUME IInv, NEW len \in Lens
  PROVE  ExistsBijection(PlacesOf(len), BlocksOf(len))
<1> DEFINE f == [s \in PlacesOf(len) |-> ptrVec[s[1]][s[2] + 1]]
<1>1. ASSUME NEW s \in PlacesOf(len)
      PROVE  /\ s[1] \in Chunks /\ s[2] \in Nat /\ s = <<s[1], s[2]>> /\ clen[s[1]] = len
             /\ f[s] \in BlocksOf(len) /\ chunk[f[s]] = s[1] /\ pos[f[s]] = s[2] * len
  <2>1. s[1] \in Chunks /\ s[2] \in Nat /\ s = <<s[1], s[2]>> /\ clen[s[1]] = len
    BY DEF PlacesOf, ChunksOf
  <2>2. ptrVec[s[1]] \in Seq(Ptrs) /\ s[2] + 1 \in 1..Len(ptrVec[s[1]])
    BY <2>1 DEF IInv, Types, PlacesOf
  <2>3. f[s] \in Ptrs /\ chunk[f[s]] = s[1] /\ pos[f[s]] = (s[2] + 1 - 1) * clen[s[1]]
    BY <2>1, <2>2 DEF IInv, Layout, SlotsOK
  <2>4. s[1] # NULL
    BY <2>1, NullAssumption
  <2> QED
    BY <2>1, <2>3, <2>4 DEF BlocksOf, Live
<1>2. ASSUME NEW p \in BlocksOf(len)
      PROVE  \E s \in PlacesOf(len) : f[s] = p
  <2>1. p \in Live /\ clen[chunk[p]] = len /\ chunk[p] \in Chunks
    BY LiveBlock DEF BlocksOf
  <2>2. PICK i \in 1..Len(ptrVec[chunk[p]]) : ptrVec[chunk[p]][i] = p
    BY <2>1 DEF IInv, Layout, BackPointersOK
  <2>3. Len(ptrVec[chunk[p]]) \in Nat /\ ptrVec[chunk[p]] # <<>>
    BY <2>1, <2>2 DEF IInv, Types
  <2>4. <<chunk[p], i - 1>> \in PlacesOf(len) /\ i - 1 + 1 = i
    BY <2>1, <2>2, <2>3 DEF PlacesOf, ChunksOf
  <2> QED
    BY <2>2, <2>4
<1>3. ASSUME NEW s \in PlacesOf(len), NEW t \in PlacesOf(len), f[s] = f[t]
      PROVE  s = t
  <2>1. s[1] = t[1] /\ s[2] * len = t[2] * len /\ s[2] \in Nat /\ t[2] \in Nat
    BY <1>1, <1>3
  <2>2. s[2] = t[2]
    BY <2>1, LenNat, SlotDiv
  <2> QED
    BY <1>1, <2>1, <2>2
<1> HIDE DEF f
<1>4. f \in [PlacesOf(len) -> BlocksOf(len)]
  BY <1>1 DEF f
<1>5. f \in Bijection(PlacesOf(len), BlocksOf(len))
  BY <1>2, <1>3, <1>4 DEF Bijection, Injection, IsInjective, Surjection
<1> QED
  BY <1>5 DEF ExistsBijection

(* Of the chunks of a length, every full one holds as many blocks as fit,  *)
(* and there is one such that all others are full.                         *)
LEMMA OneChunkHasRoom ==
  ASSUME IInv, NEW len \in Lens, ChunksOf(len) # {}
  PROVE  /\ ChunkSize \div len \in Nat
         /\ \E h \in ChunksOf(len) :
              /\ Len(ptrVec[h]) \in 1..(ChunkSize \div len)
              /\ \A c \in ChunksOf(len) \ {h} : Len(ptrVec[c]) = ChunkSize \div len
<1> DEFINE per == ChunkSize \div len
<1>1. len \in Nat /\ len > 0 /\ ChunkSize \in Nat
  BY LenNat, SizeAssumption
<1>2. per \in Nat
  BY <1>1
<1>3. ASSUME NEW c \in ChunksOf(len)
      PROVE  /\ c \in Chunks /\ clen[c] = len /\ ptrVec[c] # <<>>
             /\ Len(ptrVec[c]) \in 1..per
             /\ IsFull(c) => Len(ptrVec[c]) = per
  <2>1. c \in Chunks /\ clen[c] = len /\ ptrVec[c] # <<>>
    BY DEF ChunksOf
  <2>2. Len(ptrVec[c]) \in Nat /\ Len(ptrVec[c]) > 0
    BY <2>1 DEF IInv, Types
  <2>3. space[c] = len * Len(ptrVec[c]) /\ space[c] <= ChunkSize
    BY <2>1 DEF IInv, Layout, SlotsOK
  <2>4. \A k \in Nat : len * k <= ChunkSize => k <= per
    BY <1>1
  <2>5. \A k \in Nat : len + len * k > ChunkSize => k >= per
    BY <1>1
  <2> QED
    BY <1>1, <1>2, <2>1, <2>2, <2>3, <2>4, <2>5 DEF IsFull
<1>4. \A c \in ChunksOf(len) : ~IsFull(c) => lastChunk[len] = c
  BY <1>3 DEF IInv, OnlyHeadHasRoom
<1>5. PICK h \in ChunksOf(len) : lastChunk[len] \in ChunksOf(len) => h = lastChunk[len]
  OBVIOUS
<1>6. \A c \in ChunksOf(len) \ {h} : IsFull(c)
  BY <1>4, <1>5
<1> QED
  BY <1>2, <1>3, <1>6

(* The chunks of a length are ceil(n / per) for its n blocks.              *)
LEMMA Packed ==
  ASSUME IInv, IsFiniteSet(allocated), NEW len \in Lens
  PROVE  Cardinality(ChunksOf(len))
           = (Cardinality(BlocksOf(len)) + ChunkSize \div len - 1) \div (ChunkSize \div len)
<1> DEFINE per == ChunkSize \div len
           C == ChunksOf(len)
<1>1. per \in Nat /\ per > 0
  BY LenNat, SizeAssumption
<1>2. IsFiniteSet(C)
  <2>1. C \in SUBSET allocated
    BY DEF ChunksOf, IInv, PoolOK
  <2> QED
    BY <2>1, FS_Subset
<1>3. CASE C = {}
  <2>1. PlacesOf(len) = {}
    BY <1>3 DEF PlacesOf
  <2>2. Cardinality(BlocksOf(len)) = 0
    BY <2>1, BlocksToPlaces, FS_Bijection, FS_EmptySet
  <2>3. (0 + per - 1) \div per = 0
    BY <1>1
  <2> QED
    BY <1>3, <2>2, <2>3, FS_EmptySet
<1>4. CASE C # {}
  <2>1. PICK h \in C : /\ Len(ptrVec[h]) \in 1..per
                       /\ \A c \in C \ {h} : Len(ptrVec[c]) = per
    BY <1>4, OneChunkHasRoom
  <2> DEFINE m == Cardinality(C \ {h})
             k == Len(ptrVec[h])
             full == (C \ {h}) \X (0..(per - 1))
             rest == {h} \X (0..(k - 1))
  <2>2. IsFiniteSet(C \ {h}) /\ m \in Nat /\ Cardinality(C) = m + 1
    <3>1. IsFiniteSet(C \ {h}) /\ Cardinality(C \ {h}) = Cardinality(C) - 1
      BY <1>2, FS_RemoveElement
    <3>2. Cardinality(C) \in Nat /\ Cardinality(C \ {h}) \in Nat
      BY <1>2, <3>1, FS_CardinalityType
    <3> QED
      BY <3>1, <3>2
  <2>3. IsFiniteSet(full) /\ Cardinality(full) = m * per
    <3>1. IsFiniteSet(0..(per - 1)) /\ Cardinality(0..(per - 1)) = per
      BY <1>1, FS_Interval
    <3> QED
      BY <2>2, <3>1, FS_Product
  <2>4. IsFiniteSet(rest) /\ Cardinality(rest) = k
    <3>1. IsFiniteSet(0..(k - 1)) /\ Cardinality(0..(k - 1)) = k
      BY <2>1, FS_Interval
    <3>2. IsFiniteSet({h}) /\ Cardinality({h}) = 1
      BY FS_Singleton
    <3>3. IsFiniteSet(rest) /\ Cardinality(rest) = 1 * k
      BY <3>1, <3>2, FS_Product
    <3> QED
      BY <2>1, <3>3
  <2>5. full \cap rest = {}
    OBVIOUS
  <2>6. PlacesOf(len) = full \cup rest
    <3>1. ASSUME NEW c \in C PROVE Len(ptrVec[c]) \in Nat
      BY <1>1, <2>1
    <3>2. ASSUME NEW c \in C, NEW i \in Nat
          PROVE  i < Len(ptrVec[c]) <=> <<c, i>> \in full \cup rest
      BY <1>1, <2>1, <3>1
    <3>3. full \cup rest \subseteq C \X Nat
      BY <1>1, <2>1
    <3> QED
      BY <3>2, <3>3 DEF PlacesOf
  <2>7. IsFiniteSet(PlacesOf(len)) /\ Cardinality(PlacesOf(len)) = m * per + k
    <3>1. /\ IsFiniteSet(full \cup rest)
          /\ Cardinality(full \cup rest) = m * per + k - Cardinality({})
      BY <2>3, <2>4, <2>5, FS_Union
    <3> QED
      BY <1>1, <2>1, <2>2, <2>6, <3>1, FS_EmptySet
  <2>8. Cardinality(BlocksOf(len)) = m * per + k
    BY <2>7, BlocksToPlaces, FS_Bijection
  <2> QED
    BY <1>1, <2>1, <2>2, <2>8, RoundUp
<1> QED
  BY <1>3, <1>4

(* The space a length takes is the least for its number of blocks, after   *)
(* creations and removals of any number of blocks in any order.            *)
THEOREM Compact == Spec => []NoFragmentation
<1>1. IInv /\ IsFiniteSet(allocated) => NoFragmentation
  BY Packed DEF NoFragmentation, ChunksOf, BlocksOf
<1> QED
  BY <1>1, Safety, AllocatedFinite, PTL

-----------------------------------------------------------------------------
(* What create leaves alone: the place and the length of every live block. *)
LEMMA CreateKeeps ==
  ASSUME IInv, NEW len \in Lens, NEW p \in Ptrs, Create(len, p)
  PROVE  /\ Live' = Live \cup {p} /\ p \notin Live
         /\ \A x \in Live : /\ chunk'[x] = chunk[x] /\ pos'[x] = pos[x]
                            /\ clen'[chunk[x]] = clen[chunk[x]]
         /\ memory' = memory
         /\ chunk'[p] \in Chunks /\ clen'[chunk'[p]] = len
         /\ pos'[p] \in Nat /\ pos'[p] + len <= ChunkSize
<1>1. PICK c \in Chunks :
        /\ ptrVec[c] # <<>> => clen[c] = len
        /\ space[c] + len <= ChunkSize
        /\ AddElement(c, len, p)
        /\ clen' = [clen EXCEPT ![c] = len]
  BY CreateEffect
<1>2. p \notin Live /\ memory' = memory
  BY DEF Create
<1>t. Types
  BY DEF IInv
<1>3. chunk' = [chunk EXCEPT ![p] = c] /\ pos' = [pos EXCEPT ![p] = space[c]]
  BY <1>1 DEF AddElement
<1>4. Live' = Live \cup {p}
  BY <1>3, <1>t, NullAssumption DEF Live, Types
<1>5. ASSUME NEW x \in Live
      PROVE  chunk'[x] = chunk[x] /\ pos'[x] = pos[x] /\ clen'[chunk[x]] = clen[chunk[x]]
  <2>1. x \in Ptrs /\ x # p /\ chunk[x] \in Chunks
    BY <1>2, <1>t DEF Live, Types
  <2>2. PICK i \in 1..Len(ptrVec[chunk[x]]) : ptrVec[chunk[x]][i] = x
    BY DEF IInv, Layout, BackPointersOK
  <2>3. ptrVec[chunk[x]] # <<>>
    BY <2>2
  <2> QED
    BY <1>1, <1>3, <1>t, <2>1, <2>3 DEF Types
<1> QED
  BY <1>1, <1>2, <1>3, <1>4, <1>5, <1>t DEF Types

(* What remove leaves alone, and where the moved block q goes.             *)
LEMMA RemoveKeeps ==
  ASSUME IInv, NEW p \in Live, Remove(p)
  PROVE  \E q \in Live :
           /\ Live' = Live \ {p} /\ chunk'[p] = NULL
           /\ clen' = clen /\ clen[chunk[q]] = clen[chunk[p]]
           /\ q # p => chunk'[q] = chunk[p] /\ pos'[q] = pos[p]
           /\ \A x \in Live \ {p, q} : chunk'[x] = chunk[x] /\ pos'[x] = pos[x]
           /\ memory' = IF p = q THEN memory ELSE Write(p, Load(q))
<1>1. PICK c \in Chunks, head \in Chunks, q \in Ptrs, i \in Nat : Removed(p, c, i, head, q)
  BY RemoveEffect
<1>2. q \in Live
  BY <1>1, NullAssumption DEF Removed, Live
<1>3. clen' = clen
  BY DEF Remove
<1>4. Live' = Live \ {p}
  BY <1>1, <1>2, NullAssumption DEF Removed, Live
<1>5. Live \subseteq Ptrs
  BY DEF Live
<1> QED
  BY <1>1, <1>2, <1>3, <1>4, <1>5 DEF Removed

(* A step moves no block except, on a removal, one block into the hole:    *)
(* addresses taken with getMemoryLocation stay good across create and fill.*)
THEOREM OnlyIntoHole == Spec => MovesOnlyIntoHole
<1> DEFINE A == \A q \in Moved : \E p \in Live :
                  /\ chunk'[p] = NULL
                  /\ chunk'[q] = chunk[p] /\ pos'[q] = pos[p]
                  /\ Moved = {q}
<1>1. IInv /\ [Next]_vars => [A]_vars
  <2> SUFFICES ASSUME IInv, Next PROVE A
    OBVIOUS
  <2>1. CASE \E len \in Lens, p \in Ptrs : Create(len, p)
    BY <2>1, CreateKeeps DEF Moved
  <2>2. CASE \E p \in Live : \E img \in Images(clen[chunk[p]]) : Fill(p, img)
    BY <2>2 DEF Fill, Moved
  <2>3. CASE \E p \in Live : Remove(p)
    <3>1. PICK p \in Live : Remove(p)
      BY <2>3
    <3>2. PICK q \in Live :
            /\ chunk'[p] = NULL
            /\ q # p => chunk'[q] = chunk[p] /\ pos'[q] = pos[p]
            /\ \A x \in Live \ {p, q} : chunk'[x] = chunk[x] /\ pos'[x] = pos[x]
      BY <3>1, RemoveKeeps
    <3>3. Moved \subseteq {q} /\ p \notin Moved
      BY <3>2 DEF Moved
    <3> QED
      BY <3>2, <3>3
  <2> QED
    BY <2>1, <2>2, <2>3 DEF Next
<1> QED
  BY <1>1, Safety, PTL DEF Spec, MovesOnlyIntoHole
-----------------------------------------------------------------------------
(* A write to the block of p changes the bytes of p and of no other block. *)
LEMMA WriteBlock ==
  ASSUME IInv, NEW p \in Live, NEW img \in [0..(clen[chunk[p]] - 1) -> Byte]
  PROVE  /\ \A k \in 0..(clen[chunk[p]] - 1) : Write(p, img)[chunk[p]][pos[p] + k] = img[k]
         /\ \A x \in Live \ {p} : \A k \in 0..(clen[chunk[x]] - 1) :
              Write(p, img)[chunk[x]][pos[x] + k] = memory[chunk[x]][pos[x] + k]
<1> DEFINE len == clen[chunk[p]]
<1>1. /\ p \in Ptrs /\ chunk[p] \in Chunks /\ len \in Nat /\ len > 0
      /\ pos[p] \in Nat /\ pos[p] + len <= ChunkSize
  BY LiveBlock, LenNat
<1>2. memory \in [Chunks -> [Addr -> Byte]]
  BY DEF IInv, Types
<1>3. DOMAIN img = 0..(len - 1)
  OBVIOUS
<1>4. ASSUME NEW d \in Chunks, NEW a \in Addr
      PROVE  Write(p, img)[d][a] = IF d = chunk[p] /\ a - pos[p] \in 0..(len - 1)
                                   THEN img[a - pos[p]] ELSE memory[d][a]
  BY <1>1, <1>2, <1>3 DEF Write
<1>5. ASSUME NEW k \in 0..(len - 1)
      PROVE  Write(p, img)[chunk[p]][pos[p] + k] = img[k]
  <2>1. pos[p] + k \in Addr /\ (pos[p] + k) - pos[p] = k
    BY <1>1, SizeAssumption DEF Addr
  <2> QED
    BY <1>1, <1>4, <2>1
<1>6. ASSUME NEW x \in Live \ {p}, NEW k \in 0..(clen[chunk[x]] - 1)
      PROVE  Write(p, img)[chunk[x]][pos[x] + k] = memory[chunk[x]][pos[x] + k]
  <2>1. /\ chunk[x] \in Chunks /\ clen[chunk[x]] \in Nat /\ clen[chunk[x]] > 0
        /\ pos[x] \in Nat /\ pos[x] + clen[chunk[x]] <= ChunkSize
    BY LiveBlock, LenNat
  <2>2. pos[x] + k \in Addr
    BY <2>1, SizeAssumption DEF Addr
  <2>3. CASE chunk[x] = chunk[p]
    <3>1. pos[p] + len <= pos[x] \/ pos[x] + len <= pos[p]
      BY <2>3, SlotsApart
    <3>2. (pos[x] + k) - pos[p] \notin 0..(len - 1)
      BY <1>1, <2>1, <2>3, <3>1
    <3> QED
      BY <1>4, <2>1, <2>2, <3>2
  <2>4. CASE chunk[x] # chunk[p]
    BY <1>4, <2>1, <2>2, <2>4
  <2> QED
    BY <2>3, <2>4
<1> QED
  BY <1>5, <1>6

LEMMA StoreInit == Init => Store!Init
  BY DEF Init, Live, Store!Init

LEMMA CreateStep ==
  ASSUME IInv, NEW len \in Lens, NEW p \in Ptrs, Create(len, p)
  PROVE  Store!Create(len, p)
<1> DEFINE content == [x \in Live |-> Load(x)]
<1>1. /\ Live' = Live \cup {p} /\ p \notin Live
      /\ \A x \in Live : /\ chunk'[x] = chunk[x] /\ pos'[x] = pos[x]
                         /\ clen'[chunk[x]] = clen[chunk[x]]
      /\ memory' = memory
      /\ chunk'[p] \in Chunks /\ clen'[chunk'[p]] = len
      /\ pos'[p] \in Nat /\ pos'[p] + len <= ChunkSize
  BY CreateKeeps
<1>2. ASSUME NEW x \in Live PROVE Load(x)' = Load(x)
  BY <1>1 DEF Load
<1>3. Load(p)' = [k \in 0..(len - 1) |-> memory[chunk'[p]][pos'[p] + k]]
  BY <1>1 DEF Load
<1>4. \A k \in 0..(len - 1) : pos'[p] + k \in Addr
  BY <1>1, LenNat, SizeAssumption DEF Addr
<1>5. Load(p)' \in [0..(len - 1) -> Byte]
  BY <1>1, <1>3, <1>4 DEF IInv, Types
<1>6. content' = [x \in Live \cup {p} |-> IF x = p THEN Load(p)' ELSE content[x]]
  BY <1>1, <1>2
<1>7. DOMAIN content = Live /\ content'[p] = Load(p)'
  BY <1>1
<1>8. content' = [x \in DOMAIN content \cup {p} |-> IF x = p THEN content'[p] ELSE content[x]]
  BY <1>6, <1>7
<1> QED
  BY <1>1, <1>5, <1>7, <1>8 DEF Store!Create, Store!Blocks

LEMMA FillStep ==
  ASSUME IInv, NEW p \in Live, NEW img \in Images(clen[chunk[p]]), Fill(p, img)
  PROVE  Store!Fill(p, img)
<1> DEFINE content == [x \in Live |-> Load(x)]
           len == clen[chunk[p]]
<1>1. len \in Lens /\ img \in [0..(len - 1) -> Byte]
  BY LiveBlock, ImagesAssumption
<1>2. memory' = Write(p, img) /\ chunk' = chunk /\ pos' = pos /\ clen' = clen
  BY DEF Fill
<1>3. Live' = Live
  BY <1>2 DEF Live
<1>4. Load(p)' = img
  <2>1. Load(p)' = [k \in 0..(len - 1) |-> Write(p, img)[chunk[p]][pos[p] + k]]
    BY <1>2 DEF Load
  <2>2. \A k \in 0..(len - 1) : Write(p, img)[chunk[p]][pos[p] + k] = img[k]
    BY <1>1, WriteBlock
  <2> QED
    BY <1>1, <2>1, <2>2
<1>5. ASSUME NEW x \in Live \ {p} PROVE Load(x)' = Load(x)
  <2>1. \A k \in 0..(clen[chunk[x]] - 1) :
          Write(p, img)[chunk[x]][pos[x] + k] = memory[chunk[x]][pos[x] + k]
    BY <1>1, WriteBlock
  <2> QED
    BY <1>2, <2>1 DEF Load
<1>6. content' = [content EXCEPT ![p] = img]
  BY <1>3, <1>4, <1>5
<1>7. DOMAIN img = DOMAIN content[p]
  BY <1>1 DEF Load
<1> QED
  BY <1>6, <1>7 DEF Store!Fill

LEMMA RemoveStep ==
  ASSUME IInv, NEW p \in Live, Remove(p)
  PROVE  Store!Remove(p)
<1> DEFINE content == [x \in Live |-> Load(x)]
<1>1. PICK q \in Live :
        /\ Live' = Live \ {p} /\ chunk'[p] = NULL
        /\ clen' = clen /\ clen[chunk[q]] = clen[chunk[p]]
        /\ q # p => chunk'[q] = chunk[p] /\ pos'[q] = pos[p]
        /\ \A x \in Live \ {p, q} : chunk'[x] = chunk[x] /\ pos'[x] = pos[x]
        /\ memory' = IF p = q THEN memory ELSE Write(p, Load(q))
  BY RemoveKeeps
<1>2. Load(q) \in [0..(clen[chunk[p]] - 1) -> Byte]
  BY <1>1, LiveBlock
<1>3. ASSUME NEW x \in Live \ {p, q} PROVE Load(x)' = Load(x)
  <2>1. \A k \in 0..(clen[chunk[x]] - 1) :
          memory'[chunk[x]][pos[x] + k] = memory[chunk[x]][pos[x] + k]
    BY <1>1, <1>2, WriteBlock
  <2> QED
    BY <1>1, <2>1 DEF Load
<1>4. ASSUME q # p PROVE Load(q)' = Load(q)
  <2>1. Load(q)' = [k \in 0..(clen[chunk[p]] - 1) |-> Write(p, Load(q))[chunk[p]][pos[p] + k]]
    BY <1>1, <1>4 DEF Load
  <2>2. \A k \in 0..(clen[chunk[p]] - 1) :
          Write(p, Load(q))[chunk[p]][pos[p] + k] = Load(q)[k]
    BY <1>2, WriteBlock
  <2> QED
    BY <1>2, <2>1, <2>2
<1>5. content' = [x \in Live \ {p} |-> content[x]]
  BY <1>1, <1>3, <1>4
<1> QED
  BY <1>5 DEF Store!Remove

(* The manager implements the store of blocks: whatever blocks are created,*)
(* filled and removed, in whatever order and lengths, every live pointer   *)
(* leads to exactly the bytes last written through it.                     *)
THEOREM Refinement == Spec => ImplementsStore
<1> DEFINE content == [p \in Live |-> Load(p)]
<1>1. IInv /\ [Next]_vars => [Store!Next]_content
  <2> SUFFICES ASSUME IInv, [Next]_vars PROVE [Store!Next]_content
    OBVIOUS
  <2>1. CASE \E len \in Lens, p \in Ptrs : Create(len, p)
    BY <2>1, CreateStep DEF Store!Next
  <2>2. CASE \E p \in Live : \E img \in Images(clen[chunk[p]]) : Fill(p, img)
    <3>1. PICK p \in Live : \E img \in Images(clen[chunk[p]]) : Fill(p, img)
      BY <2>2
    <3>2. clen[chunk[p]] \in Lens
      BY LiveBlock
    <3>3. PICK img \in Images(clen[chunk[p]]) : Fill(p, img)
      BY <3>1
    <3>4. Store!Fill(p, img)
      BY <3>3, FillStep
    <3> QED
      BY <3>2, <3>4 DEF Store!Next
  <2>3. CASE \E p \in Live : Remove(p)
    BY <2>3, RemoveStep DEF Store!Next
  <2>4. CASE UNCHANGED vars
    <3>1. Live' = Live /\ \A x \in Live : Load(x)' = Load(x)
      BY <2>4 DEF vars, Live, Load
    <3> QED
      BY <3>1
  <2> QED
    BY <2>1, <2>2, <2>3, <2>4 DEF Next
<1>2. Init => Store!Init
  BY StoreInit
<1> QED
  BY <1>1, <1>2, Safety, PTL DEF Spec, ImplementsStore, Store!Spec
=============================================================================
