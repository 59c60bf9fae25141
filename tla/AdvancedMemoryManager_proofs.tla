-------------------- MODULE AdvancedMemoryManager_proofs --------------------
(***************************************************************************)
(* Proofs about AdvancedMemoryManager, for every set of pointers and       *)
(* lengths, every chunk size and all contents.                             *)
(*                                                                         *)
(* The chunks of a length are one linear memory, in which the i-th oldest  *)
(* block begins at byte (i - 1) * l. Everything is proved about that       *)
(* memory; the arithmetic of chunks and pieces is in the lemmas.           *)
(***************************************************************************)
EXTENDS AdvancedMemoryManager, TLAPS

-----------------------------------------------------------------------------
(* Quotients and remainders by the chunk size.                             *)

LEMMA LenNat == \A l \in Lens : l \in Nat /\ l > 0 /\ l <= ChunkSize
  BY SizeAssumption, LensAssumption

LEMMA DivMod ==
  ASSUME NEW g \in Nat
  PROVE  /\ g \div ChunkSize \in Nat /\ g % ChunkSize \in Nat
         /\ g % ChunkSize < ChunkSize
         /\ g = ChunkSize * (g \div ChunkSize) + (g % ChunkSize)
  BY SizeAssumption

LEMMA DivModIs ==
  ASSUME NEW q \in Nat, NEW r \in Nat, r < ChunkSize
  PROVE  /\ (ChunkSize * q + r) \div ChunkSize = q
         /\ (ChunkSize * q + r) % ChunkSize = r
  BY SizeAssumption

(* The chunks that x bytes need.                                           *)
LEMMA ChunksNeeded ==
  ASSUME NEW q \in Nat, NEW r \in Nat, r < ChunkSize
  PROVE  (ChunkSize * q + r + ChunkSize - 1) \div ChunkSize = IF r = 0 THEN q ELSE q + 1
<1>1. CASE r = 0
  <2>1. ChunkSize * q + r + ChunkSize - 1 = ChunkSize * q + (ChunkSize - 1)
    BY <1>1, SizeAssumption
  <2> QED
    BY <1>1, <2>1, DivModIs, SizeAssumption
<1>2. CASE r # 0
  <2>1. ChunkSize * q + r + ChunkSize - 1 = ChunkSize * (q + 1) + (r - 1)
    BY <1>2, SizeAssumption
  <2> QED
    BY <1>2, <2>1, DivModIs, SizeAssumption
<1> QED
  BY <1>1, <1>2

LEMMA QuotientOrder ==
  ASSUME NEW c \in Nat, NEW d \in Nat, NEW r \in Nat, ChunkSize * c + r < ChunkSize * d
  PROVE  c < d
  BY SizeAssumption

LEMMA ProductOrder ==
  ASSUME NEW c \in Nat, NEW d \in Nat, c < d
  PROVE  ChunkSize * c + ChunkSize <= ChunkSize * d
  BY SizeAssumption

LEMMA BlockOrder ==
  ASSUME NEW l \in Nat, NEW i \in Nat, NEW j \in Nat, i < j
  PROVE  i * l \in Nat /\ j * l \in Nat /\ i * l + l <= j * l
<1>1. i * l \in Nat /\ j * l \in Nat
  OBVIOUS
<1>2. i * l + l <= j * l
  OBVIOUS
<1> QED
  BY <1>1, <1>2

LEMMA MinOfTwo ==
  ASSUME NEW a \in Int, NEW b \in Int
  PROVE  Sets!Min({a, b}) = IF a <= b THEN a ELSE b
<1> DEFINE m == IF a <= b THEN a ELSE b
<1>1. m \in {a, b} /\ \A y \in {a, b} : m <= y
  OBVIOUS
<1>2. \A x \in {a, b} : (\A y \in {a, b} : x <= y) => x = m
  OBVIOUS
<1> QED
  BY <1>1, <1>2 DEF Sets!Min
-----------------------------------------------------------------------------
(* The chunks of a length as one memory, and a write to it.                *)
Memory == Seq([Addr -> Byte])
At(mem, g) == mem[(g \div ChunkSize) + 1][g % ChunkSize]
Size(mem) == ChunkSize * Len(mem)

LEMMA AtType ==
  ASSUME NEW mem \in Memory, NEW g \in Nat, g < Size(mem)
  PROVE  /\ (g \div ChunkSize) + 1 \in 1..Len(mem) /\ g % ChunkSize \in Addr
         /\ At(mem, g) \in Byte
<1>1. g \div ChunkSize < Len(mem) /\ g \div ChunkSize \in Nat /\ Len(mem) \in Nat
  <2> DEFINE q == g \div ChunkSize
             r == g % ChunkSize
  <2>1. q \in Nat /\ r \in Nat /\ Len(mem) \in Nat /\ g = ChunkSize * q + r
    BY DivMod DEF Memory
  <2>2. ChunkSize * q + r < ChunkSize * Len(mem)
    BY <2>1 DEF Size
  <2> HIDE DEF q, r
  <2>3. q < Len(mem)
    BY <2>1, <2>2, QuotientOrder
  <2> QED
    BY <2>1, <2>3 DEF q
<1>2. (g \div ChunkSize) + 1 \in 1..Len(mem) /\ g % ChunkSize \in Addr
  BY <1>1, DivMod, SizeAssumption DEF Addr
<1> QED
  BY <1>2 DEF At, Memory

(* A piece that lies in the memory from byte g on.                         *)
IsPiece(piece, g) ==
  /\ piece.chunk \in Nat \ {0} /\ piece.at \in Nat /\ piece.n \in Nat \ {0}
  /\ piece.at + piece.n <= ChunkSize
  /\ ChunkSize * (piece.chunk - 1) + piece.at = g

LEMMA InPiece ==
  ASSUME NEW mem, NEW piece, NEW g \in Nat, IsPiece(piece, g),
         NEW k \in Nat, k < piece.n
  PROVE  /\ mem[piece.chunk][piece.at + k] = At(mem, g + k)
         /\ piece.at + k \in Addr
<1>1. piece.chunk - 1 \in Nat /\ piece.at + k \in Nat /\ piece.at + k < ChunkSize
      /\ g + k = ChunkSize * (piece.chunk - 1) + (piece.at + k)
  <2> DEFINE x == ChunkSize * (piece.chunk - 1)
  <2>1. x \in Int /\ piece.chunk - 1 \in Nat
    BY SizeAssumption DEF IsPiece
  <2>2. /\ piece.at \in Nat /\ piece.n \in Nat /\ piece.at + piece.n <= ChunkSize
        /\ x + piece.at = g
    BY DEF IsPiece
  <2> HIDE DEF x
  <2>3. piece.at + k \in Nat /\ piece.at + k < ChunkSize /\ g + k = x + (piece.at + k)
    BY <2>1, <2>2, SizeAssumption
  <2> QED
    BY <2>1, <2>3 DEF x
<1>2. (g + k) \div ChunkSize = piece.chunk - 1 /\ (g + k) % ChunkSize = piece.at + k
  <2> DEFINE q == piece.chunk - 1
             r == piece.at + k
  <2>1. q \in Nat /\ r \in Nat /\ r < ChunkSize /\ g + k = ChunkSize * q + r
    BY <1>1
  <2> HIDE DEF q, r
  <2>2. (g + k) \div ChunkSize = q /\ (g + k) % ChunkSize = r
    BY <2>1, DivModIs
  <2> QED
    BY <2>2 DEF q, r
<1>3. ((g + k) \div ChunkSize) + 1 = piece.chunk
  BY <1>1, <1>2 DEF IsPiece
<1> QED
  BY <1>1, <1>2, <1>3, SizeAssumption DEF At, Addr

LEMMA PieceInMemory ==
  ASSUME NEW mem \in Memory, NEW piece, NEW g \in Nat, IsPiece(piece, g), g < Size(mem)
  PROVE  piece.chunk \in 1..Len(mem)
<1>1. Len(mem) \in Nat
  BY DEF Memory
<1>2. piece.chunk - 1 < Len(mem)
  BY <1>1, QuotientOrder DEF IsPiece, Size
<1> QED
  BY <1>1, <1>2 DEF IsPiece

(* The n bytes of data that a write takes.                                 *)
Supplies(data, from, n) == \A k \in 0..(n - 1) : data[from + k] \in Byte

(* memcpy of n bytes to the piece at g, and not past its end.              *)
LEMMA PutAt ==
  ASSUME NEW mem \in Memory, NEW piece, NEW g \in Nat,
         piece.chunk \in Nat \ {0}, piece.at \in Nat,
         ChunkSize * (piece.chunk - 1) + piece.at = g,
         NEW n \in Nat, n > 0, piece.at + n <= ChunkSize, g < Size(mem),
         NEW data, NEW from \in Nat,
         Supplies(data, from, n)
  PROVE  /\ Put(mem, piece, n, data, from) \in Memory
         /\ Len(Put(mem, piece, n, data, from)) = Len(mem)
         /\ \A h \in Nat : h < Size(mem) =>
              At(Put(mem, piece, n, data, from), h)
                = IF h \in g..(g + n - 1) THEN data[from + (h - g)] ELSE At(mem, h)
<1> DEFINE c == piece.chunk
           b == piece.at
           new == [a \in Addr |-> IF a \in b..(b + n - 1) THEN data[from + (a - b)]
                                                          ELSE mem[c][a]]
           put == Put(mem, piece, n, data, from)
<1>1. Len(mem) \in Nat /\ c \in 1..Len(mem)
  <2>1. Len(mem) \in Nat /\ c - 1 \in Nat /\ c - 1 < Len(mem)
    BY QuotientOrder DEF Memory, Size
  <2> QED
    BY <2>1
<1>2. put = [mem EXCEPT ![c] = new]
  BY <1>1 DEF Put, Memory
<1>3. new \in [Addr -> Byte]
  <2>1. \A a \in Addr : a \in b..(b + n - 1) => a - b \in 0..(n - 1)
    BY DEF Addr
  <2>2. mem[c] \in [Addr -> Byte]
    BY <1>1 DEF Memory
  <2> QED
    BY <2>1, <2>2 DEF Supplies
<1>4. put \in Memory /\ Len(put) = Len(mem)
  BY <1>1, <1>2, <1>3 DEF Memory
<1>5. ASSUME NEW h \in Nat, h < Size(mem)
      PROVE  At(put, h) = IF h \in g..(g + n - 1) THEN data[from + (h - g)] ELSE At(mem, h)
  <2> DEFINE d == h \div ChunkSize
             a == h % ChunkSize
  <2>1. d \in Nat /\ a \in Nat /\ a < ChunkSize /\ h = ChunkSize * d + a
    BY DivMod
  <2>2. d + 1 \in 1..Len(mem) /\ a \in Addr
    BY <1>5, AtType
  <2>3. At(put, h) = IF d + 1 = c THEN new[a] ELSE mem[d + 1][a]
    BY <1>1, <1>2, <2>2 DEF At, Memory
  <2>4. CASE d + 1 = c
    <3>1. d = c - 1
      BY <2>1, <2>4
    <3>2. h = ChunkSize * (c - 1) + a
      BY <2>1, <3>1
    <3>3. h - g = a - b /\ (h \in g..(g + n - 1) <=> a \in b..(b + n - 1))
      <4> DEFINE x == ChunkSize * (c - 1)
      <4>1. x \in Int
        BY SizeAssumption
      <4>2. h = x + a /\ g = x + b
        BY <3>2
      <4> HIDE DEF x
      <4> QED
        BY <2>1, <4>1, <4>2
    <3> QED
      BY <2>2, <2>3, <2>4, <3>3 DEF At
  <2>5. CASE d + 1 # c
    <3>1. h \notin g..(g + n - 1)
      <4>1. CASE d < c - 1
        <5>1. ChunkSize * d + ChunkSize <= ChunkSize * (c - 1)
          BY <2>1, <4>1, ProductOrder
        <5> QED
          BY <2>1, <5>1, SizeAssumption
      <4>2. CASE c - 1 < d
        <5>1. ChunkSize * (c - 1) + ChunkSize <= ChunkSize * d
          BY <2>1, <4>2, ProductOrder
        <5> QED
          BY <2>1, <5>1, SizeAssumption
      <4> QED
        BY <2>1, <2>5, <4>1, <4>2
    <3> QED
      BY <2>3, <2>5, <3>1 DEF At
  <2> QED
    BY <2>4, <2>5
<1> QED
  BY <1>4, <1>5
-----------------------------------------------------------------------------
(* The pieces of a block of n bytes that begins at byte g of the memory.   *)
Start(arr, i) == IF i = 1 THEN 0 ELSE arr[1].n
IsArray(arr, g, n) ==
  /\ Len(arr) \in {1, 2}
  /\ \A i \in 1..Len(arr) : IsPiece(arr[i], g + Start(arr, i))
  /\ n = IF Len(arr) = 1 THEN arr[1].n ELSE arr[1].n + arr[2].n

(* getMemoryArray, of the fields of a pointer.                             *)
ArrayAt(chunk, at, size) ==
  LET n == Sets!Min({size, ChunkSize - at})
      first == [chunk |-> chunk, at |-> at, n |-> n]
      rest == [chunk |-> chunk + 1, at |-> 0, n |-> size - n]
  IN  IF size > n THEN <<first, rest>> ELSE <<first>>

AccessIn(arr, mem, i) ==
  IF i < arr[1].n THEN mem[arr[1].chunk][arr[1].at + i]
                  ELSE mem[arr[2].chunk][arr[2].at + (i - arr[1].n)]

LEMMA ArrayOfBlock ==
  ASSUME NEW l \in Lens, NEW g \in Nat
  PROVE  IsArray(ArrayAt((g \div ChunkSize) + 1, g % ChunkSize, l), g, l)
<1> DEFINE q == g \div ChunkSize
           r == g % ChunkSize
           n == IF l <= ChunkSize - r THEN l ELSE ChunkSize - r
           arr == ArrayAt(q + 1, r, l)
           first == [chunk |-> q + 1, at |-> r, n |-> n]
           rest == [chunk |-> (q + 1) + 1, at |-> 0, n |-> l - n]
<1>1. /\ q \in Nat /\ r \in Nat /\ r < ChunkSize /\ g = ChunkSize * q + r
      /\ l \in Nat /\ l > 0 /\ l <= ChunkSize /\ ChunkSize \in Nat
  BY DivMod, LenNat, SizeAssumption
<1>2. n \in Nat /\ n > 0 /\ n <= l /\ r + n <= ChunkSize
  BY <1>1
<1>3. arr = IF l > n THEN <<first, rest>> ELSE <<first>>
  BY <1>1, MinOfTwo DEF ArrayAt
<1>4. IsPiece(first, g)
  BY <1>1, <1>2 DEF IsPiece
<1>5. CASE l > n
  <2>1. arr = <<first, rest>>
    BY <1>3, <1>5
  <2>2. n = ChunkSize - r /\ l - n \in Nat \ {0} /\ l - n <= ChunkSize
    BY <1>1, <1>2, <1>5
  <2>3. g + n = ChunkSize * ((q + 1) + 1 - 1)
    BY <1>1, <2>2
  <2>4. IsPiece(rest, g + n)
    <3>1. rest.chunk \in Nat \ {0} /\ rest.chunk = (q + 1) + 1 /\ rest.at = 0 /\ rest.n = l - n
      BY <1>1
    <3> HIDE DEF rest, q, n
    <3>2. ChunkSize * ((q + 1) + 1 - 1) \in Nat
      BY <1>1
    <3> QED
      BY <1>1, <2>2, <2>3, <3>1, <3>2 DEF IsPiece
  <2>5. Len(arr) = 2 /\ arr[1] = first /\ arr[2] = rest
    BY <2>1
  <2>6. first.n = n /\ rest.n = l - n
    OBVIOUS
  <2> HIDE DEF arr, first, rest
  <2>7. Start(arr, 1) = 0 /\ Start(arr, 2) = n
    BY <2>5, <2>6 DEF Start
  <2>8. \A i \in 1..Len(arr) : IsPiece(arr[i], g + Start(arr, i))
    <3>1. g + 0 = g
      OBVIOUS
    <3>2. \A i \in 1..Len(arr) : i = 1 \/ i = 2
      BY <2>5
    <3> QED
      BY <1>4, <2>4, <2>5, <2>7, <3>1, <3>2
  <2>9. l = arr[1].n + arr[2].n
    BY <1>1, <1>2, <2>5, <2>6
  <2> QED
    BY <2>5, <2>8, <2>9 DEF IsArray, arr
<1>6. CASE ~(l > n)
  <2>1. arr = <<first>> /\ n = l
    BY <1>1, <1>2, <1>3, <1>6
  <2>2. Len(arr) = 1 /\ arr[1] = first /\ first.n = l
    BY <2>1
  <2> HIDE DEF arr, first
  <2>3. \A i \in 1..Len(arr) : i = 1
    BY <2>2
  <2>4. g + Start(arr, 1) = g
    BY DEF Start
  <2> QED
    BY <1>4, <2>2, <2>3, <2>4 DEF IsArray, arr
<1> QED
  BY <1>5, <1>6

(* access reads the bytes from g on, whatever pieces they lie in.          *)
LEMMA AccessAt ==
  ASSUME NEW mem, NEW arr, NEW g \in Nat, NEW n \in Nat, IsArray(arr, g, n),
         NEW i \in 0..(n - 1)
  PROVE  AccessIn(arr, mem, i) = At(mem, g + i)
<1>1. IsPiece(arr[1], g) /\ arr[1].n \in Nat
  <2>1. 1 \in 1..Len(arr)
    BY DEF IsArray
  <2>2. g + Start(arr, 1) = g
    BY DEF Start
  <2> QED
    BY <2>1, <2>2 DEF IsArray, IsPiece
<1>2. CASE i < arr[1].n
  <2>1. i \in Nat
    OBVIOUS
  <2>2. mem[arr[1].chunk][arr[1].at + i] = At(mem, g + i)
    <3> DEFINE piece == arr[1]
    <3>1. IsPiece(piece, g) /\ i < piece.n
      BY <1>1, <1>2
    <3> HIDE DEF piece
    <3>2. mem[piece.chunk][piece.at + i] = At(mem, g + i)
      BY <2>1, <3>1, InPiece
    <3> QED
      BY <3>2 DEF piece
  <2>3. AccessIn(arr, mem, i) = mem[arr[1].chunk][arr[1].at + i]
    BY <1>2 DEF AccessIn
  <2> QED
    BY <2>2, <2>3
<1>3. CASE ~(i < arr[1].n)
  <2>1. Len(arr) = 2 /\ n = arr[1].n + arr[2].n
    BY <1>1, <1>3 DEF IsArray
  <2>2. IsPiece(arr[2], g + arr[1].n)
    BY <2>1 DEF IsArray, Start
  <2>3. /\ i - arr[1].n \in Nat /\ i - arr[1].n < arr[2].n
        /\ g + arr[1].n \in Nat /\ (g + arr[1].n) + (i - arr[1].n) = g + i
    BY <1>1, <1>3, <2>1, <2>2 DEF IsPiece
  <2> DEFINE x == g + arr[1].n
             y == i - arr[1].n
             second == arr[2]
  <2>4. mem[second.chunk][second.at + y] = At(mem, x + y)
    <3>1. IsPiece(second, x) /\ x \in Nat /\ y \in Nat /\ y < second.n
      BY <2>2, <2>3
    <3> HIDE DEF x, y, second
    <3> QED
      BY <3>1, InPiece
  <2>5. AccessIn(arr, mem, i) = mem[second.chunk][second.at + y]
    BY <1>3 DEF AccessIn
  <2> QED
    BY <2>3, <2>4, <2>5
<1> QED
  BY <1>2, <1>3
-----------------------------------------------------------------------------
(* The copy loop of remove. One of its two places: piece i, a bytes into   *)
(* it, which is done bytes into the block.                                 *)
SideOK(arr, i, a, done) ==
  /\ i \in 1..Len(arr)
  /\ a \in Nat /\ a < arr[i].n
  /\ done = Start(arr, i) + a

LEMMA SideStep ==
  ASSUME NEW arr, NEW g \in Nat, NEW n \in Nat, IsArray(arr, g, n),
         NEW i, NEW a, NEW done, SideOK(arr, i, a, done),
         NEW m \in Nat, m > 0, m <= arr[i].n - a
  PROVE  /\ IsPiece(arr[i], g + Start(arr, i)) /\ Start(arr, i) \in Nat
         /\ done \in Nat /\ done + m <= n
         /\ done + m < n /\ arr[i].n - a = m => SideOK(arr, i + 1, 0, done + m)
         /\ done + m < n /\ arr[i].n - a # m => SideOK(arr, i, a + m, done + m)
<1>1. /\ Len(arr) \in {1, 2} /\ i \in 1..Len(arr)
      /\ \A k \in 1..Len(arr) : IsPiece(arr[k], g + Start(arr, k)) /\ arr[k].n \in Nat \ {0}
      /\ n = IF Len(arr) = 1 THEN arr[1].n ELSE arr[1].n + arr[2].n
  BY DEF IsArray, SideOK, IsPiece
<1>2. a \in Nat /\ a < arr[i].n /\ done = Start(arr, i) + a
  BY DEF SideOK
<1>3. CASE i = 1
  <2>1. Start(arr, i) = 0 /\ done = a /\ arr[1].n \in Nat
    BY <1>1, <1>2, <1>3 DEF Start
  <2>2. done + m <= n
    BY <1>1, <1>2, <1>3, <2>1
  <2>3. CASE Len(arr) = 1
    BY <1>1, <1>2, <1>3, <2>1, <2>2, <2>3 DEF SideOK
  <2>4. CASE Len(arr) = 2
    <3>1. arr[2].n \in Nat \ {0} /\ Start(arr, 2) = arr[1].n
      BY <1>1, <2>4 DEF Start
    <3>2. CASE arr[1].n - a = m
      <4>1. done + m = arr[1].n + 0
        BY <1>2, <2>1, <3>2
      <4> QED
        BY <1>1, <1>2, <1>3, <2>1, <2>2, <2>4, <3>1, <3>2, <4>1 DEF SideOK
    <3>3. CASE arr[1].n - a # m
      BY <1>1, <1>2, <1>3, <2>1, <2>2, <2>4, <3>3 DEF SideOK
    <3> QED
      BY <3>2, <3>3
  <2> QED
    BY <1>1, <2>3, <2>4
<1>4. CASE i = 2
  <2>1. /\ Len(arr) = 2 /\ Start(arr, 2) = arr[1].n /\ arr[1].n \in Nat /\ arr[2].n \in Nat
        /\ done = arr[1].n + a /\ n = arr[1].n + arr[2].n
    BY <1>1, <1>2, <1>4 DEF Start
  <2>2. done + m <= n /\ (done + m < n => arr[2].n - a # m /\ a + m < arr[2].n)
    BY <1>2, <1>4, <2>1
  <2>3. done + m = arr[1].n + (a + m)
    BY <1>2, <2>1
  <2> QED
    BY <1>1, <1>2, <1>4, <2>1, <2>2, <2>3 DEF SideOK
<1> QED
  BY <1>1, <1>3, <1>4

(* The state of the loop: left bytes of n are still to be copied, from the *)
(* block at gf to the one at gt, and the others have been.                 *)
RoundOK(s, to, from, gt, gf, n, mem) ==
  /\ s.left \in 0..n /\ s.i \in Nat /\ s.j \in Nat
  /\ s.mem \in Memory /\ Len(s.mem) = Len(mem)
  /\ \A h \in Nat : h < Size(mem) =>
       At(s.mem, h) = IF h \in gt..(gt + (n - s.left) - 1) THEN At(mem, gf + (h - gt))
                                                           ELSE At(mem, h)
  /\ s.left > 0 => /\ SideOK(to, s.i, s.a, n - s.left)
                   /\ SideOK(from, s.j, s.b, n - s.left)

LEMMA RoundStep ==
  ASSUME NEW mem \in Memory, NEW gt \in Nat, NEW gf \in Nat, NEW n \in Nat,
         NEW to, IsArray(to, gt, n), NEW from, IsArray(from, gf, n),
         gt + n <= Size(mem), gf + n <= Size(mem),
         gt + n <= gf \/ gf + n <= gt,
         NEW s, RoundOK(s, to, from, gt, gf, n, mem)
  PROVE  LET r == Round(to, from, s)
         IN  /\ RoundOK(r, to, from, gt, gf, n, mem)
             /\ r.left = 0 \/ r.i + r.j >= s.i + s.j + 1
<1> DEFINE r == Round(to, from, s)
<1>1. CASE s.left = 0
  <2>1. r = s
    BY <1>1 DEF Round
  <2> QED
    BY <1>1, <2>1
<1>2. CASE s.left # 0
  <2> DEFINE l1 == to[s.i].n - s.a
             l2 == from[s.j].n - s.b
             m == IF l1 <= l2 THEN l1 ELSE l2
             done == n - s.left
             dest == [chunk |-> to[s.i].chunk, at |-> to[s.i].at + s.a]
             data == s.mem[from[s.j].chunk]
             start == from[s.j].at + s.b
  <2>1. /\ s.left \in Nat /\ s.left > 0 /\ s.left <= n /\ s.i \in Nat /\ s.j \in Nat
        /\ s.mem \in Memory /\ Len(s.mem) = Len(mem)
        /\ SideOK(to, s.i, s.a, done) /\ SideOK(from, s.j, s.b, done)
    BY <1>2 DEF RoundOK
  <2>2. /\ IsPiece(to[s.i], gt + Start(to, s.i)) /\ IsPiece(from[s.j], gf + Start(from, s.j))
        /\ s.a \in Nat /\ s.a < to[s.i].n /\ done = Start(to, s.i) + s.a
        /\ s.b \in Nat /\ s.b < from[s.j].n /\ done = Start(from, s.j) + s.b
    BY <2>1 DEF SideOK, IsArray
  <2>3. l1 \in Nat /\ l2 \in Nat /\ l1 > 0 /\ l2 > 0 /\ to[s.i].n \in Nat /\ from[s.j].n \in Nat
    BY <2>2 DEF IsPiece
  <2>4. /\ m \in Nat /\ m > 0 /\ m <= l1 /\ m <= l2
        /\ (l1 <= l2 <=> l1 = m) /\ (l2 <= l1 <=> l2 = m)
        /\ Sets!Min({l1, l2}) = m
    <3>1. l1 \in Int /\ l2 \in Int /\ l1 > 0 /\ l2 > 0
      BY <2>3
    <3> HIDE DEF l1, l2
    <3> QED
      BY <2>3, <3>1, MinOfTwo
  <2>5. r = [mem |-> Put(s.mem, dest, m, data, start),
             i |-> IF l1 <= l2 THEN s.i + 1 ELSE s.i, a |-> IF l1 <= l2 THEN 0 ELSE s.a + m,
             j |-> IF l2 <= l1 THEN s.j + 1 ELSE s.j, b |-> IF l2 <= l1 THEN 0 ELSE s.b + m,
             left |-> s.left - m]
    <3> DEFINE l == Sets!Min({l1, l2})
    <3>1. r = [mem |-> Put(s.mem, dest, l, data, start),
               i |-> IF l1 <= l2 THEN s.i + 1 ELSE s.i, a |-> IF l1 <= l2 THEN 0 ELSE s.a + l,
               j |-> IF l2 <= l1 THEN s.j + 1 ELSE s.j, b |-> IF l2 <= l1 THEN 0 ELSE s.b + l,
               left |-> s.left - l]
      <4>1. r = CopyRound(to, from, s)
        BY <1>2 DEF Round
      <4> QED
        BY <4>1 DEF CopyRound
    <3>2. l = m
      BY <2>4
    <3> HIDE DEF l, l1, l2, m, dest, data, start
    <3> QED
      BY <3>1, <3>2
  <2> HIDE DEF m, r
  <2>6. /\ done \in Nat /\ done + m <= n
        /\ Start(to, s.i) \in Nat /\ Start(from, s.j) \in Nat
        /\ done + m < n /\ l1 = m => SideOK(to, s.i + 1, 0, done + m)
        /\ done + m < n /\ l1 # m => SideOK(to, s.i, s.a + m, done + m)
        /\ done + m < n /\ l2 = m => SideOK(from, s.j + 1, 0, done + m)
        /\ done + m < n /\ l2 # m => SideOK(from, s.j, s.b + m, done + m)
    <3>0. m <= to[s.i].n - s.a /\ m <= from[s.j].n - s.b
      BY <2>4
    <3> HIDE DEF done
    <3>1. /\ done \in Nat /\ done + m <= n /\ Start(to, s.i) \in Nat
          /\ done + m < n /\ to[s.i].n - s.a = m => SideOK(to, s.i + 1, 0, done + m)
          /\ done + m < n /\ to[s.i].n - s.a # m => SideOK(to, s.i, s.a + m, done + m)
      <4> DEFINE i == s.i
                 a == s.a
      <4>1. SideOK(to, i, a, done) /\ m <= to[i].n - a /\ m \in Nat /\ m > 0
        BY <2>1, <2>4, <3>0
      <4> HIDE DEF i, a
      <4>2. /\ done \in Nat /\ done + m <= n /\ Start(to, i) \in Nat
            /\ done + m < n /\ to[i].n - a = m => SideOK(to, i + 1, 0, done + m)
            /\ done + m < n /\ to[i].n - a # m => SideOK(to, i, a + m, done + m)
        BY <4>1, SideStep
      <4> QED
        BY <4>2 DEF i, a
    <3>2. /\ Start(from, s.j) \in Nat
          /\ done + m < n /\ from[s.j].n - s.b = m => SideOK(from, s.j + 1, 0, done + m)
          /\ done + m < n /\ from[s.j].n - s.b # m => SideOK(from, s.j, s.b + m, done + m)
      <4> DEFINE j == s.j
                 b == s.b
      <4>1. SideOK(from, j, b, done) /\ m <= from[j].n - b /\ m \in Nat /\ m > 0
        BY <2>1, <2>4, <3>0
      <4> HIDE DEF j, b
      <4>2. /\ Start(from, j) \in Nat
            /\ done + m < n /\ from[j].n - b = m => SideOK(from, j + 1, 0, done + m)
            /\ done + m < n /\ from[j].n - b # m => SideOK(from, j, b + m, done + m)
        BY <4>1, SideStep
      <4> QED
        BY <4>2 DEF j, b
    <3> QED
      BY <3>1, <3>2
  <2>7. r.left \in Nat /\ r.left <= n /\ n - r.left = done + m /\ (r.left > 0 <=> done + m < n)
    <3>1. r.left = s.left - m
      BY <2>5
    <3>2. done \in Nat /\ done + m <= n /\ m \in Nat /\ s.left \in Nat
      BY <2>1, <2>4, <2>6
    <3> HIDE DEF l1, l2, dest, data, start
    <3> QED
      BY <3>1, <3>2
  <2>8. /\ r.i \in Nat /\ r.j \in Nat /\ r.i + r.j >= s.i + s.j + 1
        /\ r.left > 0 => SideOK(to, r.i, r.a, n - r.left) /\ SideOK(from, r.j, r.b, n - r.left)
    <3>1. /\ r.i = IF l1 <= l2 THEN s.i + 1 ELSE s.i
          /\ r.a = IF l1 <= l2 THEN 0 ELSE s.a + m
          /\ r.j = IF l2 <= l1 THEN s.j + 1 ELSE s.j
          /\ r.b = IF l2 <= l1 THEN 0 ELSE s.b + m
      BY <2>5
    <3>2. r.i \in Nat /\ r.j \in Nat /\ r.i + r.j >= s.i + s.j + 1
      <4>1. (l1 <= l2 \/ l2 <= l1) /\ s.i \in Nat /\ s.j \in Nat
        BY <2>1, <2>3
      <4> HIDE DEF l1, l2
      <4> QED
        BY <3>1, <4>1
    <3> QED
      BY <2>4, <2>6, <2>7, <3>1, <3>2
  <2>9. /\ dest.chunk \in Nat \ {0} /\ dest.at \in Nat
        /\ ChunkSize * (dest.chunk - 1) + dest.at = gt + done
        /\ dest.at + m <= ChunkSize
    <3> DEFINE x == ChunkSize * (to[s.i].chunk - 1)
    <3>1. x \in Int /\ to[s.i].chunk \in Nat \ {0} /\ to[s.i].at \in Nat
          /\ to[s.i].at + to[s.i].n <= ChunkSize /\ x + to[s.i].at = gt + Start(to, s.i)
      BY <2>2, SizeAssumption DEF IsPiece
    <3>2. dest.chunk = to[s.i].chunk /\ dest.at = to[s.i].at + s.a
      OBVIOUS
    <3> HIDE DEF x, dest, done
    <3>3. x + dest.at = gt + done /\ dest.at \in Nat /\ dest.at + m <= ChunkSize
      BY <2>2, <2>3, <2>4, <2>6, <3>1, <3>2, SizeAssumption
    <3> QED
      BY <3>1, <3>2, <3>3 DEF x
  <2>10. /\ start \in Nat
         /\ \A k \in 0..(m - 1) : /\ data[start + k] = At(s.mem, gf + done + k)
                                  /\ gf + done + k \in Nat /\ gf + done + k < Size(mem)
    <3>1. start \in Nat
      BY <2>2 DEF IsPiece
    <3>2. ASSUME NEW k \in 0..(m - 1)
          PROVE  /\ data[start + k] = At(s.mem, gf + done + k)
                 /\ gf + done + k \in Nat /\ gf + done + k < Size(mem)
      <4>1. /\ s.b + k \in Nat /\ s.b + k < from[s.j].n /\ gf + Start(from, s.j) \in Nat
            /\ from[s.j].at + (s.b + k) = start + k
            /\ (gf + Start(from, s.j)) + (s.b + k) = gf + done + k
        BY <2>2, <2>3, <2>4, <2>6 DEF IsPiece
      <4>2. s.mem[from[s.j].chunk][from[s.j].at + (s.b + k)]
              = At(s.mem, (gf + Start(from, s.j)) + (s.b + k))
        <5> DEFINE x == gf + Start(from, s.j)
                   y == s.b + k
                   piece == from[s.j]
                   now == s.mem
        <5>1. IsPiece(piece, x) /\ x \in Nat /\ y \in Nat /\ y < piece.n
          BY <2>2, <4>1
        <5> HIDE DEF x, y, piece, now
        <5>2. now[piece.chunk][piece.at + y] = At(now, x + y)
          BY <5>1, InPiece
        <5> QED
          BY <5>2 DEF x, y, piece, now
      <4>3. gf + done + k < gf + n
        BY <2>4, <2>6
      <4>4. Size(mem) \in Nat
        BY SizeAssumption DEF Size, Memory
      <4> QED
        BY <2>6, <4>1, <4>2, <4>3, <4>4
    <3> QED
      BY <3>1, <3>2
  <2>11. Size(s.mem) = Size(mem) /\ Size(mem) \in Nat
    BY <2>1, SizeAssumption DEF Size, Memory
  <2>12. gt + done \in Nat /\ gt + done < Size(s.mem)
    BY <2>4, <2>6, <2>11
  <2>13. \A k \in 0..(m - 1) : data[start + k] \in Byte
    <3> HIDE DEF done, data, start
    <3> QED
      BY <2>1, <2>10, <2>11, AtType
  <2>14. /\ r.mem \in Memory /\ Len(r.mem) = Len(mem)
         /\ \A h \in Nat : h < Size(mem) =>
              At(r.mem, h) = IF h \in (gt + done)..((gt + done) + m - 1)
                             THEN data[start + (h - (gt + done))] ELSE At(s.mem, h)
    <3>1. r.mem = Put(s.mem, dest, m, data, start)
      BY <2>5
    <3> DEFINE g == gt + done
               now == s.mem
    <3>2. /\ now \in Memory /\ m \in Nat /\ m > 0
          /\ dest.chunk \in Nat \ {0} /\ dest.at \in Nat /\ dest.at + m <= ChunkSize
          /\ Supplies(data, start, m)
      BY <2>1, <2>4, <2>9, <2>13 DEF Supplies
    <3>3. /\ g \in Nat /\ g < Size(now) /\ ChunkSize * (dest.chunk - 1) + dest.at = g
          /\ start \in Nat
      BY <2>9, <2>10, <2>12
    <3> HIDE DEF dest, data, start, done, g, now
    <3>4. /\ Put(now, dest, m, data, start) \in Memory
          /\ Len(Put(now, dest, m, data, start)) = Len(now)
          /\ \A h \in Nat : h < Size(now) =>
               At(Put(now, dest, m, data, start), h)
                 = IF h \in g..(g + m - 1) THEN data[start + (h - g)] ELSE At(now, h)
      BY <3>2, <3>3, PutAt
    <3> QED
      BY <2>1, <2>11, <3>1, <3>4 DEF g, now
  <2>15. ASSUME NEW h \in Nat, h < Size(mem)
         PROVE  At(r.mem, h) = IF h \in gt..(gt + (n - r.left) - 1) THEN At(mem, gf + (h - gt))
                                                                    ELSE At(mem, h)
    <3>1. \A x \in Nat : x < Size(mem) =>
            At(s.mem, x) = IF x \in gt..(gt + done - 1) THEN At(mem, gf + (x - gt)) ELSE At(mem, x)
      BY DEF RoundOK
    <3>2. CASE h \in (gt + done)..((gt + done) + m - 1)
      <4> DEFINE k == h - (gt + done)
      <4>1. k \in 0..(m - 1) /\ gf + done + k = gf + (h - gt) /\ gf + done + k \in Nat
        BY <2>4, <2>6, <3>2
      <4>2. At(r.mem, h) = At(s.mem, gf + done + k) /\ gf + done + k < Size(mem)
        BY <2>10, <2>14, <3>2, <4>1, <2>15
      <4>3. gf + done + k \notin gt..(gt + done - 1)
        BY <2>4, <2>6, <4>1
      <4>4. At(r.mem, h) = At(mem, gf + (h - gt))
        BY <3>1, <4>1, <4>2, <4>3
      <4>5. h \in gt..(gt + (n - r.left) - 1)
        BY <2>4, <2>6, <2>7, <3>2
      <4> QED
        BY <4>4, <4>5
    <3>3. CASE h \notin (gt + done)..((gt + done) + m - 1)
      <4>1. At(r.mem, h) = At(s.mem, h)
        BY <2>14, <2>15, <3>3
      <4>2. h \in gt..(gt + (n - r.left) - 1) <=> h \in gt..(gt + done - 1)
        BY <2>4, <2>6, <2>7, <3>3
      <4> QED
        BY <3>1, <4>1, <4>2, <2>15
    <3> QED
      BY <3>2, <3>3
  <2>16. r.left \in 0..n
    BY <2>7
  <2>17. RoundOK(r, to, from, gt, gf, n, mem)
    BY <2>8, <2>14, <2>15, <2>16 DEF RoundOK
  <2> QED
    BY <2>8, <2>17 DEF r
<1> QED
  BY <1>1, <1>2

(* Two blocks of at most two pieces are copied in three rounds.            *)
LEMMA CopyBlockAt ==
  ASSUME NEW mem \in Memory, NEW gt \in Nat, NEW gf \in Nat, NEW n \in Nat, n > 0,
         NEW to, IsArray(to, gt, n), NEW from, IsArray(from, gf, n),
         gt + n <= Size(mem), gf + n <= Size(mem),
         gt + n <= gf \/ gf + n <= gt
  PROVE  LET new == CopyBlock(to, from, n, mem).mem
         IN  /\ new \in Memory /\ Len(new) = Len(mem)
             /\ \A h \in Nat : h < Size(mem) =>
                  At(new, h) = IF h \in gt..(gt + n - 1) THEN At(mem, gf + (h - gt))
                                                         ELSE At(mem, h)
<1> DEFINE s0 == [mem |-> mem, i |-> 1, a |-> 0, j |-> 1, b |-> 0, left |-> n]
           s1 == Round(to, from, s0)
           s2 == Round(to, from, s1)
           s3 == Round(to, from, s2)
           OK(s) == RoundOK(s, to, from, gt, gf, n, mem)
<1>1. OK(s0) /\ s0.i + s0.j = 2
  <2>1. /\ s0.left = n /\ s0.i = 1 /\ s0.j = 1 /\ s0.a = 0 /\ s0.b = 0 /\ s0.mem = mem
        /\ n - s0.left = 0
    OBVIOUS
  <2>2. SideOK(to, 1, 0, 0) /\ SideOK(from, 1, 0, 0)
    BY DEF SideOK, IsArray, IsPiece, Start
  <2>3. \A h \in Nat : h \notin gt..(gt + 0 - 1)
    OBVIOUS
  <2> HIDE DEF s0
  <2> QED
    BY <2>1, <2>2, <2>3 DEF RoundOK
<1> HIDE DEF s0, OK
<1>2. \A s : OK(s) => /\ OK(Round(to, from, s))
                      /\ \/ Round(to, from, s).left = 0
                         \/ Round(to, from, s).i + Round(to, from, s).j >= s.i + s.j + 1
  BY RoundStep DEF OK
<1>3. OK(s1) /\ (s1.left = 0 \/ s1.i + s1.j >= 3)
  BY <1>1, <1>2
<1>4. OK(s2) /\ (s2.left = 0 \/ s2.i + s2.j >= s1.i + s1.j + 1)
  <2>1. OK(s1)
    BY <1>3
  <2> HIDE DEF s1
  <2> QED
    BY <1>2, <2>1
<1>5. OK(s3) /\ (s3.left = 0 \/ s3.i + s3.j >= s2.i + s2.j + 1)
  <2>1. OK(s2)
    BY <1>4
  <2> HIDE DEF s2
  <2> QED
    BY <1>2, <2>1
<1>6. \A s : s.left = 0 => Round(to, from, s) = s
  BY DEF Round
<1>7. s3.left = 0
  <2> SUFFICES ASSUME s3.left # 0 PROVE FALSE
    OBVIOUS
  <2>1. s2.left # 0 /\ s1.left # 0
    <3>1. s2.left = 0 => s3 = s2
      <4> HIDE DEF s2
      <4> QED
        BY <1>6
    <3>2. s1.left = 0 => s2 = s1
      <4> HIDE DEF s1
      <4> QED
        BY <1>6
    <3> HIDE DEF s1, s2, s3
    <3> QED
      BY <3>1, <3>2
  <2> HIDE DEF s1, s2, s3
  <2>2. /\ s1.i \in Nat /\ s1.j \in Nat /\ s2.i \in Nat /\ s2.j \in Nat
        /\ s3.i \in Nat /\ s3.j \in Nat /\ s3.left \in Nat
    BY <1>3, <1>4, <1>5 DEF OK, RoundOK
  <2>3. s3.i + s3.j >= 5
    BY <1>3, <1>4, <1>5, <2>1, <2>2
  <2>4. s3.i \in 1..Len(to) /\ s3.j \in 1..Len(from)
    BY <1>5, <2>2 DEF OK, RoundOK, SideOK
  <2>5. s3.i <= 2 /\ s3.j <= 2
    <3>1. 1..Len(to) \subseteq 1..2 /\ 1..Len(from) \subseteq 1..2
      BY DEF IsArray
    <3> QED
      BY <2>4, <3>1
  <2> QED
    BY <2>2, <2>3, <2>5
<1>8. CopyBlock(to, from, n, mem) = s3
  BY DEF CopyBlock, s0
<1> HIDE DEF s3
<1>9. gt + (n - s3.left) - 1 = gt + n - 1
  BY <1>7
<1> QED
  BY <1>5, <1>8, <1>9 DEF OK, RoundOK

(* The memory after fill, of one memcpy for each piece.                    *)
LEMMA FillAt ==
  ASSUME NEW mem \in Memory, NEW g \in Nat, NEW n \in Nat, n > 0,
         NEW arr, IsArray(arr, g, n), g + n <= Size(mem),
         NEW img \in [0..(n - 1) -> Byte]
  PROVE  LET first == Put(mem, arr[1], arr[1].n, img, 0)
             new   == IF Len(arr) = 1 THEN first
                                      ELSE Put(first, arr[2], arr[2].n, img, arr[1].n)
         IN  /\ new \in Memory /\ Len(new) = Len(mem)
             /\ \A h \in Nat : h < Size(mem) =>
                  At(new, h) = IF h \in g..(g + n - 1) THEN img[h - g] ELSE At(mem, h)
<1> DEFINE n1 == arr[1].n
           first == Put(mem, arr[1], n1, img, 0)
           second == Put(first, arr[2], arr[2].n, img, n1)
<1>1. IsPiece(arr[1], g) /\ n1 \in Nat /\ n1 > 0 /\ n1 <= n
  <2>1. Len(arr) \in {1, 2} /\ IsPiece(arr[1], g + Start(arr, 1)) /\ g + Start(arr, 1) = g
    BY DEF IsArray, Start
  <2>2. Len(arr) = 2 => arr[2].n \in Nat /\ n = n1 + arr[2].n
    BY <2>1 DEF IsArray, IsPiece
  <2> QED
    BY <2>1, <2>2 DEF IsPiece, IsArray
<1>2. Size(mem) \in Nat
  BY SizeAssumption DEF Size, Memory
<1>3. /\ first \in Memory /\ Len(first) = Len(mem)
      /\ \A h \in Nat : h < Size(mem) =>
           At(first, h) = IF h \in g..(g + n1 - 1) THEN img[0 + (h - g)] ELSE At(mem, h)
  <2>1. Supplies(img, 0, n1)
    BY <1>1 DEF Supplies
  <2>2. g < Size(mem)
    BY <1>2
  <2> HIDE DEF n1
  <2>3. /\ arr[1].chunk \in Nat \ {0} /\ arr[1].at \in Nat /\ arr[1].at + n1 <= ChunkSize
        /\ ChunkSize * (arr[1].chunk - 1) + arr[1].at = g
    BY <1>1 DEF IsPiece, n1
  <2> QED
    BY <1>1, <2>1, <2>2, <2>3, PutAt
<1>4. CASE Len(arr) = 1
  <2>1. n1 = n
    BY <1>4 DEF IsArray
  <2>2. \A h \in Nat : h \in g..(g + n - 1) => 0 + (h - g) = h - g
    OBVIOUS
  <2> QED
    BY <1>3, <1>4, <2>1, <2>2
<1>5. CASE Len(arr) = 2
  <2> DEFINE n2 == arr[2].n
             g2 == g + n1
  <2>1. IsPiece(arr[2], g2) /\ n2 \in Nat /\ n2 > 0 /\ n = n1 + n2 /\ g2 \in Nat
    <3>1. Start(arr, 2) = n1 /\ IsPiece(arr[2], g + Start(arr, 2)) /\ n = n1 + n2
      BY <1>5 DEF IsArray, Start
    <3>2. n2 \in Nat /\ n2 > 0
      BY <3>1 DEF IsPiece
    <3> QED
      BY <1>1, <3>1, <3>2
  <2>2. Supplies(img, n1, n2)
    <3> HIDE DEF n1, n2
    <3>1. \A k \in 0..(n2 - 1) : n1 + k \in 0..(n - 1)
      BY <1>1, <2>1
    <3> QED
      BY <3>1 DEF Supplies
  <2>3. g2 < Size(mem) /\ Size(first) = Size(mem)
    <3>1. Size(first) = Size(mem)
      BY <1>3 DEF Size
    <3>2. Size(mem) \in Nat
      BY SizeAssumption DEF Size, Memory
    <3> HIDE DEF g2, n2, first
    <3>3. g2 + n2 = g + n /\ g + n <= Size(mem)
      BY <1>1, <1>2, <2>1 DEF g2
    <3> QED
      BY <2>1, <3>1, <3>2, <3>3
  <2> HIDE DEF n1, n2, g2, first
  <2>4. /\ arr[2].chunk \in Nat \ {0} /\ arr[2].at \in Nat /\ arr[2].at + n2 <= ChunkSize
        /\ ChunkSize * (arr[2].chunk - 1) + arr[2].at = g2
    BY <2>1 DEF IsPiece, n2
  <2>5. /\ Put(first, arr[2], n2, img, n1) \in Memory
        /\ Len(Put(first, arr[2], n2, img, n1)) = Len(first)
        /\ \A h \in Nat : h < Size(first) =>
             At(Put(first, arr[2], n2, img, n1), h)
               = IF h \in g2..(g2 + n2 - 1) THEN img[n1 + (h - g2)] ELSE At(first, h)
    <3>1. first \in Memory /\ n1 \in Nat /\ n2 \in Nat /\ n2 > 0 /\ g2 \in Nat
          /\ g2 < Size(first)
      BY <1>1, <1>3, <2>1, <2>3
    <3> QED
      BY <2>2, <2>4, <3>1, PutAt
  <2>6. second = Put(first, arr[2], n2, img, n1)
    BY DEF n2
  <2> HIDE DEF second
  <2>7. ASSUME NEW h \in Nat, h < Size(mem)
        PROVE  At(second, h) = IF h \in g..(g + n - 1) THEN img[h - g] ELSE At(mem, h)
    <3>1. g2 = g + n1
      BY DEF g2
    <3>2. CASE h \in g2..(g2 + n2 - 1)
      <4>1. h \in g..(g + n - 1) /\ n1 + (h - g2) = h - g
        BY <1>1, <2>1, <3>1, <3>2
      <4> QED
        BY <2>3, <2>5, <2>6, <2>7, <3>2, <4>1
    <3>3. CASE h \notin g2..(g2 + n2 - 1)
      <4>1. At(second, h) = At(first, h)
        BY <2>3, <2>5, <2>6, <2>7, <3>3
      <4>2. h \in g..(g + n1 - 1) <=> h \in g..(g + n - 1)
        BY <1>1, <2>1, <3>1, <3>3
      <4>3. 0 + (h - g) = h - g
        OBVIOUS
      <4> QED
        BY <1>3, <2>7, <4>1, <4>2, <4>3
    <3> QED
      BY <3>2, <3>3
  <2>8. second \in Memory /\ Len(second) = Len(mem)
    BY <1>3, <2>5, <2>6
  <2> QED
    BY <1>5, <2>7, <2>8 DEF n1, first, second
<1> QED
  BY <1>4, <1>5 DEF IsArray
-----------------------------------------------------------------------------
(* The inductive invariant. That create finds the end of the newest block  *)
(* and remove the newest pointer needs the positions and the lists at once,*)
(* and that both reach existing chunks needs their number.                 *)
IInv == Layout /\ ListsComplete

(* The chunks that blocks of x bytes in all need.                          *)
Needed(x) == (x + ChunkSize - 1) \div ChunkSize

LEMMA NeededHolds ==
  ASSUME NEW x \in Nat
  PROVE  /\ Needed(x) \in Nat /\ x <= ChunkSize * Needed(x)
         /\ x > 0 => Needed(x) > 0
         /\ Needed(x) = IF x % ChunkSize = 0 THEN x \div ChunkSize ELSE (x \div ChunkSize) + 1
<1> DEFINE q == x \div ChunkSize
           r == x % ChunkSize
<1>1. q \in Nat /\ r \in Nat /\ r < ChunkSize /\ x = ChunkSize * q + r
  BY DivMod
<1> HIDE DEF q, r
<1>2. Needed(x) = IF r = 0 THEN q ELSE q + 1
  BY <1>1, ChunksNeeded DEF Needed
<1>3. Needed(x) \in Nat /\ x <= ChunkSize * Needed(x)
  BY <1>1, <1>2, SizeAssumption
<1>4. x > 0 => Needed(x) > 0
  BY <1>1, <1>2, SizeAssumption
<1> QED
  BY <1>2, <1>3, <1>4 DEF q, r

(* A block of l bytes from byte x on needs one chunk more if it begins the *)
(* chunk or ends beyond it: when create appends one, and remove frees one. *)
LEMMA NeededMore ==
  ASSUME NEW x \in Nat, NEW l \in Lens
  PROVE  Needed(x + l) = IF x % ChunkSize = 0 \/ (x % ChunkSize) + l > ChunkSize
                         THEN Needed(x) + 1 ELSE Needed(x)
<1> DEFINE q == x \div ChunkSize
           r == x % ChunkSize
<1>1. q \in Nat /\ r \in Nat /\ r < ChunkSize /\ x = ChunkSize * q + r
  BY DivMod
<1> HIDE DEF q, r
<1>2. l \in Nat /\ l > 0 /\ l <= ChunkSize /\ ChunkSize \in Nat
  BY LenNat, SizeAssumption
<1>3. Needed(x) = IF r = 0 THEN q ELSE q + 1
  BY <1>1, ChunksNeeded DEF Needed
<1>4. CASE r + l < ChunkSize
  <2>1. x + l = ChunkSize * q + (r + l)
    BY <1>1, <1>2
  <2>2. Needed(x + l) = q + 1
    BY <1>1, <1>2, <1>4, <2>1, ChunksNeeded DEF Needed
  <2> QED
    BY <1>1, <1>2, <1>3, <1>4, <2>2 DEF r
<1>5. CASE r + l >= ChunkSize
  <2> DEFINE s == r + l - ChunkSize
  <2>1. s \in Nat /\ s < ChunkSize /\ x + l = ChunkSize * (q + 1) + s
    BY <1>1, <1>2, <1>5
  <2>2. s = 0 <=> r + l = ChunkSize
    BY <1>1, <1>2
  <2> HIDE DEF s
  <2>3. Needed(x + l) = IF s = 0 THEN q + 1 ELSE (q + 1) + 1
    BY <1>1, <2>1, ChunksNeeded DEF Needed
  <2>4. r = 0 => s = 0
    BY <1>2, <1>5, <2>2
  <2> QED
    BY <1>1, <1>2, <1>3, <1>5, <2>2, <2>3, <2>4 DEF r
<1> QED
  BY <1>1, <1>2, <1>4, <1>5

(* Front and Last of SequencesExt, on non-empty sequences.                 *)
LEMMA FrontLast ==
  ASSUME NEW S, NEW s \in Seq(S), s # <<>>
  PROVE  /\ Len(s) \in Nat /\ Len(s) > 0
         /\ Seqs!Last(s) = s[Len(s)] /\ Seqs!Last(s) \in S
         /\ Seqs!Front(s) \in Seq(S) /\ Len(Seqs!Front(s)) = Len(s) - 1
         /\ \A i \in 1..(Len(s) - 1) : Seqs!Front(s)[i] = s[i]
<1>1. Len(s) \in Nat /\ Len(s) > 0
  OBVIOUS
<1>2. Seqs!Last(s) = s[Len(s)] /\ Seqs!Last(s) \in S
  BY <1>1 DEF Seqs!Last
<1>3. Seqs!Front(s) = [i \in 1..(Len(s) - 1) |-> s[i]]
  BY <1>1 DEF Seqs!Front
<1>4. Len(Seqs!Front(s)) = Len(s) - 1 /\ Seqs!Front(s) \in Seq(S)
  BY <1>1, <1>3
<1> QED
  BY <1>1, <1>2, <1>3, <1>4

(* The last chunk is freed, or one is added: the bytes of the others stay. *)
LEMMA FrontAt ==
  ASSUME NEW mem \in Memory, mem # <<>>, NEW h \in Nat, h < Size(Seqs!Front(mem))
  PROVE  At(Seqs!Front(mem), h) = At(mem, h)
<1>1. Seqs!Front(mem) \in Memory /\ Len(Seqs!Front(mem)) = Len(mem) - 1
      /\ \A i \in 1..(Len(mem) - 1) : Seqs!Front(mem)[i] = mem[i]
  BY FrontLast DEF Memory
<1>2. (h \div ChunkSize) + 1 \in 1..Len(Seqs!Front(mem))
  BY <1>1, AtType
<1> QED
  BY <1>1, <1>2 DEF At

LEMMA AppendAt ==
  ASSUME NEW mem \in Memory, NEW chunk \in [Addr -> Byte]
  PROVE  /\ Append(mem, chunk) \in Memory /\ Len(Append(mem, chunk)) = Len(mem) + 1
         /\ \A h \in Nat : h < Size(mem) => At(Append(mem, chunk), h) = At(mem, h)
<1>1. Append(mem, chunk) \in Memory /\ Len(Append(mem, chunk)) = Len(mem) + 1
      /\ \A i \in 1..Len(mem) : Append(mem, chunk)[i] = mem[i]
  BY DEF Memory
<1>2. \A h \in Nat : h < Size(mem) => (h \div ChunkSize) + 1 \in 1..Len(mem)
  BY AtType
<1> QED
  BY <1>1, <1>2 DEF At

(* What the invariant says of a pointer that owns a block.                 *)
Base(p) == (ref[p] - 1) * len[p]

LEMMA LiveBlock ==
  ASSUME IInv, NEW p \in Live
  PROVE  /\ p \in Ptrs /\ len[p] \in Lens
         /\ ref[p] \in 1..Len(ptrList[len[p]]) /\ ptrList[len[p]][ref[p]] = p
         /\ Base(p) \in Nat
         /\ pos[p] = Base(p) % ChunkSize /\ chunkRef[p] = (Base(p) \div ChunkSize) + 1
         /\ chunkList[len[p]] \in Memory
         /\ Base(p) + len[p] <= Len(ptrList[len[p]]) * len[p]
         /\ Base(p) + len[p] <= Size(chunkList[len[p]])
<1> USE DEF IInv, Layout, TypeOK
<1> DEFINE l == len[p]
           n == Len(ptrList[l])
           i == ref[p]
<1>1. p \in Ptrs /\ l \in Lens /\ l \in Nat /\ l > 0
  BY LenNat DEF Live
<1>2. ptrList[l] \in Seq(Ptrs) /\ n \in Nat /\ i \in 1..n /\ ptrList[l][i] = p
  BY <1>1 DEF ListsComplete
<1>3. pos[p] = ((i - 1) * l) % ChunkSize /\ chunkRef[p] = ((i - 1) * l) \div ChunkSize + 1
  BY <1>1, <1>2 DEF PointerPosition
<1>4. i - 1 \in Nat /\ i - 1 < n
  BY <1>2
<1>5. (i - 1) * l \in Nat /\ (i - 1) * l + l <= n * l /\ n * l \in Nat
  <2> HIDE DEF l, n, i
  <2> DEFINE m == i - 1
  <2>1. m \in Nat /\ m < n /\ n \in Nat /\ l \in Nat
    BY <1>1, <1>2, <1>4
  <2> HIDE DEF m
  <2>2. n * l \in Nat /\ m * l \in Nat /\ m * l + l <= n * l
    BY <2>1, BlockOrder
  <2> QED
    BY <2>2 DEF m
<1>6. chunkList[l] \in Memory /\ Len(chunkList[l]) = Needed(n * l)
  BY <1>1 DEF ChunkCount, Needed, Memory
<1>7. n * l <= Size(chunkList[l]) /\ Size(chunkList[l]) \in Nat
  <2> DEFINE x == n * l
  <2>1. x \in Nat /\ Size(chunkList[l]) = ChunkSize * Needed(x)
    BY <1>5, <1>6 DEF Size
  <2> HIDE DEF x
  <2>2. Needed(x) \in Nat /\ x <= ChunkSize * Needed(x)
    BY <2>1, NeededHolds
  <2> QED
    BY <2>1, <2>2, SizeAssumption DEF x
<1> QED
  BY <1>1, <1>2, <1>3, <1>5, <1>6, <1>7 DEF Base

(* The pointers in the list of a length are live, each at its place.       *)
LEMMA Listed ==
  ASSUME IInv, NEW l \in Lens, NEW i \in 1..Len(ptrList[l])
  PROVE  /\ ptrList[l][i] \in Live /\ len[ptrList[l][i]] = l /\ ref[ptrList[l][i]] = i
         /\ Len(ptrList[l]) \in Nat
<1>1. ptrList[l] \in Seq(Ptrs) /\ ptrList[l][i] \in Ptrs /\ Len(ptrList[l]) \in Nat
  BY DEF IInv, Layout, TypeOK
<1>2. len[ptrList[l][i]] = l /\ ref[ptrList[l][i]] = i
  BY DEF IInv, Layout, PointerPosition
<1> QED
  BY <1>1, <1>2, LenNat DEF Live

LEMMA InitIInv == Init => IInv
<1> SUFFICES ASSUME Init PROVE IInv
  OBVIOUS
<1>1. TypeOK
  BY SizeAssumption DEF Init, TypeOK, Addr
<1>2. PointerPosition /\ ListsComplete
  BY DEF Init, PointerPosition, ListsComplete, Live
<1>3. ChunkCount
  <2>1. Needed(0) = 0
    <3>1. 0 = ChunkSize * 0 + 0 /\ 0 < ChunkSize
      BY SizeAssumption
    <3> QED
      BY <3>1, ChunksNeeded DEF Needed
  <2>2. \A l \in Lens : 0 * l = 0
    BY LenNat
  <2> QED
    BY <2>1, <2>2 DEF Init, ChunkCount, Needed
<1> QED
  BY <1>1, <1>2, <1>3 DEF IInv, Layout
-----------------------------------------------------------------------------
(* create computes the end of the newest block, which is where the lists   *)
(* say that the next one begins.                                           *)
LEMMA PlaceIs ==
  ASSUME IInv, NEW l \in Lens
  PROVE  LET g == Len(ptrList[l]) * l
         IN  /\ g \in Nat
             /\ Place(l).pos = ChunkSize <=> g % ChunkSize = 0
             /\ Place(l).pos # ChunkSize =>
                  /\ Place(l).pos = g % ChunkSize
                  /\ Place(l).chunk = (g \div ChunkSize) + 1
<1> DEFINE n == Len(ptrList[l])
           g == n * l
           Right(x) == /\ Place(l).pos = ChunkSize <=> x % ChunkSize = 0
                       /\ Place(l).pos # ChunkSize =>
                            /\ Place(l).pos = x % ChunkSize
                            /\ Place(l).chunk = (x \div ChunkSize) + 1
<1>1. ptrList[l] \in Seq(Ptrs) /\ n \in Nat /\ l \in Nat /\ l > 0 /\ l <= ChunkSize
      /\ ChunkSize \in Nat
  BY LenNat, SizeAssumption DEF IInv, Layout, TypeOK
<1>2. g \in Nat
  BY <1>1, BlockOrder
<1>3. ASSUME ptrList[l] = <<>> PROVE Right(g)
  <2>1. n = 0 /\ g = ChunkSize * 0 + 0
    BY <1>1, <1>3
  <2>2. g % ChunkSize = 0
    BY <1>1, <2>1, DivModIs
  <2>3. Place(l).pos = ChunkSize
    BY <1>3 DEF Place
  <2> QED
    BY <2>2, <2>3
<1>4. ASSUME ptrList[l] # <<>> PROVE Right(g)
  <2> DEFINE prev == Seqs!Last(ptrList[l])
             before == (n - 1) * l
             q == before \div ChunkSize
             r == before % ChunkSize
             next == r + l
  <2>1. prev = ptrList[l][n] /\ n \in 1..n /\ n > 0
    <3>1. n > 0 /\ prev = ptrList[l][Len(ptrList[l])]
      BY <1>1, <1>4, FrontLast
    <3> QED
      BY <1>1, <3>1
  <2>2. len[prev] = l /\ pos[prev] = r /\ chunkRef[prev] = q + 1
    BY <2>1 DEF IInv, Layout, PointerPosition
  <2>3. before \in Nat /\ g = before + l
    BY <1>1, <2>1
  <2>4. q \in Nat /\ r \in Nat /\ r < ChunkSize /\ g = ChunkSize * q + (r + l)
    <3>1. q \in Nat /\ r \in Nat /\ r < ChunkSize /\ before = ChunkSize * q + r
      BY <2>3, DivMod
    <3> HIDE DEF q, r, before, g
    <3> QED
      BY <1>1, <2>3, <3>1
  <2>5. Place(l) = IF next > ChunkSize
                   THEN [pos |-> next - ChunkSize, chunk |-> (q + 1) + 1]
                   ELSE [pos |-> next, chunk |-> q + 1]
    BY <1>4, <2>2 DEF Place
  <2> HIDE DEF q, r, before, g, prev
  <2>6. CASE next < ChunkSize
    <3>1. g % ChunkSize = next /\ g \div ChunkSize = q
      <4>1. next \in Nat /\ g = ChunkSize * q + next
        BY <1>1, <2>4
      <4> HIDE DEF next
      <4> QED
        BY <2>4, <2>6, <4>1, DivModIs
    <3>2. Place(l).pos = next /\ Place(l).chunk = q + 1
      BY <1>1, <2>4, <2>5, <2>6
    <3> QED
      BY <1>1, <2>4, <2>6, <3>1, <3>2
  <2>7. CASE next = ChunkSize
    <3>1. g = ChunkSize * (q + 1) + 0
      BY <1>1, <2>4, <2>7
    <3>2. g % ChunkSize = 0
      <4>1. q + 1 \in Nat
        BY <2>4
      <4> QED
        BY <1>1, <3>1, <4>1, LenNat, DivModIs
    <3>3. Place(l).pos = ChunkSize
      BY <1>1, <2>5, <2>7
    <3> QED
      BY <3>2, <3>3
  <2>8. CASE next > ChunkSize
    <3> DEFINE s == next - ChunkSize
    <3>1. s \in Nat /\ s > 0 /\ s < ChunkSize /\ g = ChunkSize * (q + 1) + s /\ q + 1 \in Nat
      BY <1>1, <2>4, <2>8
    <3> HIDE DEF s
    <3>2. g % ChunkSize = s /\ g \div ChunkSize = q + 1
      BY <3>1, DivModIs
    <3>3. Place(l).pos = s /\ Place(l).chunk = (q + 1) + 1
      BY <2>5, <2>8 DEF s
    <3> QED
      BY <1>1, <3>1, <3>2, <3>3
  <2> QED
    BY <1>1, <2>4, <2>6, <2>7, <2>8
<1> QED
  BY <1>2, <1>3, <1>4

(* create gives p the place behind the blocks of its length, and the chunk *)
(* that it needs if it needs one more.                                     *)
LEMMA CreateEffect ==
  ASSUME IInv, NEW l \in Lens, NEW p \in Ptrs, Create(l, p)
  PROVE  LET n == Len(ptrList[l])
             g == n * l
         IN  /\ len[p] = 0 /\ n \in Nat /\ g \in Nat
             /\ len' = [len EXCEPT ![p] = l]
             /\ pos' = [pos EXCEPT ![p] = g % ChunkSize]
             /\ chunkRef' = [chunkRef EXCEPT ![p] = (g \div ChunkSize) + 1]
             /\ ref' = [ref EXCEPT ![p] = n + 1]
             /\ ptrList' = [ptrList EXCEPT ![l] = Append(@, p)]
             /\ chunkList' \in [Lens -> Memory]
             /\ \A m \in Lens \ {l} : chunkList'[m] = chunkList[m]
             /\ Len(chunkList'[l]) = Needed(g + l)
             /\ \A h \in Nat : h < Size(chunkList[l]) => At(chunkList'[l], h) = At(chunkList[l], h)
<1> DEFINE n == Len(ptrList[l])
           g == n * l
           r == g % ChunkSize
           mem == chunkList[l]
           place == Place(l)
           fresh == place.pos = ChunkSize
           more == fresh \/ place.pos + l > ChunkSize
<1>1. /\ len[p] = 0
      /\ chunkList' = [chunkList EXCEPT ![l] = IF more THEN Append(@, NewChunk) ELSE @]
      /\ len' = [len EXCEPT ![p] = l]
      /\ pos' = [pos EXCEPT ![p] = IF fresh THEN 0 ELSE place.pos]
      /\ chunkRef' = [chunkRef EXCEPT ![p] = IF fresh THEN Len(chunkList'[l]) ELSE place.chunk]
      /\ ptrList' = [ptrList EXCEPT ![l] = Append(@, p)]
      /\ ref' = [ref EXCEPT ![p] = Len(ptrList'[l])]
  BY DEF Create
<1>2. /\ ptrList \in [Lens -> Seq(Ptrs)] /\ chunkList \in [Lens -> Memory]
      /\ mem \in Memory /\ n \in Nat /\ l \in Nat /\ l > 0 /\ l <= ChunkSize
      /\ Len(mem) = Needed(g)
  BY LenNat DEF IInv, Layout, TypeOK, ChunkCount, Needed, Memory
<1>3. /\ g \in Nat /\ (fresh <=> r = 0)
      /\ ~fresh => place.pos = r /\ place.chunk = (g \div ChunkSize) + 1
  BY PlaceIs
<1>4. more <=> (r = 0 \/ r + l > ChunkSize)
  BY <1>3
<1>5. NewChunk \in [Addr -> Byte]
  BY ByteAssumption DEF NewChunk
<1>6. chunkList'[l] = IF more THEN Append(mem, NewChunk) ELSE mem
  BY <1>1, <1>2
<1>7. /\ chunkList'[l] \in Memory /\ Len(chunkList'[l]) = Needed(g + l)
      /\ \A h \in Nat : h < Size(mem) => At(chunkList'[l], h) = At(mem, h)
  <2>1. Needed(g + l) = IF more THEN Needed(g) + 1 ELSE Needed(g)
    BY <1>3, <1>4, NeededMore
  <2> HIDE DEF more, mem, g
  <2>2. CASE more
    <3>1. chunkList'[l] = Append(mem, NewChunk)
      BY <1>6, <2>2
    <3> QED
      BY <1>2, <1>5, <2>1, <2>2, <3>1, AppendAt
  <2>3. CASE ~more
    BY <1>2, <1>6, <2>1, <2>3
  <2> QED
    BY <2>2, <2>3
<1>8. chunkList' \in [Lens -> Memory] /\ \A m \in Lens \ {l} : chunkList'[m] = chunkList[m]
  BY <1>1, <1>2, <1>7
<1>9. ref' = [ref EXCEPT ![p] = n + 1]
  <2>1. ptrList'[l] = Append(ptrList[l], p)
    BY <1>1, <1>2
  <2>2. Len(ptrList'[l]) = n + 1
    BY <1>2, <2>1
  <2> QED
    BY <1>1, <2>2
<1>10. pos' = [pos EXCEPT ![p] = r]
  BY <1>1, <1>3
<1>11. chunkRef' = [chunkRef EXCEPT ![p] = (g \div ChunkSize) + 1]
  <2>1. CASE fresh
    <3>1. Len(chunkList'[l]) = Needed(g) + 1
      BY <1>3, <1>7, <2>1, NeededMore
    <3>2. Needed(g) = g \div ChunkSize
      BY <1>3, <2>1, NeededHolds
    <3> QED
      BY <1>1, <2>1, <3>1, <3>2
  <2>2. CASE ~fresh
    BY <1>1, <1>3, <2>2
  <2> QED
    BY <2>1, <2>2
<1> QED
  BY <1>1, <1>2, <1>3, <1>7, <1>8, <1>9, <1>10, <1>11

LEMMA CreateKeeps ==
  ASSUME IInv, NEW l \in Lens, NEW p \in Ptrs, Create(l, p)
  PROVE  IInv'
<1> DEFINE n == Len(ptrList[l])
           g == n * l
<1>1. /\ len[p] = 0 /\ n \in Nat /\ g \in Nat
      /\ len' = [len EXCEPT ![p] = l]
      /\ pos' = [pos EXCEPT ![p] = g % ChunkSize]
      /\ chunkRef' = [chunkRef EXCEPT ![p] = (g \div ChunkSize) + 1]
      /\ ref' = [ref EXCEPT ![p] = n + 1]
      /\ ptrList' = [ptrList EXCEPT ![l] = Append(@, p)]
      /\ chunkList' \in [Lens -> Memory]
      /\ \A m \in Lens \ {l} : chunkList'[m] = chunkList[m]
      /\ Len(chunkList'[l]) = Needed(g + l)
  BY CreateEffect
<1>2. TypeOK
  BY DEF IInv, Layout
<1>3. g % ChunkSize \in Addr /\ (g \div ChunkSize) + 1 \in Nat
  <2> HIDE DEF g
  <2>1. g % ChunkSize \in Nat /\ g % ChunkSize < ChunkSize /\ g \div ChunkSize \in Nat
    BY <1>1, DivMod
  <2> QED
    BY <2>1, SizeAssumption DEF Addr
<1>4. TypeOK'
  <2>1. len' \in [Ptrs -> Lens \cup {0}] /\ pos' \in [Ptrs -> Addr]
    BY <1>1, <1>2, <1>3 DEF TypeOK
  <2>2. chunkRef' \in [Ptrs -> Nat] /\ ref' \in [Ptrs -> Nat]
    BY <1>1, <1>2, <1>3 DEF TypeOK
  <2>3. ptrList' \in [Lens -> Seq(Ptrs)]
    BY <1>1, <1>2 DEF TypeOK
  <2> QED
    BY <1>1, <2>1, <2>2, <2>3 DEF TypeOK, Memory
<1>5. /\ ptrList'[l] = Append(ptrList[l], p) /\ ptrList[l] \in Seq(Ptrs)
      /\ \A m \in Lens \ {l} : ptrList'[m] = ptrList[m]
  BY <1>1, <1>2 DEF TypeOK
<1>6. Len(ptrList'[l]) = n + 1 /\ ptrList'[l][n + 1] = p
      /\ \A i \in 1..n : ptrList'[l][i] = ptrList[l][i]
  BY <1>1, <1>5
<1>7. /\ len'[p] = l /\ ref'[p] = n + 1 /\ pos'[p] = g % ChunkSize
      /\ chunkRef'[p] = (g \div ChunkSize) + 1
      /\ \A x \in Ptrs \ {p} : /\ len'[x] = len[x] /\ ref'[x] = ref[x]
                               /\ pos'[x] = pos[x] /\ chunkRef'[x] = chunkRef[x]
  BY <1>1, <1>2 DEF TypeOK
<1>8. PointerPosition'
  <2> SUFFICES ASSUME NEW m \in Lens, NEW i \in 1..Len(ptrList'[m])
               PROVE  /\ len'[ptrList'[m][i]] = m /\ ref'[ptrList'[m][i]] = i
                      /\ pos'[ptrList'[m][i]] = ((i - 1) * m) % ChunkSize
                      /\ chunkRef'[ptrList'[m][i]] = ((i - 1) * m) \div ChunkSize + 1
    BY DEF PointerPosition
  <2>1. CASE i \in 1..Len(ptrList[m])
    <3> DEFINE x == ptrList[m][i]
    <3>1. /\ len[x] = m /\ ref[x] = i /\ pos[x] = ((i - 1) * m) % ChunkSize
          /\ chunkRef[x] = ((i - 1) * m) \div ChunkSize + 1
      BY <2>1 DEF IInv, Layout, PointerPosition
    <3>2. x \in Ptrs /\ x # p
      BY <1>1, <2>1, <3>1, Listed, LenNat DEF Live
    <3>3. ptrList'[m][i] = x
      BY <1>5, <1>6, <2>1
    <3> QED
      BY <1>7, <3>1, <3>2, <3>3
  <2>2. CASE i \notin 1..Len(ptrList[m])
    <3>1. m = l /\ i = n + 1
      BY <1>1, <1>5, <1>6, <2>2
    <3>2. (i - 1) * m = g
      BY <1>1, <3>1
    <3> QED
      BY <1>6, <1>7, <3>1, <3>2
  <2> QED
    BY <2>1, <2>2
<1>9. ListsComplete'
  <2> SUFFICES ASSUME NEW x \in Ptrs, len'[x] # 0
               PROVE  /\ ref'[x] \in 1..Len(ptrList'[len'[x]])
                      /\ ptrList'[len'[x]][ref'[x]] = x
    BY DEF ListsComplete, Live
  <2>1. CASE x = p
    BY <1>1, <1>6, <1>7, <2>1
  <2>2. CASE x # p
    <3>1. x \in Live /\ len[x] \in Lens /\ len'[x] = len[x] /\ ref'[x] = ref[x]
      BY <1>2, <1>7, <2>2 DEF Live, TypeOK
    <3>2. ref[x] \in 1..Len(ptrList[len[x]]) /\ ptrList[len[x]][ref[x]] = x
      BY <3>1, LiveBlock
    <3>3. CASE len[x] = l
      BY <1>1, <1>6, <3>1, <3>2, <3>3
    <3>4. CASE len[x] # l
      BY <1>5, <3>1, <3>2, <3>4
    <3> QED
      BY <3>3, <3>4
  <2> QED
    BY <2>1, <2>2
<1>10. ChunkCount'
  <2> SUFFICES ASSUME NEW m \in Lens
               PROVE  Len(chunkList'[m]) = Needed(Len(ptrList'[m]) * m)
    BY DEF ChunkCount, Needed
  <2>1. CASE m = l
    <3>1. Len(ptrList'[l]) * l = g + l
      BY <1>1, <1>6, LenNat
    <3> QED
      BY <1>1, <2>1, <3>1
  <2>2. CASE m # l
    <3>1. Len(chunkList[m]) = Needed(Len(ptrList[m]) * m)
      BY DEF IInv, Layout, ChunkCount, Needed
    <3> QED
      BY <1>1, <1>5, <2>2, <3>1
  <2> QED
    BY <2>1, <2>2
<1> QED
  BY <1>4, <1>8, <1>9, <1>10 DEF IInv, Layout
-----------------------------------------------------------------------------
(* The pieces that getMemoryArray finds are those of the block of p.       *)
LEMMA MemoryArrayIs ==
  ASSUME IInv, NEW p \in Live
  PROVE  IsArray(MemoryArray(p), Base(p), len[p])
<1>1. MemoryArray(p) = ArrayAt(chunkRef[p], pos[p], len[p])
  BY DEF MemoryArray, ArrayAt
<1>2. /\ len[p] \in Lens /\ Base(p) \in Nat
      /\ pos[p] = Base(p) % ChunkSize /\ chunkRef[p] = (Base(p) \div ChunkSize) + 1
  BY LiveBlock
<1>3. IsArray(ArrayAt((Base(p) \div ChunkSize) + 1, Base(p) % ChunkSize, len[p]), Base(p), len[p])
  BY <1>2, ArrayOfBlock
<1> QED
  BY <1>1, <1>2, <1>3

LEMMA FillEffect ==
  ASSUME IInv, NEW p \in Live, NEW img \in Images(len[p]), Fill(p, img)
  PROVE  LET l == len[p]
             g == Base(p)
         IN  /\ UNCHANGED <<len, pos, chunkRef, ref, ptrList>>
             /\ img \in [0..(l - 1) -> Byte]
             /\ chunkList' \in [Lens -> Memory]
             /\ \A m \in Lens : Len(chunkList'[m]) = Len(chunkList[m])
             /\ \A m \in Lens \ {l} : chunkList'[m] = chunkList[m]
             /\ \A h \in Nat : h < Size(chunkList[l]) =>
                  At(chunkList'[l], h) = IF h \in g..(g + l - 1) THEN img[h - g]
                                                                 ELSE At(chunkList[l], h)
<1> DEFINE l == len[p]
           g == Base(p)
           mem == chunkList[l]
           arr == MemoryArray(p)
           first == Put(mem, arr[1], arr[1].n, img, 0)
           new == IF Len(arr) = 1 THEN first ELSE Put(first, arr[2], arr[2].n, img, arr[1].n)
<1>1. /\ l \in Lens /\ l \in Nat /\ l > 0 /\ g \in Nat /\ mem \in Memory
      /\ g + l <= Size(mem) /\ IsArray(arr, g, l)
  BY LiveBlock, MemoryArrayIs, LenNat
<1>2. img \in [0..(l - 1) -> Byte]
  BY <1>1, ImagesAssumption
<1>3. chunkList' = [chunkList EXCEPT ![l] = new] /\ UNCHANGED <<len, pos, chunkRef, ref, ptrList>>
  BY DEF Fill
<1>4. chunkList \in [Lens -> Memory]
  BY DEF IInv, Layout, TypeOK, Memory
<1>5. /\ new \in Memory /\ Len(new) = Len(mem)
      /\ \A h \in Nat : h < Size(mem) =>
           At(new, h) = IF h \in g..(g + l - 1) THEN img[h - g] ELSE At(mem, h)
  <2> HIDE DEF l, g, mem, arr
  <2> QED
    BY <1>1, <1>2, FillAt
<1> HIDE DEF new
<1>6. chunkList'[l] = new
  BY <1>1, <1>3, <1>4
<1> QED
  BY <1>1, <1>2, <1>3, <1>4, <1>5, <1>6

LEMMA FillKeeps ==
  ASSUME IInv, NEW p \in Live, NEW img \in Images(len[p]), Fill(p, img)
  PROVE  IInv'
<1>1. /\ UNCHANGED <<len, pos, chunkRef, ref, ptrList>> /\ chunkList' \in [Lens -> Memory]
      /\ \A m \in Lens : Len(chunkList'[m]) = Len(chunkList[m])
  BY FillEffect
<1> USE DEF IInv, Layout
<1>2. TypeOK'
  BY <1>1 DEF TypeOK, Memory
<1>3. PointerPosition'
  BY <1>1 DEF PointerPosition
<1>4. ListsComplete'
  BY <1>1 DEF ListsComplete, Live
<1>5. ChunkCount'
  BY <1>1 DEF ChunkCount
<1> QED
  BY <1>2, <1>3, <1>4, <1>5
-----------------------------------------------------------------------------
(* remove frees the place of the newest block of the length, after it has  *)
(* been copied to the place of p, and the last chunk if nothing else is in *)
(* it.                                                                     *)
LEMMA RemoveEffect ==
  ASSUME IInv, NEW p \in Live, Remove(p)
  PROVE  LET l     == len[p]
             n     == Len(ptrList[l])
             front == ptrList[l][n]
             g     == Base(front)
         IN  /\ n \in Nat /\ n > 0 /\ front \in Live /\ len[front] = l /\ ref[front] = n
             /\ g = (n - 1) * l /\ g \in Nat
             /\ len' = [len EXCEPT ![p] = 0]
             /\ pos' = [pos EXCEPT ![front] = pos[p], ![p] = 0]
             /\ chunkRef' = [chunkRef EXCEPT ![front] = chunkRef[p], ![p] = 0]
             /\ ref' = [ref EXCEPT ![front] = ref[p], ![p] = 0]
             /\ ptrList' \in [Lens -> Seq(Ptrs)]
             /\ \A m \in Lens \ {l} : ptrList'[m] = ptrList[m]
             /\ Len(ptrList'[l]) = n - 1
             /\ \A i \in 1..(n - 1) :
                  ptrList'[l][i] = IF i = ref[p] THEN front ELSE ptrList[l][i]
             /\ chunkList' \in [Lens -> Memory]
             /\ \A m \in Lens \ {l} : chunkList'[m] = chunkList[m]
             /\ Len(chunkList'[l]) = Needed(g)
             /\ \A h \in Nat : h < Size(chunkList'[l]) =>
                  At(chunkList'[l], h) = IF p # front /\ h \in Base(p)..(Base(p) + l - 1)
                                         THEN At(chunkList[l], g + (h - Base(p)))
                                         ELSE At(chunkList[l], h)
<1> DEFINE l == len[p]
           n == Len(ptrList[l])
           front == ptrList[l][n]
           g == Base(front)
           gp == Base(p)
           mem == chunkList[l]
           moved == IF p = front THEN mem
                    ELSE CopyBlock(MemoryArray(p), MemoryArray(front), l, mem).mem
           frees == EmptiesChunk(pos[front], l)
           new == IF frees THEN Seqs!Front(moved) ELSE moved
<1>1. /\ p \in Ptrs /\ l \in Lens /\ ref[p] \in 1..n /\ ptrList[l][ref[p]] = p
      /\ gp \in Nat /\ gp + l <= Size(mem) /\ mem \in Memory
      /\ l \in Nat /\ l > 0
  BY LiveBlock, LenNat
<1>2. /\ ptrList \in [Lens -> Seq(Ptrs)] /\ chunkList \in [Lens -> Memory]
      /\ ptrList[l] \in Seq(Ptrs) /\ n \in Nat /\ n > 0 /\ n \in 1..n /\ ptrList[l] # <<>>
  BY <1>1 DEF IInv, Layout, TypeOK, Memory
<1>3. front \in Live /\ len[front] = l /\ ref[front] = n /\ front \in Ptrs
  BY <1>1, <1>2, Listed, LiveBlock
<1>4. Seqs!Last(ptrList[l]) = front
  BY <1>2, FrontLast
<1>5. /\ g = (n - 1) * l /\ g \in Nat /\ g + l <= Size(mem)
      /\ pos[front] = g % ChunkSize /\ g + l = n * l
  <2>1. g = (n - 1) * l
    BY <1>3 DEF Base
  <2>2. g \in Nat /\ g + l <= Size(mem) /\ pos[front] = g % ChunkSize
    BY <1>3, LiveBlock
  <2>3. (n - 1) * l + l = n * l
    BY <1>1, <1>2
  <2> QED
    BY <2>1, <2>2, <2>3
<1>6. /\ SwapPointer(p, front)
      /\ len' = [len EXCEPT ![p] = 0]
      /\ chunkList' = [chunkList EXCEPT ![l] = new]
  BY <1>4 DEF Remove
<1>7. /\ ptrList' \in [Lens -> Seq(Ptrs)]
      /\ \A m \in Lens \ {l} : ptrList'[m] = ptrList[m]
      /\ Len(ptrList'[l]) = n - 1
      /\ \A i \in 1..(n - 1) : ptrList'[l][i] = IF i = ref[p] THEN front ELSE ptrList[l][i]
  <2> DEFINE list == [ptrList[l] EXCEPT ![ref[p]] = front]
  <2>1. ptrList' = [ptrList EXCEPT ![l] = Seqs!Front(list)]
    BY <1>6 DEF SwapPointer
  <2>2. /\ list \in Seq(Ptrs) /\ Len(list) = n /\ list # <<>>
        /\ \A i \in 1..n : list[i] = IF i = ref[p] THEN front ELSE ptrList[l][i]
    BY <1>1, <1>2, <1>3
  <2> HIDE DEF list
  <2>3. /\ Seqs!Front(list) \in Seq(Ptrs) /\ Len(Seqs!Front(list)) = n - 1
        /\ \A i \in 1..(n - 1) : Seqs!Front(list)[i] = list[i]
    BY <2>2, FrontLast
  <2>4. ptrList'[l] = Seqs!Front(list)
    BY <1>1, <1>2, <2>1
  <2>5. 1..(n - 1) \subseteq 1..n
    BY <1>2
  <2> QED
    BY <1>1, <1>2, <2>1, <2>2, <2>3, <2>4, <2>5
<1>8. /\ moved \in Memory /\ Len(moved) = Len(mem)
      /\ \A h \in Nat : h < Size(mem) =>
           At(moved, h) = IF p # front /\ h \in gp..(gp + l - 1) THEN At(mem, g + (h - gp))
                                                                 ELSE At(mem, h)
  <2>1. CASE p = front
    BY <1>1, <2>1
  <2>2. CASE p # front
    <3>1. ref[p] - 1 \in Nat /\ n - 1 \in Nat /\ ref[p] - 1 < n - 1
      BY <1>1, <1>2, <2>2
    <3>2. gp + l <= g
      <4>1. (ref[p] - 1) * l + l <= (n - 1) * l
        BY <1>1, <3>1, BlockOrder
      <4> QED
        BY <1>5, <4>1 DEF Base
    <3>3. IsArray(MemoryArray(p), gp, l) /\ IsArray(MemoryArray(front), g, l)
      BY <1>3, MemoryArrayIs
    <3>4. moved = CopyBlock(MemoryArray(p), MemoryArray(front), l, mem).mem
      BY <2>2
    <3> HIDE DEF moved, gp, g, l, mem, front
    <3> QED
      BY <1>1, <1>5, <2>2, <3>2, <3>3, <3>4, CopyBlockAt
  <2> QED
    BY <2>1, <2>2
<1>9. /\ Len(mem) = Needed(g + l) /\ Needed(g) \in Nat /\ Needed(g + l) > 0
      /\ Needed(g + l) = IF frees THEN Needed(g) + 1 ELSE Needed(g)
  <2>1. Len(mem) = Needed(g + l)
    BY <1>1, <1>5 DEF IInv, Layout, ChunkCount, Needed
  <2>2. Needed(g) \in Nat /\ Needed(g + l) > 0
    <3> HIDE DEF g, l
    <3>1. g + l \in Nat /\ g + l > 0
      BY <1>1, <1>5
    <3> QED
      BY <1>5, <3>1, NeededHolds
  <2>3. frees <=> (g % ChunkSize = 0 \/ (g % ChunkSize) + l > ChunkSize)
    BY <1>5 DEF EmptiesChunk
  <2> QED
    BY <1>1, <1>5, <2>1, <2>2, <2>3, NeededMore
<1>10. /\ new \in Memory /\ Len(new) = Needed(g) /\ Len(new) <= Len(mem)
       /\ \A h \in Nat : h < Size(new) => At(new, h) = At(moved, h)
  <2> HIDE DEF moved, frees, g, mem
  <2>1. CASE frees
    <3>1. new = Seqs!Front(moved) /\ moved # <<>>
      BY <1>8, <1>9, <2>1
    <3>2. new \in Memory /\ Len(new) = Len(moved) - 1
      BY <1>8, <3>1, FrontLast DEF Memory
    <3>3. \A h \in Nat : h < Size(new) => At(new, h) = At(moved, h)
      BY <1>8, <3>1, FrontAt
    <3> QED
      BY <1>8, <1>9, <2>1, <3>2, <3>3
  <2>2. CASE ~frees
    <3>1. new = moved
      BY <2>2
    <3> QED
      BY <1>8, <1>9, <2>2, <3>1
  <2> QED
    BY <2>1, <2>2
<1> HIDE DEF new, moved
<1>11. chunkList'[l] = new
  BY <1>1, <1>2, <1>6
<1>12. Size(new) <= Size(mem) /\ Size(new) \in Nat /\ Size(mem) \in Nat
  <2>1. Len(new) \in Nat /\ Len(mem) \in Nat /\ Len(new) <= Len(mem)
    BY <1>1, <1>10 DEF Memory
  <2> HIDE DEF mem
  <2> QED
    BY <2>1, SizeAssumption DEF Size
<1>13. \A h \in Nat : h < Size(new) =>
         At(new, h) = IF p # front /\ h \in gp..(gp + l - 1) THEN At(mem, g + (h - gp))
                                                             ELSE At(mem, h)
  BY <1>8, <1>10, <1>12
<1>14. /\ pos' = [pos EXCEPT ![front] = pos[p], ![p] = 0]
       /\ chunkRef' = [chunkRef EXCEPT ![front] = chunkRef[p], ![p] = 0]
       /\ ref' = [ref EXCEPT ![front] = ref[p], ![p] = 0]
  BY <1>6 DEF SwapPointer
<1>15. chunkList' \in [Lens -> Memory] /\ \A m \in Lens \ {l} : chunkList'[m] = chunkList[m]
  BY <1>1, <1>2, <1>6, <1>10
<1> QED
  BY <1>2, <1>3, <1>5, <1>6, <1>7, <1>10, <1>11, <1>13, <1>14, <1>15

LEMMA RemoveKeeps ==
  ASSUME IInv, NEW p \in Live, Remove(p)
  PROVE  IInv'
<1> DEFINE l == len[p]
           n == Len(ptrList[l])
           front == ptrList[l][n]
           g == Base(front)
<1>1. /\ n \in Nat /\ n > 0 /\ front \in Live /\ len[front] = l /\ ref[front] = n
      /\ g = (n - 1) * l /\ g \in Nat
      /\ len' = [len EXCEPT ![p] = 0]
      /\ pos' = [pos EXCEPT ![front] = pos[p], ![p] = 0]
      /\ chunkRef' = [chunkRef EXCEPT ![front] = chunkRef[p], ![p] = 0]
      /\ ref' = [ref EXCEPT ![front] = ref[p], ![p] = 0]
      /\ ptrList' \in [Lens -> Seq(Ptrs)]
      /\ \A m \in Lens \ {l} : ptrList'[m] = ptrList[m]
      /\ Len(ptrList'[l]) = n - 1
      /\ \A i \in 1..(n - 1) :
           ptrList'[l][i] = IF i = ref[p] THEN front ELSE ptrList[l][i]
      /\ chunkList' \in [Lens -> Memory]
      /\ \A m \in Lens \ {l} : chunkList'[m] = chunkList[m]
      /\ Len(chunkList'[l]) = Needed(g)
  BY RemoveEffect
<1>2. TypeOK
  BY DEF IInv, Layout
<1>3. /\ p \in Ptrs /\ front \in Ptrs /\ l \in Lens /\ ref[p] \in 1..n /\ ptrList[l][ref[p]] = p
  BY <1>1, LiveBlock
<1>4. TypeOK'
  <2>1. len' \in [Ptrs -> Lens \cup {0}]
    BY <1>1, <1>2 DEF TypeOK
  <2>2. 0 \in Addr
    BY SizeAssumption DEF Addr
  <2>3. pos' \in [Ptrs -> Addr]
    BY <1>1, <1>2, <1>3, <2>2 DEF TypeOK
  <2>4. chunkRef' \in [Ptrs -> Nat] /\ ref' \in [Ptrs -> Nat]
    BY <1>1, <1>2, <1>3 DEF TypeOK
  <2> QED
    BY <1>1, <2>1, <2>3, <2>4 DEF TypeOK, Memory
<1>5. /\ len'[p] = 0
      /\ \A x \in Ptrs \ {p} : len'[x] = len[x]
      /\ \A x \in Ptrs \ {p, front} : ref'[x] = ref[x] /\ pos'[x] = pos[x]
                                      /\ chunkRef'[x] = chunkRef[x]
      /\ p # front => ref'[front] = ref[p] /\ pos'[front] = pos[p]
                      /\ chunkRef'[front] = chunkRef[p]
  BY <1>1, <1>2, <1>3 DEF TypeOK
<1> HIDE DEF l, n, front, g
<1>6. p # front => ref[p] \in 1..(n - 1)
  BY <1>1, <1>3 DEF front
<1>7. PointerPosition'
  <2> SUFFICES ASSUME NEW m \in Lens, NEW i \in 1..Len(ptrList'[m])
               PROVE  /\ len'[ptrList'[m][i]] = m /\ ref'[ptrList'[m][i]] = i
                      /\ pos'[ptrList'[m][i]] = ((i - 1) * m) % ChunkSize
                      /\ chunkRef'[ptrList'[m][i]] = ((i - 1) * m) \div ChunkSize + 1
    BY DEF PointerPosition
  <2> DEFINE x == ptrList[m][i]
  <2>1. i \in 1..Len(ptrList[m]) /\ (m = l => i \in 1..(n - 1))
    BY <1>1 DEF n
  <2>2. /\ len[x] = m /\ ref[x] = i /\ pos[x] = ((i - 1) * m) % ChunkSize
        /\ chunkRef[x] = ((i - 1) * m) \div ChunkSize + 1 /\ x \in Ptrs
    BY <1>2, <2>1 DEF IInv, Layout, PointerPosition, TypeOK
  <2>3. CASE m = l /\ i = ref[p]
    <3>1. ptrList'[m][i] = front /\ p # front
      BY <1>1, <2>1, <2>3
    <3>2. x = p
      BY <1>3, <2>3
    <3>3. /\ len'[front] = m /\ ref'[front] = i
          /\ pos'[front] = pos[x] /\ chunkRef'[front] = chunkRef[x]
      BY <1>1, <1>3, <1>5, <2>3, <3>1, <3>2
    <3> HIDE DEF x
    <3> QED
      BY <2>2, <3>1, <3>3
  <2>4. CASE ~(m = l /\ i = ref[p])
    <3>1. ptrList'[m][i] = x
      BY <1>1, <2>1, <2>4
    <3>2. x # p /\ x # front
      BY <1>1, <2>1, <2>2, <2>4 DEF l
    <3> QED
      BY <1>5, <2>2, <3>1, <3>2
  <2> QED
    BY <2>3, <2>4
<1>8. ListsComplete'
  <2> SUFFICES ASSUME NEW x \in Ptrs, len'[x] # 0
               PROVE  /\ ref'[x] \in 1..Len(ptrList'[len'[x]])
                      /\ ptrList'[len'[x]][ref'[x]] = x
    BY DEF ListsComplete, Live
  <2>1. x # p /\ len'[x] = len[x] /\ x \in Live
    BY <1>5 DEF Live
  <2>2. ref[x] \in 1..Len(ptrList[len[x]]) /\ ptrList[len[x]][ref[x]] = x /\ len[x] \in Lens
    BY <2>1, LiveBlock
  <2>3. CASE x = front
    BY <1>1, <1>5, <1>6, <2>1, <2>3
  <2>4. CASE x # front
    <3>1. ref'[x] = ref[x]
      BY <1>5, <2>1, <2>4
    <3>2. CASE len[x] = l
      <4>1. ref[x] # n /\ ref[x] # ref[p] /\ ref[x] \in 1..n
        BY <1>3, <2>1, <2>2, <2>4, <3>2 DEF front, n
      <4> QED
        BY <1>1, <2>1, <2>2, <3>1, <3>2, <4>1
    <3>3. CASE len[x] # l
      BY <1>1, <2>1, <2>2, <3>1, <3>3
    <3> QED
      BY <3>2, <3>3
  <2> QED
    BY <2>3, <2>4
<1>9. ChunkCount'
  <2> SUFFICES ASSUME NEW m \in Lens
               PROVE  Len(chunkList'[m]) = Needed(Len(ptrList'[m]) * m)
    BY DEF ChunkCount, Needed
  <2>1. CASE m = l
    BY <1>1, <2>1
  <2>2. CASE m # l
    <3>1. Len(chunkList[m]) = Needed(Len(ptrList[m]) * m)
      BY DEF IInv, Layout, ChunkCount, Needed
    <3> QED
      BY <1>1, <2>2, <3>1
  <2> QED
    BY <2>1, <2>2
<1> QED
  BY <1>4, <1>7, <1>8, <1>9 DEF IInv, Layout

LEMMA NextIInv == IInv /\ [Next]_vars => IInv'
<1> SUFFICES ASSUME IInv, [Next]_vars PROVE IInv'
  OBVIOUS
<1>1. CASE \E l \in Lens, p \in Ptrs : Create(l, p)
  BY <1>1, CreateKeeps
<1>2. CASE \E p \in Live : \E img \in Images(len[p]) : Fill(p, img)
  BY <1>2, FillKeeps
<1>3. CASE \E p \in Live : Remove(p)
  BY <1>3, RemoveKeeps
<1>4. CASE UNCHANGED vars
  BY <1>4 DEF vars, IInv, Layout, TypeOK, PointerPosition, ListsComplete, ChunkCount, Live
<1> QED
  BY <1>1, <1>2, <1>3, <1>4 DEF Next

(* The parts of the invariant are maintained together.                     *)
THEOREM Safety == Spec => []IInv
<1> QED
  BY InitIInv, NextIInv, PTL DEF Spec

(* After any creations, fills and removals the i-th oldest block of a      *)
(* length lies at byte (i - 1) * l of its chunks, its pointer knows where, *)
(* and there are exactly as many chunks as the blocks need (create and     *)
(* remove of AdvancedMemoryManager).                                       *)
THEOREM LayoutCorrect == Spec => []Layout
<1>1. IInv => Layout
  BY DEF IInv
<1> QED
  BY <1>1, Safety, PTL

(* Every live pointer is in the list of its length, where ref says: the    *)
(* swap of pointers in remove finds it.                                    *)
THEOREM ListsCorrect == Spec => []ListsComplete
<1>1. IInv => ListsComplete
  BY DEF IInv
<1> QED
  BY <1>1, Safety, PTL
-----------------------------------------------------------------------------
(* A step moves no block but the newest of a length, and that one only to  *)
(* the place of the block removed.                                         *)
THEOREM OnlyNewestMoves == Spec => MovesOnlyNewest
<1> DEFINE A == \A q \in Live : len'[q] # 0 =>
                  \/ PlaceOf(q)' = PlaceOf(q)
                  \/ /\ q = Seqs!Last(ptrList[len[q]])
                     /\ \E p \in Live : len'[p] = 0 /\ len[p] = len[q]
                                        /\ PlaceOf(q)' = PlaceOf(p)
<1>1. IInv /\ [Next]_vars => [A]_vars
  <2> SUFFICES ASSUME IInv, Next PROVE A
    OBVIOUS
  <2>0. pos \in [Ptrs -> Addr] /\ chunkRef \in [Ptrs -> Nat] /\ len \in [Ptrs -> Lens \cup {0}]
    BY DEF IInv, Layout, TypeOK
  <2>1. CASE \E l \in Lens, p \in Ptrs : Create(l, p)
    <3>1. PICK l \in Lens, p \in Ptrs : Create(l, p)
      BY <2>1
    <3>2. /\ len[p] = 0
          /\ pos' = [pos EXCEPT ![p] = (Len(ptrList[l]) * l) % ChunkSize]
          /\ chunkRef' = [chunkRef EXCEPT ![p] = ((Len(ptrList[l]) * l) \div ChunkSize) + 1]
      BY <3>1, CreateEffect
    <3>3. \A q \in Live : pos'[q] = pos[q] /\ chunkRef'[q] = chunkRef[q]
      BY <2>0, <3>2 DEF Live
    <3> QED
      BY <3>3 DEF PlaceOf
  <2>2. CASE \E p \in Live : \E img \in Images(len[p]) : Fill(p, img)
    BY <2>2 DEF Fill, PlaceOf
  <2>3. CASE \E p \in Live : Remove(p)
    <3>1. PICK p \in Live : Remove(p)
      BY <2>3
    <3> DEFINE n == Len(ptrList[len[p]])
               front == ptrList[len[p]][n]
    <3>2. /\ n \in Nat /\ n > 0 /\ front \in Live /\ len[front] = len[p]
          /\ len' = [len EXCEPT ![p] = 0]
          /\ pos' = [pos EXCEPT ![front] = pos[p], ![p] = 0]
          /\ chunkRef' = [chunkRef EXCEPT ![front] = chunkRef[p], ![p] = 0]
      BY <3>1, RemoveEffect
    <3>3. ptrList[len[p]] \in Seq(Ptrs) /\ ptrList[len[p]] # <<>> /\ p \in Ptrs
      BY <3>2, LiveBlock DEF IInv, Layout, TypeOK
    <3>4. front = Seqs!Last(ptrList[len[p]])
      BY <3>3, FrontLast
    <3> HIDE DEF n, front
    <3>5. ASSUME NEW q \in Live, len'[q] # 0
          PROVE  \/ PlaceOf(q)' = PlaceOf(q)
                 \/ /\ q = Seqs!Last(ptrList[len[q]])
                    /\ \E x \in Live : len'[x] = 0 /\ len[x] = len[q]
                                       /\ PlaceOf(q)' = PlaceOf(x)
      <4>1. q \in Ptrs /\ q # p /\ len'[p] = 0
        BY <2>0, <3>2, <3>3, <3>5 DEF Live
      <4>2. CASE q = front
        <5>1. pos'[q] = pos[p] /\ chunkRef'[q] = chunkRef[p]
          BY <2>0, <3>2, <3>3, <4>1, <4>2
        <5> QED
          BY <3>2, <3>4, <4>1, <4>2, <5>1 DEF PlaceOf
      <4>3. CASE q # front
        <5>1. pos'[q] = pos[q] /\ chunkRef'[q] = chunkRef[q]
          BY <2>0, <3>2, <3>3, <4>1, <4>3
        <5> QED
          BY <5>1 DEF PlaceOf
      <4> QED
        BY <4>2, <4>3
    <3> QED
      BY <3>5
  <2> QED
    BY <2>1, <2>2, <2>3 DEF Next
<1> QED
  BY <1>1, Safety, PTL DEF Spec, MovesOnlyNewest
-----------------------------------------------------------------------------
(* load returns the bytes of the memory from the base of the block on.     *)
LoadsRight ==
  \A p \in Live : /\ Load(p) = [i \in 0..(len[p] - 1) |-> At(chunkList[len[p]], Base(p) + i)]
                  /\ Load(p) \in [0..(len[p] - 1) -> Byte]
                  /\ Base(p) \in Nat /\ len[p] \in Lens
                  /\ Base(p) + len[p] <= Size(chunkList[len[p]])

LEMMA LoadIs == IInv => LoadsRight
<1> SUFFICES ASSUME IInv, NEW p \in Live
             PROVE  /\ Load(p) = [i \in 0..(len[p] - 1) |-> At(chunkList[len[p]], Base(p) + i)]
                    /\ Load(p) \in [0..(len[p] - 1) -> Byte]
                    /\ Base(p) \in Nat /\ len[p] \in Lens
                    /\ Base(p) + len[p] <= Size(chunkList[len[p]])
  BY DEF LoadsRight
<1> DEFINE l == len[p]
           g == Base(p)
           mem == chunkList[l]
           arr == MemoryArray(p)
<1>1. /\ l \in Lens /\ l \in Nat /\ g \in Nat /\ mem \in Memory /\ g + l <= Size(mem)
      /\ IsArray(arr, g, l)
  BY LiveBlock, LenNat, MemoryArrayIs
<1>2. \A i : Access(p, i) = AccessIn(arr, mem, i)
  BY DEF Access, AccessIn
<1>3. Load(p) = [i \in 0..(l - 1) |-> AccessIn(arr, mem, i)]
  BY <1>2 DEF Load
<1>4. \A i \in 0..(l - 1) : AccessIn(arr, mem, i) = At(mem, g + i)
  <2> HIDE DEF l, g, mem, arr
  <2> QED
    BY <1>1, AccessAt
<1>5. \A i \in 0..(l - 1) : At(mem, g + i) \in Byte
  <2> HIDE DEF l, g, mem
  <2>1. \A i \in 0..(l - 1) : g + i \in Nat /\ g + i < g + l
    BY <1>1
  <2>2. Size(mem) \in Nat
    BY <1>1, SizeAssumption DEF Size, Memory
  <2>3. \A i \in 0..(l - 1) : g + i \in Nat /\ g + i < Size(mem)
    BY <1>1, <2>1, <2>2
  <2> QED
    BY <1>1, <2>3, AtType
<1>6. Load(p) = [i \in 0..(l - 1) |-> At(mem, g + i)]
  BY <1>3, <1>4
<1>7. Load(p) \in [0..(l - 1) -> Byte]
  BY <1>5, <1>6
<1> QED
  BY <1>1, <1>6, <1>7

LEMMA LoadIsNext == IInv' => LoadsRight'
<1> QED
  BY LoadIs, PTL

(* Two blocks of one length share no byte.                                 *)
LEMMA BlocksApart ==
  ASSUME IInv, NEW x \in Live, NEW y \in Live, x # y, len[x] = len[y]
  PROVE  Base(x) + len[x] <= Base(y) \/ Base(y) + len[y] <= Base(x)
<1> DEFINE l == len[x]
           i == ref[x] - 1
           j == ref[y] - 1
<1>1. /\ l \in Nat /\ ref[x] \in 1..Len(ptrList[l]) /\ ref[y] \in 1..Len(ptrList[l])
      /\ ptrList[l][ref[x]] = x /\ ptrList[l][ref[y]] = y
  BY LiveBlock, LenNat
<1>2. i \in Nat /\ j \in Nat /\ (i < j \/ j < i)
  BY <1>1
<1>3. Base(x) = i * l /\ Base(y) = j * l
  BY DEF Base
<1> HIDE DEF l, i, j
<1>4. i * l + l <= j * l \/ j * l + l <= i * l
  BY <1>1, <1>2, BlockOrder
<1> QED
  BY <1>3, <1>4 DEF l

(* A block whose bytes are the same ones after a step reads the same.      *)
LEMMA SameLoad ==
  ASSUME IInv, IInv', NEW x \in Live, x \in Live', len'[x] = len[x],
         \A i \in 0..(len[x] - 1) :
           At(chunkList'[len[x]], Base(x)' + i) = At(chunkList[len[x]], Base(x) + i)
  PROVE  Load(x)' = Load(x)
<1>1. Load(x) = [i \in 0..(len[x] - 1) |-> At(chunkList[len[x]], Base(x) + i)]
  BY LoadIs DEF LoadsRight
<1>2. Load(x)' = [i \in 0..(len[x] - 1) |-> At(chunkList'[len[x]], Base(x)' + i)]
  BY LoadIsNext DEF LoadsRight
<1> QED
  BY <1>1, <1>2

(* The bytes of a block lie in the memory of its length.                   *)
LEMMA BytesOf ==
  ASSUME IInv, NEW x \in Live, NEW i \in 0..(len[x] - 1)
  PROVE  /\ Base(x) + i \in Nat /\ Base(x) + i < Size(chunkList[len[x]])
         /\ Base(x) + i < Base(x) + len[x]
<1>1. /\ Base(x) \in Nat /\ len[x] \in Nat /\ chunkList[len[x]] \in Memory
      /\ Base(x) + len[x] <= Size(chunkList[len[x]])
  BY LiveBlock, LenNat
<1>2. Size(chunkList[len[x]]) \in Nat
  BY <1>1, SizeAssumption DEF Size, Memory
<1> QED
  BY <1>1, <1>2

LEMMA StoreInit == Init => Store!Init
  BY DEF Init, Live, Store!Init

LEMMA CreateStep ==
  ASSUME IInv, NEW l \in Lens, NEW p \in Ptrs, Create(l, p)
  PROVE  Store!Create(l, p)
<1> DEFINE content == [x \in Live |-> Load(x)]
<1>1. /\ len[p] = 0 /\ len' = [len EXCEPT ![p] = l]
      /\ ref' = [ref EXCEPT ![p] = Len(ptrList[l]) + 1]
      /\ \A m \in Lens \ {l} : chunkList'[m] = chunkList[m]
      /\ \A h \in Nat : h < Size(chunkList[l]) => At(chunkList'[l], h) = At(chunkList[l], h)
  BY CreateEffect
<1>2. IInv'
  BY CreateKeeps
<1>3. len \in [Ptrs -> Lens \cup {0}] /\ ref \in [Ptrs -> Nat]
  BY DEF IInv, Layout, TypeOK
<1>4. Live' = Live \cup {p} /\ p \notin Live /\ len'[p] = l
  BY <1>1, <1>3, LenNat DEF Live
<1>5. ASSUME NEW x \in Live PROVE Load(x)' = Load(x)
  <2>1. x \in Live' /\ len'[x] = len[x] /\ ref'[x] = ref[x]
    BY <1>1, <1>3, <1>4 DEF Live
  <2>2. Base(x)' = Base(x) /\ len[x] \in Lens
    BY <2>1, LiveBlock DEF Base
  <2>3. \A i \in 0..(len[x] - 1) :
          At(chunkList'[len[x]], Base(x) + i) = At(chunkList[len[x]], Base(x) + i)
    BY <1>1, <2>2, BytesOf
  <2> QED
    BY <1>2, <2>1, <2>2, <2>3, SameLoad
<1>6. Load(p)' \in [0..(l - 1) -> Byte]
  BY <1>2, <1>4, LoadIsNext DEF LoadsRight
<1>7. content' = [x \in Live \cup {p} |-> IF x = p THEN Load(p)' ELSE content[x]]
  BY <1>4, <1>5
<1>8. DOMAIN content = Live /\ content'[p] = Load(p)'
  BY <1>4
<1>9. content' = [x \in DOMAIN content \cup {p} |-> IF x = p THEN content'[p] ELSE content[x]]
  BY <1>7, <1>8
<1> QED
  BY <1>4, <1>6, <1>8, <1>9 DEF Store!Create, Store!Blocks

LEMMA FillStep ==
  ASSUME IInv, NEW p \in Live, NEW img \in Images(len[p]), Fill(p, img)
  PROVE  Store!Fill(p, img)
<1> DEFINE content == [x \in Live |-> Load(x)]
           l == len[p]
           g == Base(p)
<1>1. /\ UNCHANGED <<len, ref>> /\ img \in [0..(l - 1) -> Byte]
      /\ \A m \in Lens \ {l} : chunkList'[m] = chunkList[m]
      /\ \A h \in Nat : h < Size(chunkList[l]) =>
           At(chunkList'[l], h) = IF h \in g..(g + l - 1) THEN img[h - g]
                                                          ELSE At(chunkList[l], h)
  BY FillEffect
<1>2. IInv' /\ Live' = Live
  BY <1>1, FillKeeps DEF Live
<1>3. g \in Nat /\ l \in Nat
  BY LiveBlock, LenNat
<1>4. Load(p)' = img
  <2>1. Load(p)' = [i \in 0..(l - 1) |-> At(chunkList'[l], g + i)]
    BY <1>1, <1>2, LoadIsNext DEF LoadsRight, Base
  <2>2. ASSUME NEW i \in 0..(l - 1) PROVE At(chunkList'[l], g + i) = img[i]
    <3>1. g + i \in Nat /\ g + i < Size(chunkList[l])
      BY BytesOf
    <3>2. g + i \in g..(g + l - 1) /\ (g + i) - g = i
      BY <1>3
    <3> QED
      BY <1>1, <3>1, <3>2
  <2> QED
    BY <1>1, <2>1, <2>2
<1>5. ASSUME NEW x \in Live \ {p} PROVE Load(x)' = Load(x)
  <2>1. Base(x)' = Base(x) /\ Base(x) \in Nat /\ len[x] \in Lens /\ len[x] \in Nat
    BY <1>1, LiveBlock, LenNat DEF Base
  <2>2. ASSUME NEW i \in 0..(len[x] - 1)
        PROVE  At(chunkList'[len[x]], Base(x) + i) = At(chunkList[len[x]], Base(x) + i)
    <3>1. CASE len[x] = l
      <4>1. Base(x) + l <= g \/ g + l <= Base(x)
        BY <3>1, BlocksApart
      <4>2. Base(x) + i \notin g..(g + l - 1)
        BY <1>3, <2>1, <3>1, <4>1
      <4> QED
        BY <1>1, <3>1, <4>2, BytesOf
    <3>2. CASE len[x] # l
      BY <1>1, <2>1, <3>2
    <3> QED
      BY <3>1, <3>2
  <2> QED
    BY <1>1, <1>2, <2>1, <2>2, SameLoad
<1>6. content' = [content EXCEPT ![p] = img]
  BY <1>2, <1>4, <1>5
<1>7. DOMAIN img = DOMAIN content[p]
  BY <1>1 DEF Load
<1> QED
  BY <1>6, <1>7 DEF Store!Fill

LEMMA RemoveStep ==
  ASSUME IInv, NEW p \in Live, Remove(p)
  PROVE  Store!Remove(p)
<1> DEFINE content == [x \in Live |-> Load(x)]
           l == len[p]
           n == Len(ptrList[l])
           front == ptrList[l][n]
           g == Base(front)
           gp == Base(p)
<1>1. /\ front \in Live /\ len[front] = l
      /\ len' = [len EXCEPT ![p] = 0]
      /\ ref' = [ref EXCEPT ![front] = ref[p], ![p] = 0]
      /\ \A m \in Lens \ {l} : chunkList'[m] = chunkList[m]
      /\ \A h \in Nat : h < Size(chunkList'[l]) =>
           At(chunkList'[l], h) = IF p # front /\ h \in gp..(gp + l - 1)
                                  THEN At(chunkList[l], g + (h - gp))
                                  ELSE At(chunkList[l], h)
  BY RemoveEffect
<1>2. IInv'
  BY RemoveKeeps
<1>3. len \in [Ptrs -> Lens \cup {0}] /\ ref \in [Ptrs -> Nat] /\ p \in Ptrs /\ front \in Ptrs
  BY <1>1, LiveBlock DEF IInv, Layout, TypeOK
<1>4. /\ Live' = Live \ {p}
      /\ \A x \in Live \ {p} : len'[x] = len[x]
  BY <1>1, <1>3 DEF Live
<1>5. g \in Nat /\ gp \in Nat /\ l \in Nat
  BY <1>1, LiveBlock, LenNat
<1> HIDE DEF front
<1>6. ASSUME NEW x \in Live \ {p} PROVE Load(x)' = Load(x)
  <2>1. x \in Ptrs /\ x \in Live' /\ len'[x] = len[x] /\ len[x] \in Lens /\ len[x] \in Nat
        /\ Base(x) \in Nat
    BY <1>4, LiveBlock, LenNat
  <2>2. /\ Base(x)' \in Nat
        /\ \A i \in 0..(len[x] - 1) :
             Base(x)' + i \in Nat /\ Base(x)' + i < Size(chunkList'[len[x]])
    <3>1. Base(x)' \in Nat /\ Base(x)' + len[x] <= Size(chunkList'[len[x]])
      BY <1>2, <2>1, LoadIsNext DEF LoadsRight
    <3>2. chunkList'[len[x]] \in Memory
      BY <1>2, <2>1 DEF IInv, Layout, TypeOK, Memory
    <3>3. Size(chunkList'[len[x]]) \in Nat
      BY <3>2, SizeAssumption DEF Size, Memory
    <3> QED
      BY <2>1, <3>1, <3>3
  <2>3. CASE x = front
    <3>1. ref'[x] = ref[p] /\ len[x] = l
      BY <1>1, <1>3, <2>1, <2>3
    <3>2. Base(x)' = gp
      BY <2>1, <3>1 DEF Base
    <3>3. ASSUME NEW i \in 0..(l - 1)
          PROVE  At(chunkList'[l], gp + i) = At(chunkList[l], g + i)
      <4>1. gp + i \in gp..(gp + l - 1) /\ g + ((gp + i) - gp) = g + i
        BY <1>5
      <4> QED
        BY <1>1, <2>2, <2>3, <3>1, <3>2, <4>1
    <3> QED
      BY <1>2, <2>1, <2>3, <3>1, <3>2, <3>3, SameLoad
  <2>4. CASE x # front
    <3>1. Base(x)' = Base(x)
      BY <1>1, <1>3, <2>1, <2>4 DEF Base
    <3>2. ASSUME NEW i \in 0..(len[x] - 1)
          PROVE  At(chunkList'[len[x]], Base(x) + i) = At(chunkList[len[x]], Base(x) + i)
      <4>1. CASE len[x] = l
        <5>1. Base(x) + l <= gp \/ gp + l <= Base(x)
          BY <4>1, BlocksApart
        <5>2. Base(x) + i \notin gp..(gp + l - 1)
          BY <1>5, <2>1, <4>1, <5>1
        <5> QED
          BY <1>1, <2>2, <3>1, <4>1, <5>2
      <4>2. CASE len[x] # l
        BY <1>1, <2>1, <4>2
      <4> QED
        BY <4>1, <4>2
    <3> QED
      BY <1>2, <2>1, <3>1, <3>2, SameLoad
  <2> QED
    BY <2>3, <2>4
<1>7. content' = [x \in Live \ {p} |-> content[x]]
  BY <1>4, <1>6
<1> QED
  BY <1>7 DEF Store!Remove

(* The manager implements the store of blocks: every pointer leads to the  *)
(* bytes last written through it, also when its block has been copied      *)
(* piece by piece to a place where it is split differently.                *)
THEOREM Refinement == Spec => ImplementsStore
<1> DEFINE content == [p \in Live |-> Load(p)]
<1>1. IInv /\ [Next]_vars => [Store!Next]_content
  <2> SUFFICES ASSUME IInv, [Next]_vars PROVE [Store!Next]_content
    OBVIOUS
  <2>1. CASE \E l \in Lens, p \in Ptrs : Create(l, p)
    BY <2>1, CreateStep DEF Store!Next
  <2>2. CASE \E p \in Live : \E img \in Images(len[p]) : Fill(p, img)
    <3>1. PICK p \in Live : \E img \in Images(len[p]) : Fill(p, img)
      BY <2>2
    <3>2. PICK img \in Images(len[p]) : Fill(p, img)
      BY <3>1
    <3>3. Store!Fill(p, img) /\ len[p] \in Lens
      BY <3>2, FillStep, LiveBlock
    <3> QED
      BY <3>3 DEF Store!Next
  <2>3. CASE \E p \in Live : Remove(p)
    BY <2>3, RemoveStep DEF Store!Next
  <2>4. CASE UNCHANGED vars
    <3>1. Live' = Live /\ \A x \in Live : Load(x)' = Load(x)
      BY <2>4 DEF vars, Live, Load, Access, MemoryArray
    <3> QED
      BY <3>1
  <2> QED
    BY <2>1, <2>2, <2>3, <2>4 DEF Next
<1>2. Init => Store!Init
  BY StoreInit
<1> QED
  BY <1>1, <1>2, Safety, PTL DEF Spec, ImplementsStore, Store!Spec
=============================================================================
