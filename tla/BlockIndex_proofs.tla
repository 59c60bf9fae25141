--------------------------- MODULE BlockIndex_proofs ---------------------------
(***************************************************************************)
(* Proofs about the tree of blocks under the calls of the bit vector       *)
(* (BlockIndex on FlexibleAVLTree). A tree stands for a sequence of items, *)
(* Sq(t): length, ones and position of each block, with all the pending    *)
(* shifts above it added. First that each walk is what it calls itself on  *)
(* the subtrees; then that shifts and rotations leave Sq alone; then that  *)
(* each walk replaces some items of Sq and moves the ones behind (Put).    *)
(* The invariant says that mysize is right at every node (Summed) and that *)
(* the blocks follow one another without a gap (Good). The operations keep *)
(* it, and the properties of the runs follow.                              *)
(***************************************************************************)
EXTENDS BlockIndex, SetInduction, SequenceTheorems, TLAPS
-----------------------------------------------------------------------------
(* The trees of any height.                                                *)
Node(S) == [id : Nat, elem : Int, ptr : Ptrs, height : Nat, mysize : Int, len : Int,
            numOnes : Int, addPos : Int, left : S, right : S]

(* A tree is an empty one, or a node with smaller trees on both sides.     *)
LEMMA TreesUpToIs ==
  TreesUpTo = [n \in Nat |-> IF n = 0 THEN {Nil} ELSE {Nil} \cup Node(TreesUpTo[n - 1])]
<1> DEFINE B(f, n) == IF n = 0 THEN {Nil} ELSE {Nil} \cup Node(f[n - 1])
           P(f, m) == f = [n \in 0 .. m |-> B(f, n)]
           T == {m \in Nat : \E f : P(f, m)}
           A(m) == CHOOSE f : P(f, m)
           F == [n \in Nat |-> A(n)[n]]
<1>1. 0 \in T
  <2> DEFINE f == [n \in 0 .. 0 |-> {Nil}]
  <2>1. P(f, 0)
    OBVIOUS
  <2> HIDE DEF f
  <2>2. \E h : P(h, 0)
    BY <2>1
  <2> HIDE DEF P
  <2> QED
    BY <2>2
<1>2. ASSUME NEW m \in Nat, m \in T PROVE m + 1 \in T
  <2>1. PICK f : P(f, m)
    BY <1>2
  <2> DEFINE g == [n \in 0 .. m + 1 |-> B(f, n)]
  <2>2. ASSUME NEW n \in 0 .. m + 1 PROVE g[n] = B(g, n)
    <3>1. CASE n = 0
      BY <3>1
    <3>2. CASE n # 0
      <4>1. n - 1 \in 0 .. m /\ n - 1 \in 0 .. m + 1
        BY <3>2
      <4>2. f[n - 1] = B(f, n - 1)
        <5> HIDE DEF B
        <5> QED
          BY <2>1, <4>1
      <4>3. g[n - 1] = B(f, n - 1)
        <5> HIDE DEF B
        <5> QED
          BY <4>1
      <4>4. g[n] = {Nil} \cup Node(f[n - 1])
        BY <3>2
      <4> HIDE DEF g
      <4> QED
        BY <3>2, <4>2, <4>3, <4>4
    <3> QED
      BY <3>1, <3>2
  <2>3. g = [n \in 0 .. m + 1 |-> g[n]]
    OBVIOUS
  <2> HIDE DEF g, B
  <2>4. P(g, m + 1)
    BY <2>2, <2>3
  <2>5. \E h : P(h, m + 1)
    BY <2>4
  <2> HIDE DEF P
  <2> QED
    BY <2>5
<1>3. \A m \in Nat : P(A(m), m)
  <2>1. \A m \in Nat : m \in T
    <3> HIDE DEF T
    <3> QED
      BY <1>1, <1>2, AllOfNat
  <2> TAKE m \in Nat
  <2>2. \E f : P(f, m)
    BY <2>1
  <2> HIDE DEF P
  <2> QED
    BY <2>2
<1>4. ASSUME NEW f, NEW g, NEW m \in Nat, NEW k \in 0 .. m, P(f, m), P(g, k)
      PROVE  f[k] = g[k]
  <2> DEFINE S == {n \in 0 .. k : f[n] = g[n]}
  <2>1. ASSUME NEW n \in 0 .. k PROVE f[n] = B(f, n) /\ g[n] = B(g, n)
    <3>1. n \in 0 .. m
      OBVIOUS
    <3> HIDE DEF B
    <3> QED
      BY <1>4, <3>1
  <2>2. 0 \in S
    <3>1. 0 \in 0 .. k
      OBVIOUS
    <3> QED
      BY <2>1, <3>1
  <2>3. ASSUME NEW n \in 0 .. k - 1, n \in S PROVE n + 1 \in S
    <3>1. n + 1 \in 0 .. k /\ n + 1 # 0 /\ (n + 1) - 1 = n
      OBVIOUS
    <3> QED
      BY <2>1, <2>3, <3>1
  <2>4. \A n \in 0 .. k : n \in S
    <3> HIDE DEF S
    <3> QED
      BY <2>2, <2>3, UpTo
  <2> QED
    BY <2>4
<1>5. ASSUME NEW n \in Nat PROVE F[n] = B(F, n)
  <2>1. P(A(n), n)
    BY <1>3
  <2>2. A(n)[n] = B(A(n), n)
    <3> HIDE DEF A, B
    <3> QED
      BY <2>1
  <2>3. F[n] = A(n)[n]
    <3> HIDE DEF A
    <3> QED
      OBVIOUS
  <2>4. n # 0 => A(n)[n - 1] = F[n - 1]
    <3> SUFFICES ASSUME n # 0 PROVE A(n)[n - 1] = F[n - 1]
      OBVIOUS
    <3>1. n - 1 \in 0 .. n /\ n - 1 \in Nat
      OBVIOUS
    <3>2. P(A(n), n) /\ P(A(n - 1), n - 1)
      <4> HIDE DEF P, A
      <4> QED
        BY <1>3, <3>1
    <3>3. F[n - 1] = A(n - 1)[n - 1]
      <4> HIDE DEF A
      <4> QED
        BY <3>1
    <3> HIDE DEF A, F, P
    <3> QED
      BY <1>4, <3>1, <3>2, <3>3
  <2> HIDE DEF A, F
  <2> QED
    BY <2>2, <2>3, <2>4
<1>6. F = [n \in Nat |-> B(F, n)]
  <2>1. F = [n \in Nat |-> F[n]]
    OBVIOUS
  <2> HIDE DEF F, B
  <2> QED
    BY <1>5, <2>1
<1>7. \E f : f = [n \in Nat |-> B(f, n)]
  <2> HIDE DEF F, B
  <2> QED
    BY <1>6
<1>8. TreesUpTo = CHOOSE f : f = [n \in Nat |-> B(f, n)]
  BY DEF TreesUpTo, Node
<1> HIDE DEF B
<1>9. TreesUpTo = [n \in Nat |-> B(TreesUpTo, n)]
  BY <1>7, <1>8
<1> QED
  BY <1>9 DEF B

(* A node is not the empty tree.                                           *)
LEMMA NilIsNoNode ==
  ASSUME NEW S, NEW t \in Node(S)
  PROVE  t # Nil
<1>1. DOMAIN t = {"id", "elem", "ptr", "height", "mysize", "len",
                   "numOnes", "addPos", "left", "right"}
  BY DEF Node
<1>2. DOMAIN Nil = {"null"}
  BY DEF Nil
<1> QED
  BY <1>1, <1>2

(* The first of them, and each by the one before.                          *)
LEMMA UpToNode ==
  /\ TreesUpTo[0] = {Nil}
  /\ \A n \in Nat : TreesUpTo[n + 1] = {Nil} \cup Node(TreesUpTo[n])
<1>1. TreesUpTo[0] = {Nil}
  BY TreesUpToIs
<1>2. ASSUME NEW n \in Nat PROVE TreesUpTo[n + 1] = {Nil} \cup Node(TreesUpTo[n])
  <2>1. n + 1 \in Nat /\ n + 1 # 0 /\ (n + 1) - 1 = n
    OBVIOUS
  <2> QED
    BY <2>1, TreesUpToIs
<1> QED
  BY <1>1, <1>2

(* More trees make more nodes.                                             *)
LEMMA NodeMono ==
  ASSUME NEW S, NEW R, S \subseteq R
  PROVE  Node(S) \subseteq Node(R)
<1> QED
  BY DEF Node

(* Lower trees are among the higher.                                       *)
LEMMA UpToMono ==
  ASSUME NEW m \in Nat, NEW n \in Nat, m <= n
  PROVE  TreesUpTo[m] \subseteq TreesUpTo[n]
<1> DEFINE S == {k \in Nat : TreesUpTo[k] \subseteq TreesUpTo[k + 1]}
<1>1. 0 \in S
  <2>1. TreesUpTo[0 + 1] = {Nil} \cup Node(TreesUpTo[0])
    BY UpToNode
  <2> QED
    BY <2>1, UpToNode
<1>2. ASSUME NEW k \in Nat, k \in S PROVE k + 1 \in S
  <2>1. TreesUpTo[(k + 1) + 1] = {Nil} \cup Node(TreesUpTo[k + 1]) /\ k + 1 \in Nat
    BY UpToNode
  <2>2. TreesUpTo[k + 1] = {Nil} \cup Node(TreesUpTo[k])
    BY UpToNode
  <2>3. Node(TreesUpTo[k]) \subseteq Node(TreesUpTo[k + 1])
    BY <1>2, NodeMono
  <2> QED
    BY <2>1, <2>2, <2>3
<1>3. \A k \in Nat : k \in S
  <2> HIDE DEF S
  <2> QED
    BY <1>1, <1>2, AllOfNat
<1> DEFINE U == {k \in 0 .. n - m : TreesUpTo[m] \subseteq TreesUpTo[m + k]}
<1>4. 0 \in U
  OBVIOUS
<1>5. ASSUME NEW k \in 0 .. (n - m) - 1, k \in U PROVE k + 1 \in U
  <2>1. m + k \in Nat /\ (m + k) + 1 = m + (k + 1) /\ k + 1 \in 0 .. n - m
    OBVIOUS
  <2>2. TreesUpTo[m + k] \subseteq TreesUpTo[(m + k) + 1]
    BY <1>3, <2>1
  <2> QED
    BY <1>5, <2>1, <2>2
<1>6. n - m \in U
  <2>1. \A k \in 0 .. n - m : k \in U
    <3> HIDE DEF U
    <3> QED
      BY <1>4, <1>5, UpTo
  <2> QED
    BY <2>1
<1>7. m + (n - m) = n
  OBVIOUS
<1> QED
  BY <1>6, <1>7

(* The subtrees of a tree are lower than it.                               *)
LEMMA UpToStep ==
  ASSUME NEW n \in Nat
  PROVE  /\ TreesUpTo[n] \subseteq TreesUpTo[n + 1]
         /\ \A u \in TreesUpTo[n + 1] : u # Nil => u.left \in TreesUpTo[n] /\ u.right \in TreesUpTo[n]
<1>1. TreesUpTo[n + 1] = {Nil} \cup Node(TreesUpTo[n])
  BY UpToNode
<1>2. TreesUpTo[n] \subseteq TreesUpTo[n + 1]
  <2>1. n + 1 \in Nat /\ n <= n + 1
    OBVIOUS
  <2> QED
    BY <2>1, UpToMono
<1> QED
  BY <1>1, <1>2 DEF Node

AllTrees == UNION {TreesUpTo[n] : n \in Nat}

(* Trees of any height are made of trees of any height.                    *)
LEMMA AllTreesAre == AllTrees = {Nil} \cup Node(AllTrees)
<1>1. Nil \in AllTrees
  BY UpToNode DEF AllTrees
<1>2. ASSUME NEW t \in Node(AllTrees) PROVE t \in AllTrees
  <2>1. t.left \in AllTrees /\ t.right \in AllTrees
    BY DEF Node
  <2>2. PICK m \in Nat : t.left \in TreesUpTo[m]
    BY <2>1 DEF AllTrees
  <2>3. PICK k \in Nat : t.right \in TreesUpTo[k]
    BY <2>1 DEF AllTrees
  <2>4. m <= m + k /\ k <= m + k /\ m + k \in Nat /\ (m + k) + 1 \in Nat
    OBVIOUS
  <2>5. t.left \in TreesUpTo[m + k] /\ t.right \in TreesUpTo[m + k]
    BY <2>2, <2>3, <2>4, UpToMono
  <2>6. t \in Node(TreesUpTo[m + k])
    BY <2>5 DEF Node
  <2> QED
    BY <2>4, <2>6, UpToNode DEF AllTrees
<1>3. ASSUME NEW t \in AllTrees, t # Nil PROVE t \in Node(AllTrees)
  <2>1. PICK n \in Nat : t \in TreesUpTo[n]
    BY DEF AllTrees
  <2>2. n # 0
    BY <1>3, <2>1, UpToNode
  <2>3. n - 1 \in Nat /\ (n - 1) + 1 = n
    BY <2>2
  <2>4. t \in Node(TreesUpTo[n - 1])
    BY <1>3, <2>1, <2>3, UpToNode
  <2>5. TreesUpTo[n - 1] \subseteq AllTrees
    BY <2>3 DEF AllTrees
  <2> QED
    BY <2>4, <2>5, NodeMono
<1> QED
  BY <1>1, <1>2, <1>3

(* Induction over trees.                                                   *)
LEMMA TreeInduction ==
  ASSUME NEW S, Nil \in S, \A t \in Node(AllTrees) : t.left \in S /\ t.right \in S => t \in S
  PROVE  AllTrees \subseteq S
<1> DEFINE T == {n \in Nat : TreesUpTo[n] \subseteq S}
<1>1. 0 \in T
  BY UpToNode
<1>2. ASSUME NEW n \in Nat, n \in T PROVE n + 1 \in T
  <2>1. ASSUME NEW t \in TreesUpTo[n + 1] PROVE t \in S
    <3>1. t = Nil \/ t \in Node(TreesUpTo[n])
      BY UpToNode
    <3>2. ASSUME t \in Node(TreesUpTo[n]) PROVE t \in S
      <4>1. t.left \in S /\ t.right \in S
        BY <1>2, <3>2 DEF Node
      <4>2. TreesUpTo[n] \subseteq AllTrees
        BY DEF AllTrees
      <4>3. t \in Node(AllTrees)
        BY <3>2, <4>2, NodeMono
      <4> QED
        BY <4>1, <4>3
    <3> QED
      BY <3>1, <3>2
  <2> QED
    BY <2>1
<1>3. \A n \in Nat : n \in T
  <2> HIDE DEF T
  <2> QED
    BY <1>1, <1>2, AllOfNat
<1> QED
  BY <1>3 DEF AllTrees

(* The trees on which the recursive functions of FlexibleAVLTree are defined.      *)
LEMMA TreesAre ==
  /\ Trees \subseteq AllTrees /\ Nil \in Trees
  /\ \A t \in Trees : t # Nil => t \in Node(Trees) /\ t \in Node(AllTrees)
<1>0. MaxHeight \in Nat
  BY HeightAssumption
<1>1. Trees \subseteq AllTrees
  BY <1>0 DEF Trees, AllTrees
<1>2. ASSUME NEW t \in Trees, t # Nil PROVE t \in Node(Trees)
  <2>1. MaxHeight # 0
    BY <1>2, UpToNode DEF Trees
  <2>2. MaxHeight - 1 \in Nat /\ (MaxHeight - 1) + 1 = MaxHeight /\ MaxHeight - 1 <= MaxHeight
    BY <1>0, <2>1
  <2>3. t \in Node(TreesUpTo[MaxHeight - 1])
    BY <1>2, <2>2, UpToNode DEF Trees
  <2>4. TreesUpTo[MaxHeight - 1] \subseteq Trees
    BY <1>0, <2>2, UpToMono DEF Trees
  <2> QED
    BY <2>3, <2>4, NodeMono
<1>3. Nil \in Trees
  <2>1. 0 <= MaxHeight /\ 0 \in Nat
    BY <1>0
  <2>2. TreesUpTo[0] \subseteq Trees
    BY <1>0, <2>1, UpToMono DEF Trees
  <2> QED
    BY <2>2, UpToNode
<1> QED
  BY <1>1, <1>2, <1>3, NodeMono

(* The walk of find.                                                       *)
LEMMA FindFromIs ==
  ASSUME NEW E, NEW t \in Trees, NEW a \in Int
  PROVE  FindFrom(t, E, a)
           = IF t = Nil THEN Found(Nil, 0)
             ELSE IF E < a + GetStartIndex(t) THEN FindFrom(t.left, E, a + t.addPos)
             ELSE IF E < a + GetStartIndex(t) + t.len * CHAR_BIT THEN Found(t, a + GetStartIndex(t))
             ELSE IF E > a + GetStartIndex(t) THEN FindFrom(t.right, E, a + t.addPos)
             ELSE Found(Nil, 0)
<1> DEFINE N(z) == Found(Nil, 0)
           G(x, y, u, z) == IF E < z + GetStartIndex(u) THEN x
                           ELSE IF E < z + GetStartIndex(u) + u.len * CHAR_BIT THEN Found(u, z + GetStartIndex(u))
                           ELSE IF E > z + GetStartIndex(u) THEN y
                           ELSE Found(Nil, 0)
           B(f, u) == [z \in Int |-> IF u = Nil THEN N(z) ELSE G(f[u.left][z + u.addPos], f[u.right][z + u.addPos], u, z)]
           P(f, n) == f = [u \in TreesUpTo[n] |-> B(f, u)]
           T == {n \in Nat : \E f : P(f, n)}
           F == CHOOSE f : f = [u \in Trees |-> B(f, u)]
<1>1. \A f, g, u : (u # Nil => f[u.left] = g[u.left] /\ f[u.right] = g[u.right]) => B(f, u) = B(g, u)
  <2> HIDE DEF G, N
  <2> QED
    OBVIOUS
<1> HIDE DEF B
<1>2. 0 \in T
  <2> DEFINE f == [u \in TreesUpTo[0] |-> B(<<>>, u)]
  <2>1. P(f, 0)
    BY <1>1, UpToNode
  <2> HIDE DEF f
  <2> QED
    BY <2>1
<1>3. ASSUME NEW n \in Nat, n \in T PROVE n + 1 \in T
  <2>1. PICK f : P(f, n)
    BY <1>3
  <2> DEFINE g == [u \in TreesUpTo[n + 1] |-> B(f, u)]
  <2>2. P(g, n + 1)
    BY <1>1, <2>1, UpToStep
  <2> HIDE DEF g
  <2> QED
    BY <2>2
<1>4. F = [u \in Trees |-> B(F, u)]
  <2>1. MaxHeight \in T
    <3> HIDE DEF T
    <3> QED
      BY <1>2, <1>3, AllOfNat, HeightAssumption
  <2> QED
    BY <2>1 DEF Trees
<1>5. \A u, k : FindFrom(u, E, k) = F[u][k]
  BY DEF FindFrom, B
<1> HIDE DEF F, G, N
<1>6. F[t] = B(F, t)
  BY <1>4
<1>7. B(F, t)[a] = IF t = Nil THEN N(a) ELSE G(F[t.left][a + t.addPos], F[t.right][a + t.addPos], t, a)
  BY DEF B
<1>8. FindFrom(t, E, a) = IF t = Nil THEN N(a) ELSE G(FindFrom(t.left, E, a + t.addPos), FindFrom(t.right, E, a + t.addPos), t, a)
  BY <1>5, <1>6, <1>7
<1> QED
  BY <1>8 DEF G, N

(* The walk of updatePath2.                                                *)
LEMMA UpdatePath2Is ==
  ASSUME NEW o, NEW d, NEW t \in Trees, NEW e \in Int
  PROVE  UpdatePath2(t, e, o, d)
           = IF t = Nil THEN Nil
             ELSE IF e < GetStartIndex(t)
             THEN [t EXCEPT !.mysize = @ + o, !.elem = @ + d, !.right = AddPos(t.right, d),
                            !.left = UpdatePath2(t.left, e - t.addPos, o, d)]
             ELSE IF e < GetStartIndex(t) + t.len * CHAR_BIT
             THEN [t EXCEPT !.mysize = @ + o, !.numOnes = @ + o, !.right = AddPos(t.right, d)]
             ELSE IF e > GetStartIndex(t)
             THEN [t EXCEPT !.mysize = @ + o, !.right = UpdatePath2(t.right, e - t.addPos, o, d)]
             ELSE [t EXCEPT !.mysize = @ + o]
<1> DEFINE N(z) == Nil
           G(x, y, u, z) == IF z < GetStartIndex(u)
                           THEN [u EXCEPT !.mysize = @ + o, !.elem = @ + d, !.right = AddPos(u.right, d),
                                          !.left = x]
                           ELSE IF z < GetStartIndex(u) + u.len * CHAR_BIT
                           THEN [u EXCEPT !.mysize = @ + o, !.numOnes = @ + o, !.right = AddPos(u.right, d)]
                           ELSE IF z > GetStartIndex(u)
                           THEN [u EXCEPT !.mysize = @ + o, !.right = y]
                           ELSE [u EXCEPT !.mysize = @ + o]
           B(f, u) == [z \in Int |-> IF u = Nil THEN N(z) ELSE G(f[u.left][z - u.addPos], f[u.right][z - u.addPos], u, z)]
           P(f, n) == f = [u \in TreesUpTo[n] |-> B(f, u)]
           T == {n \in Nat : \E f : P(f, n)}
           F == CHOOSE f : f = [u \in Trees |-> B(f, u)]
<1>1. \A f, g, u : (u # Nil => f[u.left] = g[u.left] /\ f[u.right] = g[u.right]) => B(f, u) = B(g, u)
  <2> HIDE DEF G, N
  <2> QED
    OBVIOUS
<1> HIDE DEF B
<1>2. 0 \in T
  <2> DEFINE f == [u \in TreesUpTo[0] |-> B(<<>>, u)]
  <2>1. P(f, 0)
    BY <1>1, UpToNode
  <2> HIDE DEF f
  <2> QED
    BY <2>1
<1>3. ASSUME NEW n \in Nat, n \in T PROVE n + 1 \in T
  <2>1. PICK f : P(f, n)
    BY <1>3
  <2> DEFINE g == [u \in TreesUpTo[n + 1] |-> B(f, u)]
  <2>2. P(g, n + 1)
    BY <1>1, <2>1, UpToStep
  <2> HIDE DEF g
  <2> QED
    BY <2>2
<1>4. F = [u \in Trees |-> B(F, u)]
  <2>1. MaxHeight \in T
    <3> HIDE DEF T
    <3> QED
      BY <1>2, <1>3, AllOfNat, HeightAssumption
  <2> QED
    BY <2>1 DEF Trees
<1>5. \A u, k : UpdatePath2(u, k, o, d) = F[u][k]
  BY DEF UpdatePath2, B
<1> HIDE DEF F, G, N
<1>6. F[t] = B(F, t)
  BY <1>4
<1>7. B(F, t)[e] = IF t = Nil THEN N(e) ELSE G(F[t.left][e - t.addPos], F[t.right][e - t.addPos], t, e)
  BY DEF B
<1>8. UpdatePath2(t, e, o, d) = IF t = Nil THEN N(e) ELSE G(UpdatePath2(t.left, e - t.addPos, o, d), UpdatePath2(t.right, e - t.addPos, o, d), t, e)
  BY <1>5, <1>6, <1>7
<1> QED
  BY <1>8 DEF G, N

(* The walk of insert.                                                     *)
LEMMA InsertNewIs ==
  ASSUME NEW id, NEW o, NEW len, NEW t \in Trees, NEW e \in Int
  PROVE  InsertNew(t, id, e, o, len)
           = IF t = Nil THEN NewNode(id, e, NoPtr, o, len)
             ELSE Rebalance(IF e < GetStartIndex(t)
                            THEN [t EXCEPT !.left = InsertNew(t.left, id, e - t.addPos, o, len)]
                            ELSE [t EXCEPT !.right = InsertNew(t.right, id, e - t.addPos, o, len)])
<1> DEFINE N(z) == NewNode(id, z, NoPtr, o, len)
           G(x, y, u, z) == Rebalance(IF z < GetStartIndex(u)
                                          THEN [u EXCEPT !.left = x]
                                          ELSE [u EXCEPT !.right = y])
           B(f, u) == [z \in Int |-> IF u = Nil THEN N(z) ELSE G(f[u.left][z - u.addPos], f[u.right][z - u.addPos], u, z)]
           P(f, n) == f = [u \in TreesUpTo[n] |-> B(f, u)]
           T == {n \in Nat : \E f : P(f, n)}
           F == CHOOSE f : f = [u \in Trees |-> B(f, u)]
<1>1. \A f, g, u : (u # Nil => f[u.left] = g[u.left] /\ f[u.right] = g[u.right]) => B(f, u) = B(g, u)
  <2> HIDE DEF G, N
  <2> QED
    OBVIOUS
<1> HIDE DEF B
<1>2. 0 \in T
  <2> DEFINE f == [u \in TreesUpTo[0] |-> B(<<>>, u)]
  <2>1. P(f, 0)
    BY <1>1, UpToNode
  <2> HIDE DEF f
  <2> QED
    BY <2>1
<1>3. ASSUME NEW n \in Nat, n \in T PROVE n + 1 \in T
  <2>1. PICK f : P(f, n)
    BY <1>3
  <2> DEFINE g == [u \in TreesUpTo[n + 1] |-> B(f, u)]
  <2>2. P(g, n + 1)
    BY <1>1, <2>1, UpToStep
  <2> HIDE DEF g
  <2> QED
    BY <2>2
<1>4. F = [u \in Trees |-> B(F, u)]
  <2>1. MaxHeight \in T
    <3> HIDE DEF T
    <3> QED
      BY <1>2, <1>3, AllOfNat, HeightAssumption
  <2> QED
    BY <2>1 DEF Trees
<1>5. \A u, k : InsertNew(u, id, k, o, len) = F[u][k]
  BY DEF InsertNew, B
<1> HIDE DEF F, G, N
<1>6. F[t] = B(F, t)
  BY <1>4
<1>7. B(F, t)[e] = IF t = Nil THEN N(e) ELSE G(F[t.left][e - t.addPos], F[t.right][e - t.addPos], t, e)
  BY DEF B
<1>8. InsertNew(t, id, e, o, len) = IF t = Nil THEN N(e) ELSE G(InsertNew(t.left, id, e - t.addPos, o, len), InsertNew(t.right, id, e - t.addPos, o, len), t, e)
  BY <1>5, <1>6, <1>7
<1> QED
  BY <1>8 DEF G, N

(* The look for a block at a position.                                     *)
LEMMA TakenIs ==
  ASSUME NEW t \in Trees, NEW e \in Int
  PROVE  Taken(t, e)
           = IF t = Nil THEN FALSE
             ELSE IF e < GetStartIndex(t) THEN Taken(t.left, e - t.addPos)
             ELSE IF e > GetStartIndex(t) THEN Taken(t.right, e - t.addPos)
             ELSE TRUE
<1> DEFINE N(z) == FALSE
           G(x, y, u, z) == IF z < GetStartIndex(u) THEN x
                           ELSE IF z > GetStartIndex(u) THEN y
                           ELSE TRUE
           B(f, u) == [z \in Int |-> IF u = Nil THEN N(z) ELSE G(f[u.left][z - u.addPos], f[u.right][z - u.addPos], u, z)]
           P(f, n) == f = [u \in TreesUpTo[n] |-> B(f, u)]
           T == {n \in Nat : \E f : P(f, n)}
           F == CHOOSE f : f = [u \in Trees |-> B(f, u)]
<1>1. \A f, g, u : (u # Nil => f[u.left] = g[u.left] /\ f[u.right] = g[u.right]) => B(f, u) = B(g, u)
  <2> HIDE DEF G, N
  <2> QED
    OBVIOUS
<1> HIDE DEF B
<1>2. 0 \in T
  <2> DEFINE f == [u \in TreesUpTo[0] |-> B(<<>>, u)]
  <2>1. P(f, 0)
    BY <1>1, UpToNode
  <2> HIDE DEF f
  <2> QED
    BY <2>1
<1>3. ASSUME NEW n \in Nat, n \in T PROVE n + 1 \in T
  <2>1. PICK f : P(f, n)
    BY <1>3
  <2> DEFINE g == [u \in TreesUpTo[n + 1] |-> B(f, u)]
  <2>2. P(g, n + 1)
    BY <1>1, <2>1, UpToStep
  <2> HIDE DEF g
  <2> QED
    BY <2>2
<1>4. F = [u \in Trees |-> B(F, u)]
  <2>1. MaxHeight \in T
    <3> HIDE DEF T
    <3> QED
      BY <1>2, <1>3, AllOfNat, HeightAssumption
  <2> QED
    BY <2>1 DEF Trees
<1>5. \A u, k : Taken(u, k) = F[u][k]
  BY DEF Taken, B
<1> HIDE DEF F, G, N
<1>6. F[t] = B(F, t)
  BY <1>4
<1>7. B(F, t)[e] = IF t = Nil THEN N(e) ELSE G(F[t.left][e - t.addPos], F[t.right][e - t.addPos], t, e)
  BY DEF B
<1>8. Taken(t, e) = IF t = Nil THEN N(e) ELSE G(Taken(t.left, e - t.addPos), Taken(t.right, e - t.addPos), t, e)
  BY <1>5, <1>6, <1>7
<1> QED
  BY <1>8 DEF G, N

(* The walk to the leftmost node.                                          *)
LEMMA LeftmostIs ==
  ASSUME NEW t \in Trees, NEW a \in Int
  PROVE  Leftmost(t, a)
           = IF t = Nil THEN [node |-> Nil, add2 |-> a]
             ELSE IF t.left = Nil THEN [node |-> PropagateAddPos(t), add2 |-> a]
             ELSE Leftmost(t.left, a + t.addPos)
<1> DEFINE N(z) == [node |-> Nil, add2 |-> z]
           G(x, u, z) == IF u.left = Nil THEN [node |-> PropagateAddPos(u), add2 |-> z]
                        ELSE x
           B(f, u) == [z \in Int |-> IF u = Nil THEN N(z) ELSE G(f[u.left][z + u.addPos], u, z)]
           P(f, n) == f = [u \in TreesUpTo[n] |-> B(f, u)]
           T == {n \in Nat : \E f : P(f, n)}
           F == CHOOSE f : f = [u \in Trees |-> B(f, u)]
<1>1. \A f, g, u : (u # Nil => f[u.left] = g[u.left] /\ f[u.right] = g[u.right]) => B(f, u) = B(g, u)
  <2> HIDE DEF G, N
  <2> QED
    OBVIOUS
<1> HIDE DEF B
<1>2. 0 \in T
  <2> DEFINE f == [u \in TreesUpTo[0] |-> B(<<>>, u)]
  <2>1. P(f, 0)
    BY <1>1, UpToNode
  <2> HIDE DEF f
  <2> QED
    BY <2>1
<1>3. ASSUME NEW n \in Nat, n \in T PROVE n + 1 \in T
  <2>1. PICK f : P(f, n)
    BY <1>3
  <2> DEFINE g == [u \in TreesUpTo[n + 1] |-> B(f, u)]
  <2>2. P(g, n + 1)
    BY <1>1, <2>1, UpToStep
  <2> HIDE DEF g
  <2> QED
    BY <2>2
<1>4. F = [u \in Trees |-> B(F, u)]
  <2>1. MaxHeight \in T
    <3> HIDE DEF T
    <3> QED
      BY <1>2, <1>3, AllOfNat, HeightAssumption
  <2> QED
    BY <2>1 DEF Trees
<1>5. \A u, k : Leftmost(u, k) = F[u][k]
  BY DEF Leftmost, B
<1> HIDE DEF F, G, N
<1>6. F[t] = B(F, t)
  BY <1>4
<1>7. B(F, t)[a] = IF t = Nil THEN N(a) ELSE G(F[t.left][a + t.addPos], t, a)
  BY DEF B
<1>8. Leftmost(t, a) = IF t = Nil THEN N(a) ELSE G(Leftmost(t.left, a + t.addPos), t, a)
  BY <1>5, <1>6, <1>7
<1> QED
  BY <1>8 DEF G, N

(* The walk that takes the leftmost node out.                              *)
LEMMA WithoutLeftmostIs ==
  ASSUME NEW t \in Trees
  PROVE  WithoutLeftmost(t)
           = IF t = Nil THEN Nil
             ELSE IF t.left = Nil THEN PropagateAddPos(t).right
             ELSE Rebalance([t EXCEPT !.left = WithoutLeftmost(t.left)])
<1> DEFINE N == Nil
           G(x, u) == IF u.left = Nil THEN PropagateAddPos(u).right
                     ELSE Rebalance([u EXCEPT !.left = x])
           B(f, u) == IF u = Nil THEN N ELSE G(f[u.left], u)
           P(f, n) == f = [u \in TreesUpTo[n] |-> B(f, u)]
           T == {n \in Nat : \E f : P(f, n)}
           F == CHOOSE f : f = [u \in Trees |-> B(f, u)]
<1>1. \A f, g, u : (u # Nil => f[u.left] = g[u.left] /\ f[u.right] = g[u.right]) => B(f, u) = B(g, u)
  <2> HIDE DEF G, N
  <2> QED
    OBVIOUS
<1> HIDE DEF B
<1>2. 0 \in T
  <2> DEFINE f == [u \in TreesUpTo[0] |-> B(<<>>, u)]
  <2>1. P(f, 0)
    BY <1>1, UpToNode
  <2> HIDE DEF f
  <2> QED
    BY <2>1
<1>3. ASSUME NEW n \in Nat, n \in T PROVE n + 1 \in T
  <2>1. PICK f : P(f, n)
    BY <1>3
  <2> DEFINE g == [u \in TreesUpTo[n + 1] |-> B(f, u)]
  <2>2. P(g, n + 1)
    BY <1>1, <2>1, UpToStep
  <2> HIDE DEF g
  <2> QED
    BY <2>2
<1>4. F = [u \in Trees |-> B(F, u)]
  <2>1. MaxHeight \in T
    <3> HIDE DEF T
    <3> QED
      BY <1>2, <1>3, AllOfNat, HeightAssumption
  <2> QED
    BY <2>1 DEF Trees
<1>5. \A u : WithoutLeftmost(u) = F[u]
  BY DEF WithoutLeftmost, B
<1> HIDE DEF F, G, N
<1>6. F[t] = B(F, t)
  BY <1>4
<1>7. B(F, t) = IF t = Nil THEN N ELSE G(F[t.left], t)
  BY DEF B
<1>8. WithoutLeftmost(t) = IF t = Nil THEN N ELSE G(WithoutLeftmost(t.left), t)
  BY <1>5, <1>6, <1>7
<1> QED
  BY <1>8 DEF G, N

(* The walk of deleteElem.                                                 *)
LEMMA DeleteFromIs ==
  ASSUME NEW t \in Trees, NEW e \in Int
  PROVE  DeleteFrom(t, e)
           = IF t = Nil THEN Nil
             ELSE IF e < GetStartIndex(t) THEN Rebalance([t EXCEPT !.left = DeleteFrom(t.left, e - t.addPos)])
             ELSE IF e < GetStartIndex(t) + t.len * CHAR_BIT THEN DeleteNode(t)
             ELSE Rebalance([t EXCEPT !.right = DeleteFrom(t.right, e - t.addPos)])
<1> DEFINE N(z) == Nil
           G(x, y, u, z) == IF z < GetStartIndex(u) THEN Rebalance([u EXCEPT !.left = x])
                           ELSE IF z < GetStartIndex(u) + u.len * CHAR_BIT THEN DeleteNode(u)
                           ELSE Rebalance([u EXCEPT !.right = y])
           B(f, u) == [z \in Int |-> IF u = Nil THEN N(z) ELSE G(f[u.left][z - u.addPos], f[u.right][z - u.addPos], u, z)]
           P(f, n) == f = [u \in TreesUpTo[n] |-> B(f, u)]
           T == {n \in Nat : \E f : P(f, n)}
           F == CHOOSE f : f = [u \in Trees |-> B(f, u)]
<1>1. \A f, g, u : (u # Nil => f[u.left] = g[u.left] /\ f[u.right] = g[u.right]) => B(f, u) = B(g, u)
  <2> HIDE DEF G, N
  <2> QED
    OBVIOUS
<1> HIDE DEF B
<1>2. 0 \in T
  <2> DEFINE f == [u \in TreesUpTo[0] |-> B(<<>>, u)]
  <2>1. P(f, 0)
    BY <1>1, UpToNode
  <2> HIDE DEF f
  <2> QED
    BY <2>1
<1>3. ASSUME NEW n \in Nat, n \in T PROVE n + 1 \in T
  <2>1. PICK f : P(f, n)
    BY <1>3
  <2> DEFINE g == [u \in TreesUpTo[n + 1] |-> B(f, u)]
  <2>2. P(g, n + 1)
    BY <1>1, <2>1, UpToStep
  <2> HIDE DEF g
  <2> QED
    BY <2>2
<1>4. F = [u \in Trees |-> B(F, u)]
  <2>1. MaxHeight \in T
    <3> HIDE DEF T
    <3> QED
      BY <1>2, <1>3, AllOfNat, HeightAssumption
  <2> QED
    BY <2>1 DEF Trees
<1>5. \A u, k : DeleteFrom(u, k) = F[u][k]
  BY DEF DeleteFrom, B
<1> HIDE DEF F, G, N
<1>6. F[t] = B(F, t)
  BY <1>4
<1>7. B(F, t)[e] = IF t = Nil THEN N(e) ELSE G(F[t.left][e - t.addPos], F[t.right][e - t.addPos], t, e)
  BY DEF B
<1>8. DeleteFrom(t, e) = IF t = Nil THEN N(e) ELSE G(DeleteFrom(t.left, e - t.addPos), DeleteFrom(t.right, e - t.addPos), t, e)
  BY <1>5, <1>6, <1>7
<1> QED
  BY <1>8 DEF G, N

(* The walk of rank.                                                       *)
LEMMA RankIs ==
  ASSUME NEW t \in Trees, NEW e \in Int
  PROVE  Rank(t, e)
           = IF t = Nil THEN [elements |-> 0, node |-> Nil, num |-> 0]
             ELSE IF e < GetStartIndex(t) THEN Rank(t.left, e - t.addPos)
             ELSE IF e - GetStartIndex(t) >= t.len * CHAR_BIT - 1
             THEN [Rank(t.right, e - t.addPos) EXCEPT !.elements = @ + MySize(t) - MySize(t.right)]
             ELSE [elements |-> MySize(t.left), node |-> t, num |-> e - GetStartIndex(t)]
<1> DEFINE N(z) == [elements |-> 0, node |-> Nil, num |-> 0]
           G(x, y, u, z) == IF z < GetStartIndex(u) THEN x
                           ELSE IF z - GetStartIndex(u) >= u.len * CHAR_BIT - 1
                           THEN [y EXCEPT !.elements = @ + MySize(u) - MySize(u.right)]
                           ELSE [elements |-> MySize(u.left), node |-> u, num |-> z - GetStartIndex(u)]
           B(f, u) == [z \in Int |-> IF u = Nil THEN N(z) ELSE G(f[u.left][z - u.addPos], f[u.right][z - u.addPos], u, z)]
           P(f, n) == f = [u \in TreesUpTo[n] |-> B(f, u)]
           T == {n \in Nat : \E f : P(f, n)}
           F == CHOOSE f : f = [u \in Trees |-> B(f, u)]
<1>1. \A f, g, u : (u # Nil => f[u.left] = g[u.left] /\ f[u.right] = g[u.right]) => B(f, u) = B(g, u)
  <2> HIDE DEF G, N
  <2> QED
    OBVIOUS
<1> HIDE DEF B
<1>2. 0 \in T
  <2> DEFINE f == [u \in TreesUpTo[0] |-> B(<<>>, u)]
  <2>1. P(f, 0)
    BY <1>1, UpToNode
  <2> HIDE DEF f
  <2> QED
    BY <2>1
<1>3. ASSUME NEW n \in Nat, n \in T PROVE n + 1 \in T
  <2>1. PICK f : P(f, n)
    BY <1>3
  <2> DEFINE g == [u \in TreesUpTo[n + 1] |-> B(f, u)]
  <2>2. P(g, n + 1)
    BY <1>1, <2>1, UpToStep
  <2> HIDE DEF g
  <2> QED
    BY <2>2
<1>4. F = [u \in Trees |-> B(F, u)]
  <2>1. MaxHeight \in T
    <3> HIDE DEF T
    <3> QED
      BY <1>2, <1>3, AllOfNat, HeightAssumption
  <2> QED
    BY <2>1 DEF Trees
<1>5. \A u, k : Rank(u, k) = F[u][k]
  BY DEF Rank, B
<1> HIDE DEF F, G, N
<1>6. F[t] = B(F, t)
  BY <1>4
<1>7. B(F, t)[e] = IF t = Nil THEN N(e) ELSE G(F[t.left][e - t.addPos], F[t.right][e - t.addPos], t, e)
  BY DEF B
<1>8. Rank(t, e) = IF t = Nil THEN N(e) ELSE G(Rank(t.left, e - t.addPos), Rank(t.right, e - t.addPos), t, e)
  BY <1>5, <1>6, <1>7
<1> QED
  BY <1>8 DEF G, N

(* The way to the block whose length is set.                               *)
LEMMA SetLenAtIs ==
  ASSUME NEW len, NEW t \in Trees, NEW e \in Int
  PROVE  SetLenAt(t, e, len)
           = IF t = Nil THEN Nil
             ELSE IF e < GetStartIndex(t) THEN [t EXCEPT !.left = SetLenAt(t.left, e - t.addPos, len)]
             ELSE IF e < GetStartIndex(t) + t.len * CHAR_BIT THEN [t EXCEPT !.len = len]
             ELSE [t EXCEPT !.right = SetLenAt(t.right, e - t.addPos, len)]
<1> DEFINE N(z) == Nil
           G(x, y, u, z) == IF z < GetStartIndex(u) THEN [u EXCEPT !.left = x]
                           ELSE IF z < GetStartIndex(u) + u.len * CHAR_BIT THEN [u EXCEPT !.len = len]
                           ELSE [u EXCEPT !.right = y]
           B(f, u) == [z \in Int |-> IF u = Nil THEN N(z) ELSE G(f[u.left][z - u.addPos], f[u.right][z - u.addPos], u, z)]
           P(f, n) == f = [u \in TreesUpTo[n] |-> B(f, u)]
           T == {n \in Nat : \E f : P(f, n)}
           F == CHOOSE f : f = [u \in Trees |-> B(f, u)]
<1>1. \A f, g, u : (u # Nil => f[u.left] = g[u.left] /\ f[u.right] = g[u.right]) => B(f, u) = B(g, u)
  <2> HIDE DEF G, N
  <2> QED
    OBVIOUS
<1> HIDE DEF B
<1>2. 0 \in T
  <2> DEFINE f == [u \in TreesUpTo[0] |-> B(<<>>, u)]
  <2>1. P(f, 0)
    BY <1>1, UpToNode
  <2> HIDE DEF f
  <2> QED
    BY <2>1
<1>3. ASSUME NEW n \in Nat, n \in T PROVE n + 1 \in T
  <2>1. PICK f : P(f, n)
    BY <1>3
  <2> DEFINE g == [u \in TreesUpTo[n + 1] |-> B(f, u)]
  <2>2. P(g, n + 1)
    BY <1>1, <2>1, UpToStep
  <2> HIDE DEF g
  <2> QED
    BY <2>2
<1>4. F = [u \in Trees |-> B(F, u)]
  <2>1. MaxHeight \in T
    <3> HIDE DEF T
    <3> QED
      BY <1>2, <1>3, AllOfNat, HeightAssumption
  <2> QED
    BY <2>1 DEF Trees
<1>5. \A u, k : SetLenAt(u, k, len) = F[u][k]
  BY DEF SetLenAt, B
<1> HIDE DEF F, G, N
<1>6. F[t] = B(F, t)
  BY <1>4
<1>7. B(F, t)[e] = IF t = Nil THEN N(e) ELSE G(F[t.left][e - t.addPos], F[t.right][e - t.addPos], t, e)
  BY DEF B
<1>8. SetLenAt(t, e, len) = IF t = Nil THEN N(e) ELSE G(SetLenAt(t.left, e - t.addPos, len), SetLenAt(t.right, e - t.addPos, len), t, e)
  BY <1>5, <1>6, <1>7
<1> QED
  BY <1>8 DEF G, N

(* The blocks of a tree.                                                   *)
LEMMA InOrderFromIs ==
  ASSUME NEW t \in Trees, NEW a \in Int
  PROVE  InOrderFrom(t, a)
           = IF t = Nil THEN <<>>
             ELSE InOrderFrom(t.left, a + t.addPos) \o <<BlockOf(t, a)>> \o InOrderFrom(t.right, a + t.addPos)
<1> DEFINE N(z) == <<>>
           G(x, y, u, z) == x \o <<BlockOf(u, z)>> \o y
           B(f, u) == [z \in Int |-> IF u = Nil THEN N(z) ELSE G(f[u.left][z + u.addPos], f[u.right][z + u.addPos], u, z)]
           P(f, n) == f = [u \in TreesUpTo[n] |-> B(f, u)]
           T == {n \in Nat : \E f : P(f, n)}
           F == CHOOSE f : f = [u \in Trees |-> B(f, u)]
<1>1. \A f, g, u : (u # Nil => f[u.left] = g[u.left] /\ f[u.right] = g[u.right]) => B(f, u) = B(g, u)
  <2> HIDE DEF G, N
  <2> QED
    OBVIOUS
<1> HIDE DEF B
<1>2. 0 \in T
  <2> DEFINE f == [u \in TreesUpTo[0] |-> B(<<>>, u)]
  <2>1. P(f, 0)
    BY <1>1, UpToNode
  <2> HIDE DEF f
  <2> QED
    BY <2>1
<1>3. ASSUME NEW n \in Nat, n \in T PROVE n + 1 \in T
  <2>1. PICK f : P(f, n)
    BY <1>3
  <2> DEFINE g == [u \in TreesUpTo[n + 1] |-> B(f, u)]
  <2>2. P(g, n + 1)
    BY <1>1, <2>1, UpToStep
  <2> HIDE DEF g
  <2> QED
    BY <2>2
<1>4. F = [u \in Trees |-> B(F, u)]
  <2>1. MaxHeight \in T
    <3> HIDE DEF T
    <3> QED
      BY <1>2, <1>3, AllOfNat, HeightAssumption
  <2> QED
    BY <2>1 DEF Trees
<1>5. \A u, k : InOrderFrom(u, k) = F[u][k]
  BY DEF InOrderFrom, B
<1> HIDE DEF F, G, N
<1>6. F[t] = B(F, t)
  BY <1>4
<1>7. B(F, t)[a] = IF t = Nil THEN N(a) ELSE G(F[t.left][a + t.addPos], F[t.right][a + t.addPos], t, a)
  BY DEF B
<1>8. InOrderFrom(t, a) = IF t = Nil THEN N(a) ELSE G(InOrderFrom(t.left, a + t.addPos), InOrderFrom(t.right, a + t.addPos), t, a)
  BY <1>5, <1>6, <1>7
<1> QED
  BY <1>8 DEF G, N

(* Their lengths and ones.                                                 *)
LEMMA LensAndOnesIs ==
  ASSUME NEW t \in Trees
  PROVE  LensAndOnes(t)
           = IF t = Nil THEN <<>>
             ELSE LensAndOnes(t.left) \o <<[len |-> t.len, ones |-> t.numOnes]>> \o LensAndOnes(t.right)
<1> DEFINE N == <<>>
           G(x, y, u) == x \o <<[len |-> u.len, ones |-> u.numOnes]>> \o y
           B(f, u) == IF u = Nil THEN N ELSE G(f[u.left], f[u.right], u)
           P(f, n) == f = [u \in TreesUpTo[n] |-> B(f, u)]
           T == {n \in Nat : \E f : P(f, n)}
           F == CHOOSE f : f = [u \in Trees |-> B(f, u)]
<1>1. \A f, g, u : (u # Nil => f[u.left] = g[u.left] /\ f[u.right] = g[u.right]) => B(f, u) = B(g, u)
  <2> HIDE DEF G, N
  <2> QED
    OBVIOUS
<1> HIDE DEF B
<1>2. 0 \in T
  <2> DEFINE f == [u \in TreesUpTo[0] |-> B(<<>>, u)]
  <2>1. P(f, 0)
    BY <1>1, UpToNode
  <2> HIDE DEF f
  <2> QED
    BY <2>1
<1>3. ASSUME NEW n \in Nat, n \in T PROVE n + 1 \in T
  <2>1. PICK f : P(f, n)
    BY <1>3
  <2> DEFINE g == [u \in TreesUpTo[n + 1] |-> B(f, u)]
  <2>2. P(g, n + 1)
    BY <1>1, <2>1, UpToStep
  <2> HIDE DEF g
  <2> QED
    BY <2>2
<1>4. F = [u \in Trees |-> B(F, u)]
  <2>1. MaxHeight \in T
    <3> HIDE DEF T
    <3> QED
      BY <1>2, <1>3, AllOfNat, HeightAssumption
  <2> QED
    BY <2>1 DEF Trees
<1>5. \A u : LensAndOnes(u) = F[u]
  BY DEF LensAndOnes, B
<1> HIDE DEF F, G, N
<1>6. F[t] = B(F, t)
  BY <1>4
<1>7. B(F, t) = IF t = Nil THEN N ELSE G(F[t.left], F[t.right], t)
  BY DEF B
<1>8. LensAndOnes(t) = IF t = Nil THEN N ELSE G(LensAndOnes(t.left), LensAndOnes(t.right), t)
  BY <1>5, <1>6, <1>7
<1> QED
  BY <1>8 DEF G, N

(***************************************************************************)
(* The sequence of blocks of a tree, with their positions.                 *)
(***************************************************************************)
Item == [len : Int, ones : Int, start : Int]

Moved(x, d) == [len |-> x.len, ones |-> x.ones, start |-> x.start + d]
Shift(q, d) == [j \in 1 .. Len(q) |-> Moved(q[j], d)]

(* One sequence, an item, another sequence.                                *)
Three(L, x, R) == [j \in 1 .. Len(L) + 1 + Len(R) |->
                     IF j <= Len(L) THEN L[j] ELSE IF j = Len(L) + 1 THEN x ELSE R[j - Len(L) - 1]]

ItemOf(t) == [len |-> t.len, ones |-> t.numOnes, start |-> GetStartIndex(t)]

(* A function from 1 .. n is a sequence of length n.                       *)
LEMMA IsSequence ==
  ASSUME NEW n \in Nat, NEW S, NEW f \in [1 .. n -> S]
  PROVE  f \in Seq(S) /\ Len(f) = n
<1>1. f = [j \in 1 .. n |-> f[j]]
  OBVIOUS
<1> QED
  BY <1>1, IsASeq, LenProperties

(* A shift moves every item and changes nothing else.                      *)
LEMMA ShiftIs ==
  ASSUME NEW q \in Seq(Item), NEW d \in Int
  PROVE  /\ Shift(q, d) \in Seq(Item) /\ Len(Shift(q, d)) = Len(q)
         /\ \A j \in 1 .. Len(q) : /\ Shift(q, d)[j] = Moved(q[j], d)
                                   /\ Shift(q, d)[j].len = q[j].len
                                   /\ Shift(q, d)[j].ones = q[j].ones
                                   /\ Shift(q, d)[j].start = q[j].start + d
<1>1. Len(q) \in Nat /\ \A j \in 1 .. Len(q) : q[j] \in Item
  BY LenProperties, ElementOfSeq
<1>2. Shift(q, d) \in [1 .. Len(q) -> Item]
  BY <1>1 DEF Shift, Item, Moved
<1>3. \A j \in 1 .. Len(q) : Shift(q, d)[j] = Moved(q[j], d)
  BY DEF Shift
<1>4. Shift(q, d) \in Seq(Item) /\ Len(Shift(q, d)) = Len(q)
  BY <1>1, <1>2, IsSequence
<1>5. \A j \in 1 .. Len(q) : /\ Moved(q[j], d).len = q[j].len
                            /\ Moved(q[j], d).ones = q[j].ones
                            /\ Moved(q[j], d).start = q[j].start + d
  BY DEF Moved
<1> QED
  BY <1>3, <1>4, <1>5

(* Two sequences with an item between them, item by item.                  *)
LEMMA ThreeIs ==
  ASSUME NEW L \in Seq(Item), NEW R \in Seq(Item), NEW x \in Item
  PROVE  /\ Len(L) \in Nat /\ Len(R) \in Nat
         /\ Three(L, x, R) \in Seq(Item) /\ Len(Three(L, x, R)) = Len(L) + 1 + Len(R)
         /\ \A j \in 1 .. Len(L) + 1 + Len(R) :
              Three(L, x, R)[j] = IF j <= Len(L) THEN L[j]
                                  ELSE IF j = Len(L) + 1 THEN x ELSE R[j - Len(L) - 1]
<1>1. /\ Len(L) \in Nat /\ \A j \in 1 .. Len(L) : L[j] \in Item
      /\ Len(R) \in Nat /\ \A j \in 1 .. Len(R) : R[j] \in Item
  BY LenProperties, ElementOfSeq
<1>2. ASSUME NEW j \in 1 .. Len(L) + 1 + Len(R)
      PROVE  (IF j <= Len(L) THEN L[j]
              ELSE IF j = Len(L) + 1 THEN x ELSE R[j - Len(L) - 1]) \in Item
  <2>1. j <= Len(L) => j \in 1 .. Len(L)
    BY <1>1
  <2>2. ~(j <= Len(L)) /\ j # Len(L) + 1 => j - Len(L) - 1 \in 1 .. Len(R)
    BY <1>1
  <2> QED
    BY <1>1, <2>1, <2>2
<1>3. Three(L, x, R) \in [1 .. Len(L) + 1 + Len(R) -> Item]
  BY <1>2 DEF Three
<1>4. Len(L) + 1 + Len(R) \in Nat
  BY <1>1
<1> QED
  BY <1>1, <1>3, <1>4, IsSequence DEF Three

(* Item by item, whatever the parts.                                       *)
LEMMA ThreeAt ==
  ASSUME NEW L, NEW R, NEW x, NEW j \in 1 .. Len(L) + 1 + Len(R)
  PROVE  Three(L, x, R)[j] = IF j <= Len(L) THEN L[j]
                             ELSE IF j = Len(L) + 1 THEN x ELSE R[j - Len(L) - 1]
  BY DEF Three

(* The same sequence twice.                                                *)
LEMMA SameItems ==
  ASSUME NEW q \in Seq(Item), NEW p \in Seq(Item), Len(q) = Len(p),
         \A j \in 1 .. Len(q) : q[j] = p[j]
  PROVE  q = p
<1> QED
  BY SeqEqual

(* A block moved twice is moved by the sum.                                *)
LEMMA MovedTwice ==
  ASSUME NEW x \in Item, NEW d \in Int, NEW e \in Int
  PROVE  /\ Moved(x, d) \in Item
         /\ Moved(Moved(x, d), e) = Moved(x, d + e)
         /\ Moved(x, 0) = x
<1>1. x = [len |-> x.len, ones |-> x.ones, start |-> x.start] /\ x.start \in Int
      /\ x.len \in Int /\ x.ones \in Int
  BY DEF Item
<1> QED
  BY <1>1 DEF Moved, Item

(* So is a sequence of blocks.                                             *)
LEMMA ShiftTwice ==
  ASSUME NEW q \in Seq(Item), NEW d \in Int, NEW e \in Int
  PROVE  Shift(Shift(q, d), e) = Shift(q, d + e) /\ Shift(q, 0) = q
<1>1. \A j \in 1 .. Len(q) : q[j] \in Item
  BY ElementOfSeq
<1>2. d + e \in Int /\ 0 \in Int
  OBVIOUS
<1>3. Shift(q, d) \in Seq(Item) /\ Shift(q, d + e) \in Seq(Item)
      /\ Shift(Shift(q, d), e) \in Seq(Item) /\ Shift(q, 0) \in Seq(Item)
  BY <1>2, ShiftIs
<1>4. \A j \in 1 .. Len(q) : Shift(Shift(q, d), e)[j] = Shift(q, d + e)[j]
  <2> TAKE j \in 1 .. Len(q)
  <2>1. Shift(Shift(q, d), e)[j] = Moved(Moved(q[j], d), e)
    BY <1>3, ShiftIs
  <2>2. Shift(q, d + e)[j] = Moved(q[j], d + e)
    BY <1>2, ShiftIs
  <2> QED
    BY <1>1, <2>1, <2>2, MovedTwice
<1>5. \A j \in 1 .. Len(q) : Shift(q, 0)[j] = q[j]
  BY <1>1, <1>2, ShiftIs, MovedTwice
<1>6. Len(Shift(Shift(q, d), e)) = Len(q) /\ Len(Shift(q, d + e)) = Len(q) /\ Len(Shift(q, 0)) = Len(q)
  BY <1>2, <1>3, ShiftIs
<1> QED
  BY <1>3, <1>4, <1>5, <1>6, SameItems

(* A shift of the whole is a shift of its parts.                           *)
LEMMA ShiftThree ==
  ASSUME NEW L \in Seq(Item), NEW R \in Seq(Item), NEW x \in Item, NEW d \in Int
  PROVE  Shift(Three(L, x, R), d) = Three(Shift(L, d), Moved(x, d), Shift(R, d))
<1> DEFINE q == Shift(Three(L, x, R), d)
           p == Three(Shift(L, d), Moved(x, d), Shift(R, d))
<1>1. Moved(x, d) \in Item /\ Shift(L, d) \in Seq(Item) /\ Shift(R, d) \in Seq(Item)
      /\ Len(Shift(L, d)) = Len(L) /\ Len(Shift(R, d)) = Len(R)
  BY ShiftIs, MovedTwice
<1>2. Len(L) \in Nat /\ Len(R) \in Nat /\ Three(L, x, R) \in Seq(Item)
      /\ Len(Three(L, x, R)) = Len(L) + 1 + Len(R)
  BY ThreeIs
<1>3. q \in Seq(Item) /\ p \in Seq(Item) /\ Len(q) = Len(L) + 1 + Len(R)
      /\ Len(p) = Len(L) + 1 + Len(R)
  <2>1. q \in Seq(Item) /\ Len(q) = Len(Three(L, x, R))
    BY <1>2, ShiftIs
  <2>2. p \in Seq(Item) /\ Len(p) = Len(Shift(L, d)) + 1 + Len(Shift(R, d))
    <3> DEFINE A == Shift(L, d)
               B == Shift(R, d)
               y == Moved(x, d)
    <3>1. A \in Seq(Item) /\ B \in Seq(Item) /\ y \in Item
      BY <1>1
    <3> HIDE DEF A, B, y
    <3>2. Three(A, y, B) \in Seq(Item) /\ Len(Three(A, y, B)) = Len(A) + 1 + Len(B)
      BY <3>1, ThreeIs
    <3> QED
      BY <3>2 DEF A, B, y
  <2> HIDE DEF q, p
  <2> QED
    BY <1>1, <1>2, <2>1, <2>2
<1>4. ASSUME NEW j \in 1 .. Len(L) + 1 + Len(R) PROVE q[j] = p[j]
  <2>1. q[j] = Moved(Three(L, x, R)[j], d)
    BY <1>2, ShiftIs
  <2>2. p[j] = IF j <= Len(L) THEN Shift(L, d)[j]
               ELSE IF j = Len(L) + 1 THEN Moved(x, d) ELSE Shift(R, d)[j - Len(L) - 1]
    <3>1. j \in 1 .. Len(Shift(L, d)) + 1 + Len(Shift(R, d))
      BY <1>1
    <3> QED
      BY <1>1, <3>1, ThreeAt
  <2>3. j <= Len(L) => j \in 1 .. Len(L)
    BY <1>2
  <2>4. ~(j <= Len(L)) /\ j # Len(L) + 1 => j - Len(L) - 1 \in 1 .. Len(R)
    BY <1>2
  <2>5. j <= Len(L) => Shift(L, d)[j] = Moved(L[j], d)
    BY <2>3, ShiftIs
  <2>6. ~(j <= Len(L)) /\ j # Len(L) + 1 => Shift(R, d)[j - Len(L) - 1] = Moved(R[j - Len(L) - 1], d)
    BY <2>4, ShiftIs
  <2>7. Three(L, x, R)[j] = IF j <= Len(L) THEN L[j]
                            ELSE IF j = Len(L) + 1 THEN x ELSE R[j - Len(L) - 1]
    BY ThreeIs
  <2> HIDE DEF q, p
  <2> QED
    BY <2>1, <2>2, <2>5, <2>6, <2>7
<1> HIDE DEF q, p
<1>5. q = p
  BY <1>3, <1>4, SameItems
<1> QED
  BY <1>5 DEF q, p

(* What a rotation leaves alone: the order of the blocks.                  *)
LEMMA ThreeAssoc ==
  ASSUME NEW L \in Seq(Item), NEW R \in Seq(Item), NEW Q \in Seq(Item), NEW x \in Item, NEW y \in Item
  PROVE  Three(Three(L, x, R), y, Q) = Three(L, x, Three(R, y, Q))
<1> DEFINE q == Three(Three(L, x, R), y, Q)
           p == Three(L, x, Three(R, y, Q))
<1>1. /\ Len(L) \in Nat /\ Len(R) \in Nat /\ Len(Q) \in Nat
      /\ Three(L, x, R) \in Seq(Item) /\ Len(Three(L, x, R)) = Len(L) + 1 + Len(R)
      /\ Three(R, y, Q) \in Seq(Item) /\ Len(Three(R, y, Q)) = Len(R) + 1 + Len(Q)
  BY ThreeIs
<1> DEFINE n == Len(L) + 1 + Len(R) + 1 + Len(Q)
<1>2. q \in Seq(Item) /\ p \in Seq(Item) /\ Len(q) = n /\ Len(p) = n
  <2>1. q \in Seq(Item) /\ Len(q) = Len(Three(L, x, R)) + 1 + Len(Q)
    BY <1>1, ThreeIs, ZenonT(40)
  <2>2. p \in Seq(Item) /\ Len(p) = Len(L) + 1 + Len(Three(R, y, Q))
    BY <1>1, ThreeIs, ZenonT(40)
  <2> HIDE DEF q, p
  <2> QED
    BY <1>1, <2>1, <2>2
<1>3. ASSUME NEW j \in 1 .. n PROVE q[j] = p[j]
  <2> DEFINE a == Len(L)
             b == Len(R)
             c == Len(Q)
  <2>0. a \in Nat /\ b \in Nat /\ c \in Nat /\ j \in Int /\ 1 <= j /\ j <= a + 1 + b + 1 + c
    BY <1>1
  <2>1. q[j] = IF j <= a + 1 + b THEN Three(L, x, R)[j]
               ELSE IF j = a + 1 + b + 1 THEN y ELSE Q[j - (a + 1 + b) - 1]
    <3>1. j \in 1 .. Len(Three(L, x, R)) + 1 + Len(Q)
      BY <1>1
    <3> DEFINE A == Three(L, x, R)
    <3>2. A = Three(L, x, R) /\ Len(A) = a + 1 + b
      BY <1>1
    <3> HIDE DEF n, A
    <3>3. Three(A, y, Q)[j] = IF j <= Len(A) THEN A[j] ELSE IF j = Len(A) + 1 THEN y ELSE Q[j - Len(A) - 1]
      BY <3>1, <3>2 DEF Three
    <3> HIDE DEF a, b
    <3> QED
      BY <3>2, <3>3
  <2>2. p[j] = IF j <= a THEN L[j]
               ELSE IF j = a + 1 THEN x ELSE Three(R, y, Q)[j - a - 1]
    <3>1. j \in 1 .. Len(L) + 1 + Len(Three(R, y, Q))
      BY <1>1
    <3> HIDE DEF n
    <3> QED
      BY <1>1, <3>1, ThreeAt
  <2>3. j <= a + 1 + b => Three(L, x, R)[j] = IF j <= a THEN L[j]
                            ELSE IF j = a + 1 THEN x ELSE R[j - a - 1]
    BY <2>0, ThreeAt
  <2>4. ~(j <= a + 1) => Three(R, y, Q)[j - a - 1] = IF j - a - 1 <= b THEN R[j - a - 1]
                            ELSE IF j - a - 1 = b + 1 THEN y ELSE Q[j - a - 1 - b - 1]
    <3> SUFFICES ASSUME ~(j <= a + 1) PROVE Three(R, y, Q)[j - a - 1] = IF j - a - 1 <= b THEN R[j - a - 1]
                            ELSE IF j - a - 1 = b + 1 THEN y ELSE Q[j - a - 1 - b - 1]
      OBVIOUS
    <3>1. j - a - 1 \in 1 .. b + 1 + c
      BY <2>0
    <3> QED
      BY <3>1 DEF Three
  <2>5. j - (a + 1 + b) - 1 = j - a - 1 - b - 1
    BY <2>0
  <2> HIDE DEF q, p, a, b, c, n
  <2> QED
    BY <2>0, <2>1, <2>2, <2>3, <2>4, <2>5
<1> HIDE DEF q, p, n
<1>4. q = p
  BY <1>2, <1>3, SameItems
<1> QED
  BY <1>4 DEF q, p

(* The same facts for a leaf that wants just one of them.                  *)
IsItems(q, n) == q \in Seq(Item) /\ Len(q) = n

(* A shift keeps the number of items.                                      *)
LEMMA ShiftItems ==
  ASSUME NEW q \in Seq(Item), NEW d \in Int
  PROVE  IsItems(Shift(q, d), Len(q))
<1>1. Shift(q, d) \in Seq(Item) /\ Len(Shift(q, d)) = Len(q)
  BY ShiftIs
<1> QED
  BY <1>1 DEF IsItems

(* The number of items of two sequences and an item.                       *)
LEMMA ThreeItems ==
  ASSUME NEW L \in Seq(Item), NEW R \in Seq(Item), NEW x \in Item
  PROVE  IsItems(Three(L, x, R), Len(L) + 1 + Len(R))
<1>1. Three(L, x, R) \in Seq(Item) /\ Len(Three(L, x, R)) = Len(L) + 1 + Len(R)
  BY ThreeIs
<1> QED
  BY <1>1 DEF IsItems

(* The blocks of a tree of any height; the shifts of a node count for all  *)
(* that is below it.                                                       *)
Below(f, u) == IF u = Nil THEN <<>>
               ELSE Three(Shift(f[u.left], u.addPos), ItemOf(u), Shift(f[u.right], u.addPos))
Items == CHOOSE f : f = [u \in AllTrees |-> Below(f, u)]
Sq(t) == Items[t]

(* The blocks of a tree are defined by those of its subtrees.              *)
LEMMA ItemsAre == Items = [u \in AllTrees |-> Below(Items, u)]
<1> DEFINE P(f, n) == f = [u \in TreesUpTo[n] |-> Below(f, u)]
           T == {n \in Nat : \E f : P(f, n)}
           A(n) == CHOOSE f : P(f, n)
           at(u) == CHOOSE n \in Nat : u \in TreesUpTo[n]
           F == [u \in AllTrees |-> A(at(u))[u]]
<1>1. \A f, g, u : (u # Nil => f[u.left] = g[u.left] /\ f[u.right] = g[u.right]) => Below(f, u) = Below(g, u)
  BY DEF Below
<1>2. 0 \in T
  <2> DEFINE f == [u \in TreesUpTo[0] |-> Below(<<>>, u)]
  <2>1. P(f, 0)
    BY <1>1, UpToNode
  <2> HIDE DEF f
  <2> QED
    BY <2>1
<1>3. ASSUME NEW n \in Nat, n \in T PROVE n + 1 \in T
  <2>1. PICK f : P(f, n)
    BY <1>3
  <2> DEFINE g == [u \in TreesUpTo[n + 1] |-> Below(f, u)]
  <2>2. P(g, n + 1)
    BY <1>1, <2>1, UpToStep
  <2> HIDE DEF g
  <2> QED
    BY <2>2
<1>4. \A n \in Nat : P(A(n), n)
  <2>1. \A n \in Nat : n \in T
    <3> HIDE DEF T
    <3> QED
      BY <1>2, <1>3, AllOfNat
  <2> TAKE n \in Nat
  <2>2. \E f : P(f, n)
    BY <2>1
  <2> HIDE DEF P
  <2> QED
    BY <2>2
<1> DEFINE S == {u \in AllTrees : \A m, n \in Nat :
                   u \in TreesUpTo[m] /\ u \in TreesUpTo[n] => A(m)[u] = A(n)[u]}
<1>5. \A m \in Nat : \A u \in TreesUpTo[m] : A(m)[u] = Below(A(m), u)
  <2> TAKE m \in Nat
  <2>1. P(A(m), m)
    BY <1>4
  <2> HIDE DEF A
  <2> QED
    BY <2>1
<1> HIDE DEF A, P, T
<1>6. \A m \in Nat : \A u \in TreesUpTo[m] :
         u # Nil => u \in Node(AllTrees) /\ u.left \in TreesUpTo[m] /\ u.right \in TreesUpTo[m]
  <2> TAKE m \in Nat
  <2> TAKE u \in TreesUpTo[m]
  <2> SUFFICES ASSUME u # Nil PROVE u \in Node(AllTrees) /\ u.left \in TreesUpTo[m] /\ u.right \in TreesUpTo[m]
    OBVIOUS
  <2>1. m # 0
    BY UpToNode
  <2>2. m - 1 \in Nat /\ (m - 1) + 1 = m
    BY <2>1
  <2>3. u.left \in TreesUpTo[m] /\ u.right \in TreesUpTo[m]
    BY <2>2, UpToStep
  <2>4. u \in AllTrees
    BY DEF AllTrees
  <2> QED
    BY <2>3, <2>4, AllTreesAre
<1>7. AllTrees \subseteq S
  <2>1. Nil \in S
    <3>1. \A m \in Nat : Nil \in TreesUpTo[m] => A(m)[Nil] = <<>>
      BY <1>5 DEF Below
    <3>2. Nil \in AllTrees
      BY AllTreesAre
    <3> QED
      BY <3>1, <3>2
  <2>2. ASSUME NEW t \in Node(AllTrees), t.left \in S, t.right \in S PROVE t \in S
    <3>1. t \in AllTrees /\ t # Nil
      BY AllTreesAre, NilIsNoNode
    <3>2. ASSUME NEW m \in Nat, NEW n \in Nat, t \in TreesUpTo[m], t \in TreesUpTo[n]
          PROVE  A(m)[t] = A(n)[t]
      <4>1. A(m)[t.left] = A(n)[t.left] /\ A(m)[t.right] = A(n)[t.right]
        BY <1>6, <2>2, <3>1, <3>2
      <4>2. A(m)[t] = Below(A(m), t) /\ A(n)[t] = Below(A(n), t)
        BY <1>5, <3>2
      <4> QED
        BY <1>1, <4>1, <4>2
    <3> QED
      BY <3>1, <3>2
  <2> HIDE DEF S
  <2> QED
    BY <2>1, <2>2, TreeInduction
<1>8. \A u \in AllTrees : at(u) \in Nat /\ u \in TreesUpTo[at(u)]
  BY DEF AllTrees
<1> HIDE DEF at
<1>9. \A n \in Nat : \A u \in TreesUpTo[n] : F[u] = A(n)[u]
  <2> TAKE n \in Nat
  <2> TAKE u \in TreesUpTo[n]
  <2>1. u \in AllTrees
    BY DEF AllTrees
  <2>2. A(at(u))[u] = A(n)[u]
    BY <1>7, <1>8, <2>1
  <2> QED
    BY <2>1, <2>2
<1>10. \A u \in AllTrees : F[u] = Below(F, u)
  <2> TAKE u \in AllTrees
  <2>1. at(u) \in Nat /\ u \in TreesUpTo[at(u)]
    BY <1>8
  <2>2. F[u] = A(at(u))[u]
    OBVIOUS
  <2> HIDE DEF F
  <2>3. u # Nil => A(at(u))[u.left] = F[u.left] /\ A(at(u))[u.right] = F[u.right]
    BY <1>6, <1>9, <2>1
  <2> QED
    BY <1>1, <1>5, <2>1, <2>2, <2>3
<1>11. F = [u \in AllTrees |-> Below(F, u)]
  <2>1. F = [u \in AllTrees |-> F[u]]
    OBVIOUS
  <2> HIDE DEF F
  <2> QED
    BY <1>10, <2>1
<1> HIDE DEF F
<1> QED
  BY <1>11 DEF Items

(* The blocks of a tree by those of its subtrees.                          *)
LEMMA SqIs ==
  /\ Sq(Nil) = <<>>
  /\ \A t \in Node(AllTrees) :
       Sq(t) = Three(Shift(Sq(t.left), t.addPos), ItemOf(t), Shift(Sq(t.right), t.addPos))
<1>1. Nil \in AllTrees
  BY AllTreesAre
<1>2. \A t \in AllTrees : Sq(t) = Below(Items, t)
  BY ItemsAre DEF Sq
<1>3. \A t \in Node(AllTrees) : t \in AllTrees /\ t # Nil
  BY AllTreesAre, NilIsNoNode
<1> QED
  BY <1>1, <1>2, <1>3 DEF Below, Sq

(* The fields of a node.                                                   *)
LEMMA Fields ==
  ASSUME NEW t \in Node(AllTrees)
  PROVE  /\ t # Nil /\ t \in AllTrees /\ t.left \in AllTrees /\ t.right \in AllTrees
         /\ t.addPos \in Int /\ t.elem \in Int /\ t.len \in Int /\ t.numOnes \in Int
         /\ t.mysize \in Int /\ t.height \in Nat /\ t.id \in Nat /\ t.ptr \in Ptrs
         /\ ItemOf(t) \in Item /\ GetStartIndex(t) \in Int
<1>1. t # Nil /\ t \in AllTrees
  BY AllTreesAre, NilIsNoNode
<1>2. GetStartIndex(t) \in Int
  BY DEF Node, GetStartIndex
<1> QED
  BY <1>1, <1>2 DEF Node, ItemOf, Item

(* They are a sequence of blocks.                                          *)
LEMMA SqType ==
  ASSUME NEW t \in AllTrees
  PROVE  Sq(t) \in Seq(Item) /\ Len(Sq(t)) \in Nat
<1> DEFINE S == {u \in AllTrees : Sq(u) \in Seq(Item)}
<1>1. Nil \in S
  BY SqIs, AllTreesAre
<1>2. ASSUME NEW u \in Node(AllTrees), u.left \in S, u.right \in S PROVE u \in S
  <2>1. Shift(Sq(u.left), u.addPos) \in Seq(Item) /\ Shift(Sq(u.right), u.addPos) \in Seq(Item)
    BY <1>2, Fields, ShiftIs
  <2> QED
    BY <2>1, Fields, SqIs, ThreeIs
<1>3. AllTrees \subseteq S
  <2> HIDE DEF S
  <2> QED
    BY <1>1, <1>2, TreeInduction
<1> QED
  BY <1>3, LenProperties

(* The same, item by item.                                                 *)
LEMMA SqNode ==
  ASSUME NEW t \in Node(AllTrees)
  PROVE  /\ Len(Sq(t)) = Len(Sq(t.left)) + 1 + Len(Sq(t.right))
         /\ \A j \in 1 .. Len(Sq(t.left)) : Sq(t)[j] = Moved(Sq(t.left)[j], t.addPos)
         /\ Sq(t)[Len(Sq(t.left)) + 1] = ItemOf(t)
         /\ \A j \in 1 .. Len(Sq(t.right)) :
              Sq(t)[Len(Sq(t.left)) + 1 + j] = Moved(Sq(t.right)[j], t.addPos)
<1> DEFINE L == Sq(t.left)
           R == Sq(t.right)
           a == t.addPos
<1>1. L \in Seq(Item) /\ R \in Seq(Item) /\ Len(L) \in Nat /\ Len(R) \in Nat /\ a \in Int
      /\ ItemOf(t) \in Item
  BY Fields, SqType
<1>2. Sq(t) = Three(Shift(L, a), ItemOf(t), Shift(R, a))
  BY SqIs
<1> HIDE DEF L, R, a
<1>3. Shift(L, a) \in Seq(Item) /\ Shift(R, a) \in Seq(Item)
      /\ Len(Shift(L, a)) = Len(L) /\ Len(Shift(R, a)) = Len(R)
  BY <1>1, ShiftIs
<1> DEFINE A == Shift(L, a)
           B == Shift(R, a)
           y == ItemOf(t)
<1>31. A \in Seq(Item) /\ B \in Seq(Item) /\ y \in Item /\ Sq(t) = Three(A, y, B)
       /\ Len(A) = Len(L) /\ Len(B) = Len(R)
  BY <1>1, <1>2, <1>3
<1> HIDE DEF A, B, y
<1>4. Len(Sq(t)) = Len(L) + 1 + Len(R)
  <2>1. A \in Seq(Item) /\ B \in Seq(Item) /\ y \in Item
    BY <1>31
  <2>2. Len(Three(A, y, B)) = Len(A) + 1 + Len(B)
    BY <2>1, ThreeIs
  <2> QED
    BY <1>31, <2>2
<1>5. \A j \in 1 .. Len(L) + 1 + Len(R) :
         Sq(t)[j] = IF j <= Len(L) THEN Shift(L, a)[j]
                    ELSE IF j = Len(L) + 1 THEN ItemOf(t) ELSE Shift(R, a)[j - Len(L) - 1]
  <2>1. \A j \in 1 .. Len(A) + 1 + Len(B) :
           Sq(t)[j] = IF j <= Len(A) THEN A[j] ELSE IF j = Len(A) + 1 THEN y ELSE B[j - Len(A) - 1]
    BY <1>31 DEF Three
  <2> QED
    BY <1>31, <2>1 DEF A, B, y
<1>6. \A j \in 1 .. Len(L) : Sq(t)[j] = Moved(L[j], a)
  BY <1>1, <1>5, ShiftIs
<1>7. Sq(t)[Len(L) + 1] = ItemOf(t)
  BY <1>1, <1>5
<1>8. ASSUME NEW j \in 1 .. Len(R) PROVE Sq(t)[Len(L) + 1 + j] = Moved(R[j], a)
  <2>1. Len(L) + 1 + j \in 1 .. Len(L) + 1 + Len(R) /\ ~(Len(L) + 1 + j <= Len(L))
        /\ Len(L) + 1 + j # Len(L) + 1 /\ (Len(L) + 1 + j) - Len(L) - 1 = j
    BY <1>1
  <2> QED
    BY <1>1, <1>5, <2>1, ShiftIs
<1> QED
  BY <1>4, <1>6, <1>7, <1>8 DEF L, R, a

(* A tree of few nodes is low.                                             *)
LEMMA FewLow ==
  ASSUME NEW t \in AllTrees, NEW n \in Nat, Len(Sq(t)) <= n
  PROVE  t \in TreesUpTo[n]
<1> DEFINE S == {u \in AllTrees : \A m \in Nat : Len(Sq(u)) <= m => u \in TreesUpTo[m]}
<1>1. Nil \in S
  <2>1. \A m \in Nat : TreesUpTo[0] \subseteq TreesUpTo[m]
    BY UpToMono
  <2> QED
    BY <2>1, UpToNode, AllTreesAre
<1>2. ASSUME NEW u \in Node(AllTrees), u.left \in S, u.right \in S PROVE u \in S
  <2>1. ASSUME NEW m \in Nat, Len(Sq(u)) <= m PROVE u \in TreesUpTo[m]
    <3>1. Len(Sq(u.left)) \in Nat /\ Len(Sq(u.right)) \in Nat
      BY Fields, SqType
    <3>2. m - 1 \in Nat /\ (m - 1) + 1 = m /\ Len(Sq(u.left)) <= m - 1 /\ Len(Sq(u.right)) <= m - 1
      BY <2>1, <3>1, SqNode
    <3>3. u \in Node(TreesUpTo[m - 1])
      BY <1>2, <3>2 DEF Node
    <3> QED
      BY <3>2, <3>3, UpToNode
  <2> QED
    BY <2>1, Fields
<1>3. AllTrees \subseteq S
  <2> HIDE DEF S
  <2> QED
    BY <1>1, <1>2, TreeInduction
<1> QED
  BY <1>3

(***************************************************************************)
(* The walks that list the blocks, and Sq.                                 *)
(***************************************************************************)
LEMMA ConcatThree ==
  ASSUME NEW S, NEW L \in Seq(S), NEW x \in S, NEW R \in Seq(S)
  PROVE  /\ L \o <<x>> \o R \in Seq(S) /\ Len(L \o <<x>> \o R) = Len(L) + 1 + Len(R)
         /\ \A j \in 1 .. Len(L) : (L \o <<x>> \o R)[j] = L[j]
         /\ (L \o <<x>> \o R)[Len(L) + 1] = x
         /\ \A j \in 1 .. Len(R) : (L \o <<x>> \o R)[Len(L) + 1 + j] = R[j]
<1>1. <<x>> \in Seq(S) /\ Len(<<x>>) = 1 /\ <<x>>[1] = x
  OBVIOUS
<1>2. Len(L) \in Nat /\ Len(R) \in Nat
  BY LenProperties
<1>3. /\ L \o <<x>> \in Seq(S) /\ Len(L \o <<x>>) = Len(L) + 1
      /\ \A j \in 1 .. Len(L) + 1 : (L \o <<x>>)[j] = IF j <= Len(L) THEN L[j] ELSE <<x>>[j - Len(L)]
  BY <1>1, ConcatProperties
<1> DEFINE M == L \o <<x>>
<1>4. /\ M \o R \in Seq(S) /\ Len(M \o R) = Len(M) + Len(R)
      /\ \A j \in 1 .. Len(M) + Len(R) : (M \o R)[j] = IF j <= Len(M) THEN M[j] ELSE R[j - Len(M)]
  <2>1. M \in Seq(S)
    BY <1>3
  <2> HIDE DEF M
  <2> QED
    BY <2>1, ConcatProperties
<1>5. \A j \in 1 .. Len(L) : (M \o R)[j] = L[j]
  <2> TAKE j \in 1 .. Len(L)
  <2>1. M[j] = L[j]
    BY <1>2, <1>3
  <2>2. Len(M) = Len(L) + 1
    BY <1>3
  <2> HIDE DEF M
  <2> QED
    BY <1>2, <1>4, <2>1, <2>2
<1>6. (M \o R)[Len(L) + 1] = x
  <2>1. M[Len(L) + 1] = x
    <3>1. M[Len(L) + 1] = <<x>>[(Len(L) + 1) - Len(L)]
      BY <1>2, <1>3
    <3>2. (Len(L) + 1) - Len(L) = 1
      BY <1>2
    <3> QED
      BY <1>1, <3>1, <3>2
  <2>2. Len(M) = Len(L) + 1
    BY <1>3
  <2> HIDE DEF M
  <2> QED
    BY <1>2, <1>4, <2>1, <2>2
<1>7. \A j \in 1 .. Len(R) : (M \o R)[Len(L) + 1 + j] = R[j]
  <2> TAKE j \in 1 .. Len(R)
  <2>2. Len(M) = Len(L) + 1
    BY <1>3
  <2>3. Len(L) + 1 + j \in 1 .. Len(L) + 1 + Len(R) /\ ~(Len(L) + 1 + j <= Len(L) + 1)
        /\ (Len(L) + 1 + j) - (Len(L) + 1) = j
    BY <1>2
  <2> HIDE DEF M
  <2> QED
    BY <1>2, <1>4, <2>2, <2>3
<1>8. M \o R \in Seq(S) /\ Len(M \o R) = Len(L) + 1 + Len(R)
  BY <1>2, <1>3, <1>4
<1> QED
  BY <1>5, <1>6, <1>7, <1>8

BlockRecord == [id : Nat, ptr : Ptrs, len : Int, ones : Int, start : Int]

(* The list of blocks is Sq with the shift that was handed down.           *)
ListAt(u, a) ==
  /\ InOrderFrom(u, a) \in Seq(BlockRecord) /\ Len(InOrderFrom(u, a)) = Len(Sq(u))
  /\ \A j \in 1 .. Len(Sq(u)) : /\ InOrderFrom(u, a)[j].len = Sq(u)[j].len
                                /\ InOrderFrom(u, a)[j].ones = Sq(u)[j].ones
                                /\ InOrderFrom(u, a)[j].start = Sq(u)[j].start + a

(* InOrder lists the blocks of a tree in order.                            *)
LEMMA InOrderItems ==
  ASSUME NEW t \in Trees, NEW a \in Int
  PROVE  ListAt(t, a)
<1> DEFINE S == {u \in AllTrees : u \in Trees => \A b \in Int : ListAt(u, b)}
<1>1. Nil \in S
  <2>1. Nil \in AllTrees /\ Nil \in Trees /\ Sq(Nil) = <<>>
    BY SqIs, AllTreesAre, TreesAre
  <2>2. ASSUME NEW b \in Int PROVE ListAt(Nil, b)
    <3>1. InOrderFrom(Nil, b) = <<>>
      BY <2>1, InOrderFromIs
    <3> QED
      BY <2>1, <3>1 DEF ListAt
  <2> QED
    BY <2>1, <2>2
<1>2. ASSUME NEW u \in Node(AllTrees), u.left \in S, u.right \in S PROVE u \in S
  <2> SUFFICES ASSUME u \in Trees, NEW b \in Int PROVE ListAt(u, b)
    BY Fields
  <2>1. u.left \in Trees /\ u.right \in Trees /\ u # Nil
    BY TreesAre, Fields DEF Node
  <2> DEFINE L == InOrderFrom(u.left, b + u.addPos)
             R == InOrderFrom(u.right, b + u.addPos)
             x == BlockOf(u, b)
             q == InOrderFrom(u, b)
             l == Len(Sq(u.left))
             r == Len(Sq(u.right))
  <2>2. q = L \o <<x>> \o R
    BY <2>1, InOrderFromIs
  <2>3. b + u.addPos \in Int
    BY Fields
  <2>4. ListAt(u.left, b + u.addPos) /\ ListAt(u.right, b + u.addPos)
    BY <1>2, <2>1, <2>3
  <2>5. L \in Seq(BlockRecord) /\ R \in Seq(BlockRecord) /\ Len(L) = l /\ Len(R) = r
        /\ l \in Nat /\ r \in Nat
    BY <2>4, Fields, SqType DEF ListAt
  <2>6. x \in BlockRecord /\ x.len = u.len /\ x.ones = u.numOnes /\ x.start = b + GetStartIndex(u)
    BY Fields DEF BlockOf, BlockRecord
  <2>7. \A j \in 1 .. l : Sq(u.left)[j] \in Item
    BY Fields, SqType, ElementOfSeq
  <2>8. \A j \in 1 .. r : Sq(u.right)[j] \in Item
    BY Fields, SqType, ElementOfSeq
  <2>9. \A j \in 1 .. l : L[j].len = Sq(u.left)[j].len /\ L[j].ones = Sq(u.left)[j].ones
                             /\ L[j].start = Sq(u.left)[j].start + (b + u.addPos)
    BY <2>4 DEF ListAt
  <2>10. \A j \in 1 .. r : R[j].len = Sq(u.right)[j].len /\ R[j].ones = Sq(u.right)[j].ones
                             /\ R[j].start = Sq(u.right)[j].start + (b + u.addPos)
    BY <2>4 DEF ListAt
  <2>11. /\ Len(Sq(u)) = l + 1 + r
         /\ \A j \in 1 .. l : Sq(u)[j] = Moved(Sq(u.left)[j], u.addPos)
         /\ Sq(u)[l + 1] = ItemOf(u)
         /\ \A j \in 1 .. r : Sq(u)[l + 1 + j] = Moved(Sq(u.right)[j], u.addPos)
    BY SqNode
  <2> HIDE DEF L, R, x, q, l, r
  <2>12. /\ q \in Seq(BlockRecord) /\ Len(q) = l + 1 + r
         /\ \A j \in 1 .. l : q[j] = L[j]
         /\ q[l + 1] = x
         /\ \A j \in 1 .. r : q[l + 1 + j] = R[j]
    <3>1. L \in Seq(BlockRecord) /\ R \in Seq(BlockRecord) /\ x \in BlockRecord
      BY <2>5, <2>6
    <3>2. /\ L \o <<x>> \o R \in Seq(BlockRecord) /\ Len(L \o <<x>> \o R) = Len(L) + 1 + Len(R)
          /\ \A j \in 1 .. Len(L) : (L \o <<x>> \o R)[j] = L[j]
          /\ (L \o <<x>> \o R)[Len(L) + 1] = x
          /\ \A j \in 1 .. Len(R) : (L \o <<x>> \o R)[Len(L) + 1 + j] = R[j]
      BY <3>1, ConcatThree
    <3> QED
      BY <2>2, <2>5, <3>2
  <2>13. ASSUME NEW j \in 1 .. l + 1 + r
         PROVE  q[j].len = Sq(u)[j].len /\ q[j].ones = Sq(u)[j].ones /\ q[j].start = Sq(u)[j].start + b
    <3>1. CASE j <= l
      <4>1. j \in 1 .. l
        BY <2>5, <3>1
      <4>2. Sq(u)[j].len = Sq(u.left)[j].len /\ Sq(u)[j].ones = Sq(u.left)[j].ones
            /\ Sq(u)[j].start = Sq(u.left)[j].start + u.addPos /\ Sq(u.left)[j].start \in Int
        <5>1. Sq(u)[j] = Moved(Sq(u.left)[j], u.addPos) /\ Sq(u.left)[j] \in Item
          BY <2>7, <2>11, <4>1
        <5> QED
          BY <5>1 DEF Moved, Item
      <4>3. q[j] = L[j]
        BY <2>12, <4>1
      <4>4. L[j].start = Sq(u.left)[j].start + (b + u.addPos) /\ u.addPos \in Int
            /\ L[j].len = Sq(u.left)[j].len /\ L[j].ones = Sq(u.left)[j].ones
        BY <2>9, <4>1, Fields
      <4> QED
        BY <4>2, <4>3, <4>4
    <3>2. CASE j = l + 1
      BY <2>6, <2>11, <2>12, <3>2, Fields DEF ItemOf
    <3>3. CASE ~(j <= l) /\ j # l + 1
      <4>1. j - (l + 1) \in 1 .. r /\ l + 1 + (j - (l + 1)) = j
        BY <2>5, <3>3
      <4>2. PICK k \in 1 .. r : l + 1 + k = j
        BY <4>1
      <4>3. Sq(u)[j].len = Sq(u.right)[k].len /\ Sq(u)[j].ones = Sq(u.right)[k].ones
            /\ Sq(u)[j].start = Sq(u.right)[k].start + u.addPos /\ Sq(u.right)[k].start \in Int
        <5>1. Sq(u)[j] = Moved(Sq(u.right)[k], u.addPos) /\ Sq(u.right)[k] \in Item
          BY <2>8, <2>11, <4>2
        <5> QED
          BY <5>1 DEF Moved, Item
      <4>4. q[j] = R[k]
        BY <2>12, <4>2
      <4>5. R[k].start = Sq(u.right)[k].start + (b + u.addPos) /\ u.addPos \in Int
            /\ R[k].len = Sq(u.right)[k].len /\ R[k].ones = Sq(u.right)[k].ones
        BY <2>10, Fields
      <4> QED
        BY <4>3, <4>4, <4>5
    <3> QED
      BY <3>1, <3>2, <3>3
  <2> QED
    BY <2>11, <2>12, <2>13 DEF ListAt, q
<1>3. AllTrees \subseteq S
  <2> HIDE DEF S
  <2> QED
    BY <1>1, <1>2, TreeInduction
<1> QED
  BY <1>3, TreesAre

LenOnes == [len : Int, ones : Int]

(* The sequence the tree implements is Sq without the positions.           *)
LEMMA LensAndOnesItems ==
  ASSUME NEW t \in Trees
  PROVE  /\ LensAndOnes(t) \in Seq(LenOnes) /\ Len(LensAndOnes(t)) = Len(Sq(t))
         /\ \A j \in 1 .. Len(Sq(t)) : LensAndOnes(t)[j] = [len |-> Sq(t)[j].len, ones |-> Sq(t)[j].ones]
<1> DEFINE C(u) == /\ LensAndOnes(u) \in Seq(LenOnes) /\ Len(LensAndOnes(u)) = Len(Sq(u))
                   /\ \A j \in 1 .. Len(Sq(u)) : LensAndOnes(u)[j] = [len |-> Sq(u)[j].len, ones |-> Sq(u)[j].ones]
           S == {u \in AllTrees : u \in Trees => C(u)}
<1>1. Nil \in S
  <2>1. Nil \in AllTrees /\ Nil \in Trees /\ Sq(Nil) = <<>>
    BY SqIs, AllTreesAre, TreesAre
  <2>2. LensAndOnes(Nil) = <<>>
    BY <2>1, LensAndOnesIs
  <2> QED
    BY <2>1, <2>2
<1>2. ASSUME NEW u \in Node(AllTrees), u.left \in S, u.right \in S PROVE u \in S
  <2> SUFFICES ASSUME u \in Trees PROVE C(u)
    BY Fields
  <2>1. u.left \in Trees /\ u.right \in Trees /\ u # Nil
    BY TreesAre, Fields DEF Node
  <2>2. C(u.left) /\ C(u.right)
    BY <1>2, <2>1
  <2> DEFINE L == LensAndOnes(u.left)
             R == LensAndOnes(u.right)
             x == [len |-> u.len, ones |-> u.numOnes]
             q == LensAndOnes(u)
             l == Len(Sq(u.left))
             r == Len(Sq(u.right))
  <2>3. q = L \o <<x>> \o R
    BY <2>1, LensAndOnesIs
  <2>4. L \in Seq(LenOnes) /\ R \in Seq(LenOnes) /\ Len(L) = l /\ Len(R) = r
        /\ l \in Nat /\ r \in Nat /\ x \in LenOnes
    BY <2>2, Fields, SqType DEF LenOnes
  <2>5. /\ \A j \in 1 .. l : L[j] = [len |-> Sq(u.left)[j].len, ones |-> Sq(u.left)[j].ones]
        /\ \A j \in 1 .. r : R[j] = [len |-> Sq(u.right)[j].len, ones |-> Sq(u.right)[j].ones]
    BY <2>2
  <2>6. /\ Len(Sq(u)) = l + 1 + r
        /\ \A j \in 1 .. l : Sq(u)[j] = Moved(Sq(u.left)[j], u.addPos)
        /\ Sq(u)[l + 1] = ItemOf(u)
        /\ \A j \in 1 .. r : Sq(u)[l + 1 + j] = Moved(Sq(u.right)[j], u.addPos)
    BY SqNode
  <2> HIDE DEF L, R, q, l, r
  <2>7. /\ q \in Seq(LenOnes) /\ Len(q) = l + 1 + r
        /\ \A j \in 1 .. l : q[j] = L[j]
        /\ q[l + 1] = x
        /\ \A j \in 1 .. r : q[l + 1 + j] = R[j]
    <3> HIDE DEF x
    <3> QED
      <4>1. L \in Seq(LenOnes) /\ R \in Seq(LenOnes) /\ x \in LenOnes
        BY <2>4
      <4>2. /\ L \o <<x>> \o R \in Seq(LenOnes) /\ Len(L \o <<x>> \o R) = Len(L) + 1 + Len(R)
            /\ \A j \in 1 .. Len(L) : (L \o <<x>> \o R)[j] = L[j]
            /\ (L \o <<x>> \o R)[Len(L) + 1] = x
            /\ \A j \in 1 .. Len(R) : (L \o <<x>> \o R)[Len(L) + 1 + j] = R[j]
        BY <4>1, ConcatThree
      <4> QED
        BY <2>3, <2>4, <4>2
  <2>8. ASSUME NEW j \in 1 .. l + 1 + r
        PROVE  q[j] = [len |-> Sq(u)[j].len, ones |-> Sq(u)[j].ones]
    <3>1. CASE j <= l
      <4>1. j \in 1 .. l
        BY <2>4, <3>1
      <4>2. q[j] = L[j] /\ L[j] = [len |-> Sq(u.left)[j].len, ones |-> Sq(u.left)[j].ones]
        BY <2>5, <2>7, <4>1
      <4>3. Sq(u)[j].len = Sq(u.left)[j].len /\ Sq(u)[j].ones = Sq(u.left)[j].ones
        <5>1. Sq(u)[j] = Moved(Sq(u.left)[j], u.addPos)
          BY <2>6, <4>1
        <5> QED
          BY <5>1 DEF Moved
      <4> QED
        BY <4>2, <4>3
    <3>2. CASE j = l + 1
      BY <2>6, <2>7, <3>2 DEF ItemOf
    <3>3. CASE ~(j <= l) /\ j # l + 1
      <4>1. j - (l + 1) \in 1 .. r /\ l + 1 + (j - (l + 1)) = j
        BY <2>4, <3>3
      <4>2. PICK k \in 1 .. r : l + 1 + k = j
        BY <4>1
      <4>3. q[j] = R[k] /\ R[k] = [len |-> Sq(u.right)[k].len, ones |-> Sq(u.right)[k].ones]
        BY <2>5, <2>7, <4>2
      <4>4. Sq(u)[j].len = Sq(u.right)[k].len /\ Sq(u)[j].ones = Sq(u.right)[k].ones
        <5>1. Sq(u)[j] = Moved(Sq(u.right)[k], u.addPos)
          BY <2>6, <4>2
        <5> QED
          BY <5>1 DEF Moved
      <4> QED
        BY <4>3, <4>4
    <3> QED
      BY <3>1, <3>2, <3>3
  <2> QED
    BY <2>6, <2>7, <2>8 DEF q
<1>3. AllTrees \subseteq S
  <2> HIDE DEF S
  <2> QED
    BY <1>1, <1>2, TreeInduction
<1> QED
  BY <1>3, TreesAre

(***************************************************************************)
(* Shifts and rotations keep the blocks; mysize is the sum of the ones.    *)
(***************************************************************************)
SumRight(u) == u.mysize = u.numOnes + MySize(u.left) + MySize(u.right)

(* The trees in which mysize is right at every node.                       *)
Summed == {t \in AllTrees : \E S \in SUBSET AllTrees :
             t \in S /\ \A u \in S : u # Nil => u.left \in S /\ u.right \in S /\ SumRight(u)}

(* mysize is right in a tree when it is in both subtrees and at the root.  *)
LEMMA SummedIs ==
  /\ Nil \in Summed
  /\ \A t \in Node(AllTrees) :
       t \in Summed <=> t.left \in Summed /\ t.right \in Summed /\ SumRight(t)
<1> DEFINE Closed(S) == \A u \in S : u # Nil => u.left \in S /\ u.right \in S /\ SumRight(u)
<1>1. Nil \in Summed
  <2>1. {Nil} \in SUBSET AllTrees /\ Closed({Nil}) /\ Nil \in {Nil}
    BY AllTreesAre
  <2> HIDE DEF Closed
  <2>2. \E S \in SUBSET AllTrees : Nil \in S /\ Closed(S)
    BY <2>1
  <2> QED
    BY <2>2, AllTreesAre DEF Summed, Closed
<1>2. ASSUME NEW t \in Node(AllTrees), t \in Summed
      PROVE  t.left \in Summed /\ t.right \in Summed /\ SumRight(t)
  <2>1. PICK S \in SUBSET AllTrees : t \in S /\ Closed(S)
    BY <1>2 DEF Summed
  <2>2. t.left \in S /\ t.right \in S /\ SumRight(t)
    BY <2>1, Fields
  <2> QED
    BY <2>1, <2>2 DEF Summed
<1>3. ASSUME NEW t \in Node(AllTrees), t.left \in Summed, t.right \in Summed, SumRight(t)
      PROVE  t \in Summed
  <2>1. PICK S \in SUBSET AllTrees : t.left \in S /\ Closed(S)
    BY <1>3 DEF Summed
  <2>2. PICK R \in SUBSET AllTrees : t.right \in R /\ Closed(R)
    BY <1>3 DEF Summed
  <2> DEFINE U == {t} \cup S \cup R
  <2>3. U \in SUBSET AllTrees /\ t \in U
    BY Fields
  <2>4. Closed(U)
    BY <1>3, <2>1, <2>2
  <2>5. t \in AllTrees
    BY Fields
  <2> HIDE DEF U, Closed
  <2>6. \E W \in SUBSET AllTrees : t \in W /\ Closed(W)
    BY <2>3, <2>4
  <2> QED
    BY <2>5, <2>6 DEF Summed, Closed
<1> QED
  BY <1>1, <1>2, <1>3

(* The size and height of a tree are integers.                             *)
LEMMA Sizes ==
  ASSUME NEW t \in AllTrees
  PROVE  MySize(t) \in Int /\ Height(t) \in Int /\ Height(t) >= -1 /\ (t # Nil => t \in Node(AllTrees))
<1>1. t # Nil => t \in Node(AllTrees)
  BY AllTreesAre
<1>2. t # Nil => t.mysize \in Int /\ t.height \in Nat
  BY <1>1, Fields
<1> QED
  BY <1>1, <1>2 DEF MySize, Height

(* A pending shift of a tree shifts its blocks, and touches nothing else.  *)
LEMMA AddPosIs ==
  ASSUME NEW t \in AllTrees, NEW d \in Int
  PROVE  /\ AddPos(t, d) \in AllTrees /\ Sq(AddPos(t, d)) = Shift(Sq(t), d)
         /\ MySize(AddPos(t, d)) = MySize(t) /\ Height(AddPos(t, d)) = Height(t)
         /\ (AddPos(t, d) = Nil <=> t = Nil)
         /\ (t \in Summed => AddPos(t, d) \in Summed)
<1>1. CASE t = Nil
  <2>1. AddPos(t, d) = Nil
    BY <1>1 DEF AddPos
  <2>2. Shift(<<>>, d) = <<>>
    BY DEF Shift
  <2> QED
    BY <1>1, <2>1, <2>2, SqIs
<1>2. CASE t # Nil
  <2>1. t \in Node(AllTrees)
    BY <1>2, Sizes
  <2> DEFINE u == [t EXCEPT !.addPos = @ + d]
  <2>2. AddPos(t, d) = u
    BY <1>2 DEF AddPos
  <2>3. /\ u \in Node(AllTrees) /\ u.left = t.left /\ u.right = t.right /\ u.addPos = t.addPos + d
        /\ u.elem = t.elem /\ u.len = t.len /\ u.numOnes = t.numOnes /\ u.mysize = t.mysize
        /\ u.height = t.height
    BY <2>1 DEF Node
  <2> HIDE DEF u
  <2>4. ItemOf(u) = Moved(ItemOf(t), d)
    <3>1. t.elem \in Int /\ t.addPos \in Int
      BY <2>1, Fields
    <3> QED
      BY <2>3, <3>1 DEF ItemOf, Moved, GetStartIndex
  <2>5. Sq(t.left) \in Seq(Item) /\ Sq(t.right) \in Seq(Item) /\ t.addPos \in Int /\ ItemOf(t) \in Item
    BY <2>1, Fields, SqType
  <2>6. Sq(u) = Shift(Sq(t), d)
    <3>1. Sq(u) = Three(Shift(Sq(t.left), t.addPos + d), Moved(ItemOf(t), d), Shift(Sq(t.right), t.addPos + d))
      BY <2>3, <2>4, SqIs
    <3>2. Sq(t) = Three(Shift(Sq(t.left), t.addPos), ItemOf(t), Shift(Sq(t.right), t.addPos))
      BY <2>1, SqIs
    <3>3. Shift(Sq(t.left), t.addPos) \in Seq(Item) /\ Shift(Sq(t.right), t.addPos) \in Seq(Item)
      BY <2>5, ShiftIs
    <3>4. Shift(Sq(t), d) = Three(Shift(Shift(Sq(t.left), t.addPos), d), Moved(ItemOf(t), d),
                                  Shift(Shift(Sq(t.right), t.addPos), d))
      BY <2>5, <3>2, <3>3, ShiftThree
    <3> QED
      BY <2>5, <3>1, <3>4, ShiftTwice
  <2>7. t \in Summed => u \in Summed
    BY <2>1, <2>3, SummedIs DEF SumRight
  <2>8. u # Nil /\ u \in AllTrees
    BY <2>3, Fields
  <2> QED
    BY <1>2, <2>2, <2>3, <2>6, <2>7, <2>8 DEF MySize, Height
<1> QED
  BY <1>1, <1>2

(* A node whose pending shift is 0 is just what is left and right of it.   *)
LEMMA SqFlat ==
  ASSUME NEW t \in Node(AllTrees), t.addPos = 0
  PROVE  Sq(t) = Three(Sq(t.left), ItemOf(t), Sq(t.right))
<1>1. Sq(t.left) \in Seq(Item) /\ Sq(t.right) \in Seq(Item)
  BY Fields, SqType
<1>2. Shift(Sq(t.left), 0) = Sq(t.left) /\ Shift(Sq(t.right), 0) = Sq(t.right)
  BY <1>1, ShiftTwice
<1> QED
  BY <1>2, SqIs

(* Handing the pending shift down to the children leaves every block       *)
(* where it is.                                                            *)
LEMMA PropagateIs ==
  ASSUME NEW t \in Node(AllTrees)
  PROVE  LET u == PropagateAddPos(t)
         IN  /\ u \in Node(AllTrees) /\ u.addPos = 0 /\ Sq(u) = Sq(t)
             /\ ItemOf(u) = ItemOf(t)
             /\ Sq(u.left) = Shift(Sq(t.left), t.addPos) /\ Sq(u.right) = Shift(Sq(t.right), t.addPos)
             /\ MySize(u.left) = MySize(t.left) /\ MySize(u.right) = MySize(t.right)
             /\ Height(u.left) = Height(t.left) /\ Height(u.right) = Height(t.right)
             /\ (u.left = Nil <=> t.left = Nil) /\ (u.right = Nil <=> t.right = Nil)
             /\ u.mysize = t.mysize /\ u.numOnes = t.numOnes /\ u.len = t.len /\ u.height = t.height
             /\ u.elem = GetStartIndex(t)
             /\ (t.left \in Summed => u.left \in Summed) /\ (t.right \in Summed => u.right \in Summed)
             /\ (t \in Summed => u \in Summed)
<1> DEFINE u == PropagateAddPos(t)
           l == AddPos(t.left, t.addPos)
           r == AddPos(t.right, t.addPos)
<1>1. t.left \in AllTrees /\ t.right \in AllTrees /\ t.addPos \in Int /\ t.elem \in Int
  BY Fields
<1>2. /\ l \in AllTrees /\ Sq(l) = Shift(Sq(t.left), t.addPos) /\ MySize(l) = MySize(t.left)
      /\ Height(l) = Height(t.left) /\ (l = Nil <=> t.left = Nil) /\ (t.left \in Summed => l \in Summed)
  BY <1>1, AddPosIs
<1>3. /\ r \in AllTrees /\ Sq(r) = Shift(Sq(t.right), t.addPos) /\ MySize(r) = MySize(t.right)
      /\ Height(r) = Height(t.right) /\ (r = Nil <=> t.right = Nil) /\ (t.right \in Summed => r \in Summed)
  BY <1>1, AddPosIs
<1> HIDE DEF l, r
<1>4. /\ u \in Node(AllTrees) /\ u.left = l /\ u.right = r /\ u.addPos = 0
      /\ u.elem = t.elem + t.addPos /\ u.len = t.len /\ u.numOnes = t.numOnes /\ u.mysize = t.mysize
      /\ u.height = t.height
  <2>1. u = [t EXCEPT !.elem = t.elem + t.addPos, !.left = l, !.right = r, !.addPos = 0]
    BY DEF PropagateAddPos, l, r
  <2>2. l \in AllTrees /\ r \in AllTrees /\ t.elem + t.addPos \in Int
    BY <1>1, <1>2, <1>3
  <2> HIDE DEF u
  <2>3. u \in Node(AllTrees)
    <3> DEFINE e == t.elem + t.addPos
               z == [t EXCEPT !.elem = e]
               v == [z EXCEPT !.addPos = 0]
               w == [v EXCEPT !.left = l]
    <3>1. e \in Int /\ u = [t EXCEPT !.elem = e, !.left = l, !.right = r, !.addPos = 0]
      BY <2>1, <2>2
    <3> HIDE DEF e
    <3>2. v \in Node(AllTrees)
      <4>1. e \in Int
        BY <3>1
      <4>2. z \in Node(AllTrees)
        BY <4>1 DEF Node
      <4> HIDE DEF z
      <4> QED
        BY <4>2 DEF Node
    <3>3. u = [w EXCEPT !.right = r]
      BY <3>1 DEF Node
    <3> HIDE DEF v
    <3>4. w \in Node(AllTrees)
      BY <2>2, <3>2 DEF Node
    <3> HIDE DEF w
    <3> QED
      BY <2>2, <3>3, <3>4 DEF Node
  <2>4. u.left = l /\ u.right = r /\ u.addPos = 0 /\ u.elem = t.elem + t.addPos
    BY <2>1 DEF Node
  <2>5. u.len = t.len /\ u.numOnes = t.numOnes /\ u.mysize = t.mysize /\ u.height = t.height
    BY <2>1 DEF Node
  <2> QED
    BY <2>3, <2>4, <2>5
<1> HIDE DEF u
<1>5. ItemOf(u) = ItemOf(t)
  BY <1>1, <1>4 DEF ItemOf, GetStartIndex
<1>6. Sq(u) = Sq(t)
  BY <1>2, <1>3, <1>4, <1>5, SqIs, SqFlat
<1>7. t \in Summed => u \in Summed
  BY <1>2, <1>3, <1>4, SummedIs DEF SumRight
<1> QED
  BY <1>2, <1>3, <1>4, <1>5, <1>6, <1>7 DEF u, GetStartIndex

(* Computing height and mysize of a node anew makes its sum right.         *)
LEMMA RecomputeIs ==
  ASSUME NEW t \in Node(AllTrees)
  PROVE  LET u == Recompute(t)
         IN  /\ u \in Node(AllTrees) /\ Sq(u) = Sq(t) /\ ItemOf(u) = ItemOf(t)
             /\ u.left = t.left /\ u.right = t.right /\ u.addPos = t.addPos
             /\ SumRight(u)
             /\ (t.left \in Summed /\ t.right \in Summed => u \in Summed)
<1> DEFINE h == 1 + (IF Height(t.left) > Height(t.right) THEN Height(t.left) ELSE Height(t.right))
           s == t.numOnes + MySize(t.left) + MySize(t.right)
           u == Recompute(t)
<1>1. h \in Nat /\ s \in Int
  <2>1. /\ Height(t.left) \in Int /\ Height(t.left) >= -1 /\ MySize(t.left) \in Int
        /\ Height(t.right) \in Int /\ Height(t.right) >= -1 /\ MySize(t.right) \in Int
    BY Fields, Sizes
  <2> QED
    BY <2>1, Fields
<1>2. u = [t EXCEPT !.height = h, !.mysize = s]
  BY DEF Recompute
<1> HIDE DEF h, u
<1>3. /\ u \in Node(AllTrees) /\ u.left = t.left /\ u.right = t.right /\ u.addPos = t.addPos
      /\ u.elem = t.elem /\ u.len = t.len /\ u.numOnes = t.numOnes /\ u.mysize = s
  <2> HIDE DEF s
  <2> QED
    BY <1>1, <1>2 DEF Node
<1>4. ItemOf(u) = ItemOf(t)
  BY <1>3 DEF ItemOf, GetStartIndex
<1>5. Sq(u) = Sq(t)
  BY <1>3, <1>4, SqIs
<1>6. SumRight(u)
  BY <1>3 DEF SumRight
<1> QED
  BY <1>3, <1>4, <1>5, <1>6, SummedIs DEF u

(* A rotation keeps the blocks, and makes the sums of both its nodes anew. *)
LEMMA LeftRotateIs ==
  ASSUME NEW t \in Node(AllTrees), t.left # Nil
  PROVE  LET u == LeftRotate(t)
         IN  /\ u \in Node(AllTrees) /\ Sq(u) = Sq(t)
             /\ (t.left \in Summed /\ t.right \in Summed => u \in Summed)
<1> DEFINE k2 == PropagateAddPos(t)
           k1 == PropagateAddPos(k2.left)
           m  == [k2 EXCEPT !.left = k1.right]
           rm == Recompute(m)
           k  == [k1 EXCEPT !.right = rm]
<1>1. LeftRotate(t) = Recompute(k)
  BY DEF LeftRotate
<1>2. /\ k2 \in Node(AllTrees) /\ k2.addPos = 0 /\ Sq(k2) = Sq(t) /\ k2.left # Nil
      /\ (t.left \in Summed => k2.left \in Summed) /\ (t.right \in Summed => k2.right \in Summed)
  BY PropagateIs
<1> HIDE DEF k2
<1>3. k2.left \in Node(AllTrees)
  BY <1>2, Fields, Sizes
<1>4. /\ k1 \in Node(AllTrees) /\ k1.addPos = 0 /\ Sq(k1) = Sq(k2.left)
      /\ (k2.left \in Summed => k1.left \in Summed /\ k1.right \in Summed)
  BY <1>3, PropagateIs, SummedIs
<1> HIDE DEF k1
<1>5. /\ m \in Node(AllTrees) /\ m.left = k1.right /\ m.right = k2.right /\ m.addPos = 0
      /\ m.elem = k2.elem /\ m.len = k2.len /\ m.numOnes = k2.numOnes
  BY <1>2, <1>4 DEF Node
<1> HIDE DEF m
<1>6. /\ rm \in Node(AllTrees) /\ Sq(rm) = Sq(m) /\ (m.left \in Summed /\ m.right \in Summed => rm \in Summed)
  BY <1>5, RecomputeIs
<1> HIDE DEF rm
<1>7. /\ k \in Node(AllTrees) /\ k.left = k1.left /\ k.right = rm /\ k.addPos = 0
      /\ k.elem = k1.elem /\ k.len = k1.len /\ k.numOnes = k1.numOnes
  <2>1. rm \in AllTrees
    BY <1>6, Fields
  <2> QED
    BY <1>4, <2>1 DEF Node
<1> HIDE DEF k
<1>8. ItemOf(m) = ItemOf(k2) /\ ItemOf(k) = ItemOf(k1)
  BY <1>2, <1>4, <1>5, <1>7 DEF ItemOf, GetStartIndex
<1>9. Sq(k2) = Three(Sq(k2.left), ItemOf(k2), Sq(k2.right))
  BY <1>2, SqFlat
<1>10. Sq(k1) = Three(Sq(k1.left), ItemOf(k1), Sq(k1.right))
  BY <1>4, SqFlat
<1>11. Sq(m) = Three(Sq(k1.right), ItemOf(k2), Sq(k2.right))
  BY <1>5, <1>8, SqFlat
<1>12. Sq(k) = Three(Sq(k1.left), ItemOf(k1), Sq(m))
  BY <1>6, <1>7, <1>8, SqFlat
<1>13. /\ Sq(k1.left) \in Seq(Item) /\ Sq(k1.right) \in Seq(Item) /\ Sq(k2.right) \in Seq(Item)
       /\ ItemOf(k1) \in Item /\ ItemOf(k2) \in Item
  BY <1>2, <1>4, Fields, SqType
<1>14. Sq(k) = Sq(t)
  BY <1>2, <1>4, <1>9, <1>10, <1>11, <1>12, <1>13, ThreeAssoc
<1> QED
  BY <1>1, <1>2, <1>4, <1>5, <1>6, <1>7, <1>14, RecomputeIs

(* The mirror image.                                                       *)
LEMMA RightRotateIs ==
  ASSUME NEW t \in Node(AllTrees), t.right # Nil
  PROVE  LET u == RightRotate(t)
         IN  /\ u \in Node(AllTrees) /\ Sq(u) = Sq(t)
             /\ (t.left \in Summed /\ t.right \in Summed => u \in Summed)
<1> DEFINE k2 == PropagateAddPos(t)
           k1 == PropagateAddPos(k2.right)
           m  == [k2 EXCEPT !.right = k1.left]
           rm == Recompute(m)
           k  == [k1 EXCEPT !.left = rm]
<1>1. RightRotate(t) = Recompute(k)
  BY DEF RightRotate
<1>2. /\ k2 \in Node(AllTrees) /\ k2.addPos = 0 /\ Sq(k2) = Sq(t) /\ k2.right # Nil
      /\ (t.left \in Summed => k2.left \in Summed) /\ (t.right \in Summed => k2.right \in Summed)
  BY PropagateIs
<1> HIDE DEF k2
<1>3. k2.right \in Node(AllTrees)
  BY <1>2, Fields, Sizes
<1>4. /\ k1 \in Node(AllTrees) /\ k1.addPos = 0 /\ Sq(k1) = Sq(k2.right)
      /\ (k2.right \in Summed => k1.left \in Summed /\ k1.right \in Summed)
  BY <1>3, PropagateIs, SummedIs
<1> HIDE DEF k1
<1>5. /\ m \in Node(AllTrees) /\ m.right = k1.left /\ m.left = k2.left /\ m.addPos = 0
      /\ m.elem = k2.elem /\ m.len = k2.len /\ m.numOnes = k2.numOnes
  BY <1>2, <1>4 DEF Node
<1> HIDE DEF m
<1>6. /\ rm \in Node(AllTrees) /\ Sq(rm) = Sq(m) /\ (m.left \in Summed /\ m.right \in Summed => rm \in Summed)
  BY <1>5, RecomputeIs
<1> HIDE DEF rm
<1>7. /\ k \in Node(AllTrees) /\ k.right = k1.right /\ k.left = rm /\ k.addPos = 0
      /\ k.elem = k1.elem /\ k.len = k1.len /\ k.numOnes = k1.numOnes
  <2>1. rm \in AllTrees
    BY <1>6, Fields
  <2> QED
    BY <1>4, <2>1 DEF Node
<1> HIDE DEF k
<1>8. ItemOf(m) = ItemOf(k2) /\ ItemOf(k) = ItemOf(k1)
  BY <1>2, <1>4, <1>5, <1>7 DEF ItemOf, GetStartIndex
<1>9. Sq(k2) = Three(Sq(k2.left), ItemOf(k2), Sq(k2.right))
  BY <1>2, SqFlat
<1>10. Sq(k1) = Three(Sq(k1.left), ItemOf(k1), Sq(k1.right))
  BY <1>4, SqFlat
<1>11. Sq(m) = Three(Sq(k2.left), ItemOf(k2), Sq(k1.left))
  BY <1>5, <1>8, SqFlat
<1>12. Sq(k) = Three(Sq(m), ItemOf(k1), Sq(k1.right))
  BY <1>6, <1>7, <1>8, SqFlat
<1>13. /\ Sq(k1.left) \in Seq(Item) /\ Sq(k1.right) \in Seq(Item) /\ Sq(k2.left) \in Seq(Item)
       /\ ItemOf(k1) \in Item /\ ItemOf(k2) \in Item
  BY <1>2, <1>4, Fields, SqType
<1>14. Sq(k) = Sq(t)
  BY <1>2, <1>4, <1>9, <1>10, <1>11, <1>12, <1>13, ThreeAssoc
<1> QED
  BY <1>1, <1>2, <1>4, <1>5, <1>6, <1>7, <1>14, RecomputeIs

(* So does rebalance at one node, whatever its own sum was before.         *)
LEMMA RebalanceIs ==
  ASSUME NEW t \in Node(AllTrees)
  PROVE  LET u == Rebalance(t)
         IN  /\ u \in Node(AllTrees) /\ Sq(u) = Sq(t)
             /\ (t.left \in Summed /\ t.right \in Summed => u \in Summed)
<1> DEFINE l == t.left
           r == t.right
           l2 == IF Height(l.right) > Height(l.left) THEN RightRotate(l) ELSE l
           r2 == IF Height(r.left) > Height(r.right) THEN LeftRotate(r) ELSE r
           tl == [t EXCEPT !.left = l2]
           tr == [t EXCEPT !.right = r2]
           balance == Height(r) - Height(l)
<1>1. Rebalance(t) = IF balance < -1 THEN Recompute(LeftRotate(tl))
                     ELSE IF balance > 1 THEN Recompute(RightRotate(tr)) ELSE Recompute(t)
  BY DEF Rebalance
<1>2. /\ l \in AllTrees /\ r \in AllTrees /\ Height(l) \in Int /\ Height(r) \in Int
      /\ Height(l) >= -1 /\ Height(r) >= -1
  BY Fields, Sizes
<1>3. (balance < -1 => l # Nil) /\ (balance > 1 => r # Nil)
  BY <1>2 DEF Height
<1>4. ASSUME balance < -1
      PROVE  /\ LeftRotate(tl) \in Node(AllTrees) /\ Sq(LeftRotate(tl)) = Sq(t)
             /\ (l \in Summed /\ r \in Summed => LeftRotate(tl) \in Summed)
  <2>1. l \in Node(AllTrees)
    BY <1>2, <1>3, <1>4, Sizes
  <2>2. Height(l.right) > Height(l.left) => l.right # Nil
    <3>1. Height(l.left) >= -1 /\ Height(l.left) \in Int
      BY <2>1, Fields, Sizes
    <3> QED
      BY <3>1 DEF Height
  <2>3. l2 \in Node(AllTrees) /\ Sq(l2) = Sq(l) /\ (l \in Summed => l2 \in Summed)
    BY <2>1, <2>2, RightRotateIs, SummedIs
  <2> HIDE DEF l2
  <2>4. /\ tl \in Node(AllTrees) /\ tl.left = l2 /\ tl.right = r /\ tl.addPos = t.addPos
        /\ tl.elem = t.elem /\ tl.len = t.len /\ tl.numOnes = t.numOnes
    <3>1. l2 \in AllTrees
      BY <2>3, Fields
    <3> QED
      BY <3>1 DEF Node
  <2> HIDE DEF tl
  <2>5. ItemOf(tl) = ItemOf(t)
    BY <2>4 DEF ItemOf, GetStartIndex
  <2>6. Sq(tl) = Sq(t)
    BY <2>3, <2>4, <2>5, SqIs
  <2>7. tl.left # Nil
    BY <2>3, <2>4, Fields
  <2> QED
    BY <2>3, <2>4, <2>6, <2>7, LeftRotateIs
<1>5. ASSUME balance > 1
      PROVE  /\ RightRotate(tr) \in Node(AllTrees) /\ Sq(RightRotate(tr)) = Sq(t)
             /\ (l \in Summed /\ r \in Summed => RightRotate(tr) \in Summed)
  <2>1. r \in Node(AllTrees)
    BY <1>2, <1>3, <1>5, Sizes
  <2>2. Height(r.left) > Height(r.right) => r.left # Nil
    <3>1. Height(r.right) >= -1 /\ Height(r.right) \in Int
      BY <2>1, Fields, Sizes
    <3> QED
      BY <3>1 DEF Height
  <2>3. r2 \in Node(AllTrees) /\ Sq(r2) = Sq(r) /\ (r \in Summed => r2 \in Summed)
    BY <2>1, <2>2, LeftRotateIs, SummedIs
  <2> HIDE DEF r2
  <2>4. /\ tr \in Node(AllTrees) /\ tr.left = l /\ tr.right = r2 /\ tr.addPos = t.addPos
        /\ tr.elem = t.elem /\ tr.len = t.len /\ tr.numOnes = t.numOnes
    <3>1. r2 \in AllTrees
      BY <2>3, Fields
    <3> QED
      BY <3>1 DEF Node
  <2> HIDE DEF tr
  <2>5. ItemOf(tr) = ItemOf(t)
    BY <2>4 DEF ItemOf, GetStartIndex
  <2>6. Sq(tr) = Sq(t)
    BY <2>3, <2>4, <2>5, SqIs
  <2>7. tr.right # Nil
    BY <2>3, <2>4, Fields
  <2> QED
    BY <2>3, <2>4, <2>6, <2>7, RightRotateIs
<1>6. CASE balance < -1
  <2>1. l \in Summed /\ r \in Summed => LeftRotate(tl).left \in Summed /\ LeftRotate(tl).right \in Summed
    BY <1>4, <1>6, SummedIs
  <2> HIDE DEF tl, tr
  <2>2. Rebalance(t) = Recompute(LeftRotate(tl))
    BY <1>1, <1>6
  <2> QED
    BY <1>4, <1>6, <2>1, <2>2, RecomputeIs
<1>7. CASE balance > 1
  <2>1. l \in Summed /\ r \in Summed => RightRotate(tr).left \in Summed /\ RightRotate(tr).right \in Summed
    BY <1>5, <1>7, SummedIs
  <2> HIDE DEF tl, tr
  <2>2. Rebalance(t) = Recompute(RightRotate(tr))
    <3>1. ~(balance < -1)
      BY <1>2, <1>7
    <3> HIDE DEF balance
    <3> QED
      BY <1>1, <1>7, <3>1
  <2> QED
    BY <1>5, <1>7, <2>1, <2>2, RecomputeIs
<1>8. CASE ~(balance < -1) /\ ~(balance > 1)
  BY <1>1, <1>8, RecomputeIs
<1> QED
  BY <1>6, <1>7, <1>8

(***************************************************************************)
(* m items from place i on give way to those of w, and the ones behind     *)
(* them move by d: what each walk does to the blocks of a tree.            *)
(***************************************************************************)
Put(q, i, m, w, d) ==
  [j \in 1 .. Len(q) - m + Len(w) |->
     IF j < i THEN q[j] ELSE IF j < i + Len(w) THEN w[j - i + 1] ELSE Moved(q[j - Len(w) + m], d)]

(* The items before place i stay, those of w follow, then those behind,    *)
(* moved by d.                                                             *)
LEMMA PutIs ==
  ASSUME NEW q \in Seq(Item), NEW m \in Nat, NEW i \in 1 .. Len(q) + 1 - m, NEW w \in Seq(Item),
         NEW d \in Int
  PROVE  /\ Put(q, i, m, w, d) \in Seq(Item) /\ Len(Put(q, i, m, w, d)) = Len(q) - m + Len(w)
         /\ \A j \in 1 .. i - 1 : Put(q, i, m, w, d)[j] = q[j]
         /\ \A j \in 1 .. Len(w) : Put(q, i, m, w, d)[i + j - 1] = w[j]
         /\ \A j \in i + m .. Len(q) : Put(q, i, m, w, d)[j - m + Len(w)] = Moved(q[j], d)
         /\ \A j \in 1 .. Len(q) - m + Len(w) : Put(q, i, m, w, d)[j] =
              IF j < i THEN q[j] ELSE IF j < i + Len(w) THEN w[j - i + 1] ELSE Moved(q[j - Len(w) + m], d)
<1> DEFINE n == Len(q) - m + Len(w)
           p == Put(q, i, m, w, d)
<1>1. /\ Len(q) \in Nat /\ Len(w) \in Nat /\ i \in Nat /\ i >= 1 /\ i + m <= Len(q) + 1 /\ n \in Nat
      /\ \A j \in 1 .. Len(q) : q[j] \in Item /\ Moved(q[j], d) \in Item
      /\ \A j \in 1 .. Len(w) : w[j] \in Item
  <2>1. Len(q) \in Nat /\ Len(w) \in Nat
    BY LenProperties
  <2>2. \A j \in 1 .. Len(w) : w[j] \in Item
    BY ElementOfSeq
  <2>3. \A j \in 1 .. Len(q) : q[j] \in Item /\ Moved(q[j], d) \in Item
    BY ElementOfSeq, MovedTwice
  <2> QED
    BY <2>1, <2>2, <2>3
<1>2. \A j \in 1 .. n : p[j] = IF j < i THEN q[j] ELSE IF j < i + Len(w) THEN w[j - i + 1]
                               ELSE Moved(q[j - Len(w) + m], d)
  BY DEF Put
<1>3. ASSUME NEW j \in 1 .. n PROVE p[j] \in Item
  <2>1. j < i => j \in 1 .. Len(q)
    BY <1>1
  <2>2. ~(j < i) /\ j < i + Len(w) => j - i + 1 \in 1 .. Len(w)
    BY <1>1
  <2>3. ~(j < i) /\ ~(j < i + Len(w)) => j - Len(w) + m \in 1 .. Len(q)
    BY <1>1
  <2> HIDE DEF n, p
  <2> QED
    BY <1>1, <1>2, <2>1, <2>2, <2>3
<1>4. p = [j \in 1 .. n |-> p[j]]
  BY DEF Put
<1>5. \A j \in 1 .. i - 1 : j \in 1 .. n /\ j < i
  BY <1>1
<1>6. \A j \in 1 .. Len(w) : i + j - 1 \in 1 .. n /\ ~(i + j - 1 < i) /\ i + j - 1 < i + Len(w)
                             /\ (i + j - 1) - i + 1 = j
  BY <1>1
<1>7. \A j \in i + m .. Len(q) : j - m + Len(w) \in 1 .. n /\ ~(j - m + Len(w) < i)
            /\ ~(j - m + Len(w) < i + Len(w)) /\ (j - m + Len(w)) - Len(w) + m = j
  BY <1>1
<1> HIDE DEF p
<1>8. p \in [1 .. n -> Item]
  <2> HIDE DEF n
  <2> QED
    BY <1>3, <1>4
<1>9. p \in Seq(Item) /\ Len(p) = n
  <2> HIDE DEF n
  <2> QED
    BY <1>1, <1>8, IsSequence
<1> HIDE DEF n
<1>10. \A j \in 1 .. i - 1 : p[j] = q[j]
  BY <1>2, <1>5
<1>11. \A j \in 1 .. Len(w) : p[i + j - 1] = w[j]
  BY <1>2, <1>6
<1>12. \A j \in i + m .. Len(q) : p[j - m + Len(w)] = Moved(q[j], d)
  BY <1>2, <1>7
<1> QED
  BY <1>2, <1>9, <1>10, <1>11, <1>12 DEF p, n

(* The number of items afterwards.                                         *)
LEMMA PutItems ==
  ASSUME NEW q \in Seq(Item), NEW m \in Nat, NEW i \in 1 .. Len(q) + 1 - m, NEW w \in Seq(Item),
         NEW d \in Int
  PROVE  IsItems(Put(q, i, m, w, d), Len(q) - m + Len(w))
<1>1. Put(q, i, m, w, d) \in Seq(Item) /\ Len(Put(q, i, m, w, d)) = Len(q) - m + Len(w)
  BY PutIs
<1> QED
  BY <1>1 DEF IsItems

(* Item by item.                                                           *)
LEMMA PutAt ==
  ASSUME NEW q, NEW m, NEW i, NEW w, NEW d, NEW j \in 1 .. Len(q) - m + Len(w)
  PROVE  Put(q, i, m, w, d)[j] =
           IF j < i THEN q[j] ELSE IF j < i + Len(w) THEN w[j - i + 1] ELSE Moved(q[j - Len(w) + m], d)
  BY DEF Put

(* A shift of the whole after the replacement or before it.                *)
LEMMA PutShift ==
  ASSUME NEW q \in Seq(Item), NEW m \in Nat, NEW i \in 1 .. Len(q) + 1 - m, NEW w \in Seq(Item),
         NEW d \in Int, NEW a \in Int
  PROVE  Shift(Put(q, i, m, w, d), a) = Put(Shift(q, a), i, m, Shift(w, a), d)
<1> DEFINE p == Shift(Put(q, i, m, w, d), a)
           r == Put(Shift(q, a), i, m, Shift(w, a), d)
           n == Len(q) - m + Len(w)
<1>1. /\ Len(q) \in Nat /\ Len(w) \in Nat /\ i \in Nat /\ i >= 1 /\ i + m <= Len(q) + 1 /\ n \in Nat
      /\ \A j \in 1 .. Len(q) : q[j] \in Item
  <2>1. Len(q) \in Nat /\ Len(w) \in Nat
    BY LenProperties
  <2>2. \A j \in 1 .. Len(q) : q[j] \in Item
    BY ElementOfSeq
  <2> QED
    BY <2>1, <2>2
<1>2. /\ Shift(q, a) \in Seq(Item) /\ Len(Shift(q, a)) = Len(q)
      /\ Shift(w, a) \in Seq(Item) /\ Len(Shift(w, a)) = Len(w)
      /\ \A j \in 1 .. Len(q) : Shift(q, a)[j] = Moved(q[j], a)
      /\ \A j \in 1 .. Len(w) : Shift(w, a)[j] = Moved(w[j], a)
  BY ShiftIs
<1>3. /\ Put(q, i, m, w, d) \in Seq(Item) /\ Len(Put(q, i, m, w, d)) = n
      /\ \A j \in 1 .. n : Put(q, i, m, w, d)[j] =
            IF j < i THEN q[j] ELSE IF j < i + Len(w) THEN w[j - i + 1] ELSE Moved(q[j - Len(w) + m], d)
  BY PutIs
<1>4. /\ r \in Seq(Item) /\ Len(r) = n
      /\ \A j \in 1 .. n : r[j] =
            IF j < i THEN Shift(q, a)[j] ELSE IF j < i + Len(w) THEN Shift(w, a)[j - i + 1]
            ELSE Moved(Shift(q, a)[j - Len(w) + m], d)
  <2> DEFINE A == Shift(q, a)
             B == Shift(w, a)
  <2>1. A \in Seq(Item) /\ B \in Seq(Item) /\ Len(A) = Len(q) /\ Len(B) = Len(w) /\ r = Put(A, i, m, B, d)
    BY <1>2
  <2> HIDE DEF A, B, r
  <2>2. i \in 1 .. Len(A) + 1 - m
    BY <2>1
  <2>3. IsItems(Put(A, i, m, B, d), Len(A) - m + Len(B))
    BY <2>1, <2>2, PutItems
  <2>4. \A j \in 1 .. Len(A) - m + Len(B) : Put(A, i, m, B, d)[j] =
           IF j < i THEN A[j] ELSE IF j < i + Len(B) THEN B[j - i + 1] ELSE Moved(A[j - Len(B) + m], d)
    BY DEF Put
  <2>5. Len(A) - m + Len(B) = n
    BY <2>1
  <2> HIDE DEF n
  <2>6. \A j \in 1 .. n : r[j] =
           IF j < i THEN A[j] ELSE IF j < i + Len(w) THEN B[j - i + 1] ELSE Moved(A[j - Len(w) + m], d)
    BY <2>1, <2>4, <2>5
  <2> QED
    BY <2>1, <2>3, <2>5, <2>6 DEF IsItems, A, B
<1>5. /\ p \in Seq(Item) /\ Len(p) = n /\ \A j \in 1 .. n : p[j] = Moved(Put(q, i, m, w, d)[j], a)
  <2> HIDE DEF n
  <2> QED
    BY <1>3, ShiftIs
<1>6. ASSUME NEW j \in 1 .. n PROVE p[j] = r[j]
  <2>1. j < i => j \in 1 .. Len(q)
    BY <1>1
  <2>2. ~(j < i) /\ j < i + Len(w) => j - i + 1 \in 1 .. Len(w)
    BY <1>1
  <2>3. ~(j < i) /\ ~(j < i + Len(w)) => j - Len(w) + m \in 1 .. Len(q)
    BY <1>1
  <2> HIDE DEF p, r, n
  <2>4. CASE j < i
    BY <1>2, <1>3, <1>4, <1>5, <2>1, <2>4
  <2>5. CASE ~(j < i) /\ j < i + Len(w)
    BY <1>2, <1>3, <1>4, <1>5, <2>2, <2>5
  <2>6. CASE ~(j < i) /\ ~(j < i + Len(w))
    <3> DEFINE k == j - Len(w) + m
    <3>1. k \in 1 .. Len(q)
      BY <2>3, <2>6
    <3>2. p[j] = Moved(Moved(q[k], d), a)
      BY <1>3, <1>5, <2>6
    <3>3. r[j] = Moved(Moved(q[k], a), d)
      BY <1>2, <1>4, <2>6, <3>1
    <3>4. q[k] \in Item /\ d + a = a + d
      BY <1>1, <3>1
    <3>5. Moved(Moved(q[k], d), a) = Moved(q[k], d + a) /\ Moved(Moved(q[k], a), d) = Moved(q[k], a + d)
      BY <3>4, MovedTwice
    <3> QED
      BY <3>2, <3>3, <3>4, <3>5
  <2> QED
    BY <2>4, <2>5, <2>6
<1> HIDE DEF p, r, n
<1>7. p = r
  BY <1>4, <1>5, <1>6, SameItems
<1> QED
  BY <1>7 DEF p, r

(* A replacement on the left moves the item in the middle and those on     *)
(* the right.                                                              *)
LEMMA PutLeft ==
  ASSUME NEW L \in Seq(Item), NEW R \in Seq(Item), NEW x \in Item,
         NEW m \in Nat, NEW i \in 1 .. Len(L) + 1 - m, NEW w \in Seq(Item), NEW d \in Int
  PROVE  Put(Three(L, x, R), i, m, w, d) = Three(Put(L, i, m, w, d), Moved(x, d), Shift(R, d))
<1> DEFINE q == Three(L, x, R)
           PL == Put(L, i, m, w, d)
           SR == Shift(R, d)
           p == Put(q, i, m, w, d)
           r == Three(PL, Moved(x, d), SR)
           l == Len(L)
           c == Len(w)
           n == l + 1 + Len(R) - m + c
<1>1. /\ l \in Nat /\ Len(R) \in Nat /\ c \in Nat /\ i \in Nat /\ i >= 1 /\ i + m <= l + 1 /\ n \in Nat
      /\ Moved(x, d) \in Item
  BY LenProperties, MovedTwice
<1>2. /\ q \in Seq(Item) /\ Len(q) = l + 1 + Len(R)
      /\ \A j \in 1 .. l + 1 + Len(R) : q[j] = IF j <= l THEN L[j] ELSE IF j = l + 1 THEN x ELSE R[j - l - 1]
  BY ThreeIs
<1>3. /\ PL \in Seq(Item) /\ Len(PL) = l - m + c
      /\ \A j \in 1 .. l - m + c : PL[j] = IF j < i THEN L[j] ELSE IF j < i + c THEN w[j - i + 1] ELSE Moved(L[j - c + m], d)
  BY PutIs, SMTT(30)
<1>4. SR \in Seq(Item) /\ Len(SR) = Len(R) /\ \A j \in 1 .. Len(R) : SR[j] = Moved(R[j], d)
  BY ShiftIs
<1> HIDE DEF q, PL, SR
<1>5. /\ p \in Seq(Item) /\ Len(p) = n
      /\ \A j \in 1 .. n : p[j] = IF j < i THEN q[j] ELSE IF j < i + c THEN w[j - i + 1] ELSE Moved(q[j - c + m], d)
  <2>1. i \in 1 .. Len(q) + 1 - m
    BY <1>1, <1>2
  <2>2. IsItems(p, Len(q) - m + Len(w))
    BY <1>2, <2>1, PutItems
  <2>3. \A j \in 1 .. Len(q) - m + Len(w) : p[j] =
           IF j < i THEN q[j] ELSE IF j < i + Len(w) THEN w[j - i + 1] ELSE Moved(q[j - Len(w) + m], d)
    BY PutAt, SMTT(30)
  <2>4. Len(q) - m + Len(w) = n
    BY <1>1, <1>2
  <2> HIDE DEF p, n
  <2> QED
    BY <2>2, <2>3, <2>4 DEF IsItems
<1>6. /\ r \in Seq(Item) /\ Len(r) = n
      /\ \A j \in 1 .. n : r[j] = IF j <= l - m + c THEN PL[j] ELSE IF j = l - m + c + 1 THEN Moved(x, d)
                                  ELSE SR[j - (l - m + c) - 1]
  <2>1. /\ r \in Seq(Item) /\ Len(r) = Len(PL) + 1 + Len(SR)
        /\ \A j \in 1 .. Len(PL) + 1 + Len(SR) : r[j] = IF j <= Len(PL) THEN PL[j] ELSE IF j = Len(PL) + 1 THEN Moved(x, d)
                                  ELSE SR[j - Len(PL) - 1]
    <3>1. IsItems(r, Len(PL) + 1 + Len(SR))
      BY <1>1, <1>3, <1>4, ThreeItems
    <3>2. \A j \in 1 .. Len(PL) + 1 + Len(SR) : r[j] = IF j <= Len(PL) THEN PL[j] ELSE IF j = Len(PL) + 1 THEN Moved(x, d)
                                  ELSE SR[j - Len(PL) - 1]
      BY ThreeAt
    <3> HIDE DEF r
    <3> QED
      BY <3>1, <3>2 DEF IsItems
  <2>2. Len(PL) + 1 + Len(SR) = n
    BY <1>1, <1>3, <1>4
  <2> HIDE DEF r, n
  <2> QED
    BY <1>3, <2>1, <2>2
<1>7. ASSUME NEW j \in 1 .. n PROVE p[j] = r[j]
  <2>1. j \in Int /\ 1 <= j /\ j <= l + 1 + Len(R) - m + c
    BY <1>1
  <2> HIDE DEF p, r, n, l, c
  <2>2. CASE j < i
    <3>1. j <= l /\ j <= l - m + c /\ j \in 1 .. l - m + c /\ j \in 1 .. l + 1 + Len(R)
      BY <1>1, <2>1, <2>2
    <3> QED
      BY <1>2, <1>3, <1>5, <1>6, <2>2, <3>1
  <2>3. CASE ~(j < i) /\ j < i + c
    <3>1. j <= l - m + c /\ j \in 1 .. l - m + c
      BY <1>1, <2>1, <2>3
    <3> QED
      BY <1>3, <1>5, <1>6, <2>3, <3>1
  <2>4. CASE ~(j < i) /\ ~(j < i + c) /\ j <= l - m + c
    <3>1. j \in 1 .. l - m + c /\ j - c + m \in 1 .. l + 1 + Len(R) /\ j - c + m <= l
      BY <1>1, <2>1, <2>4
    <3>2. q[j - c + m] = L[j - c + m]
      BY <1>2, <3>1
    <3> QED
      BY <1>3, <1>5, <1>6, <2>4, <3>1, <3>2
  <2>5. CASE j = l - m + c + 1
    <3>1. ~(j < i) /\ ~(j < i + c) /\ ~(j <= l - m + c) /\ j - c + m = l + 1 /\ l + 1 \in 1 .. l + 1 + Len(R)
      BY <1>1, <2>1, <2>5
    <3>2. q[l + 1] = x
      BY <1>1, <1>2, <3>1
    <3> QED
      BY <1>5, <1>6, <2>5, <3>1, <3>2
  <2>6. CASE j > l - m + c + 1
    <3>1. ~(j < i) /\ ~(j < i + c) /\ ~(j <= l - m + c) /\ j # l - m + c + 1
          /\ j - c + m \in 1 .. l + 1 + Len(R) /\ ~(j - c + m <= l) /\ j - c + m # l + 1
          /\ (j - c + m) - l - 1 = j - (l - m + c) - 1 /\ j - (l - m + c) - 1 \in 1 .. Len(R)
      BY <1>1, <2>1, <2>6
    <3>2. q[j - c + m] = R[j - (l - m + c) - 1]
      BY <1>2, <3>1
    <3>3. p[j] = Moved(R[j - (l - m + c) - 1], d)
      BY <1>5, <3>1, <3>2
    <3>4. r[j] = SR[j - (l - m + c) - 1]
      BY <1>6, <3>1
    <3> QED
      BY <1>4, <3>1, <3>3, <3>4
  <2> QED
    BY <1>1, <2>1, <2>2, <2>3, <2>4, <2>5, <2>6
<1> HIDE DEF p, r, n
<1>8. p = r
  BY <1>5, <1>6, <1>7, SameItems
<1> QED
  BY <1>8 DEF p, r, q, PL, SR

(* A replacement on the right leaves the left and the middle alone.        *)
LEMMA PutRight ==
  ASSUME NEW L \in Seq(Item), NEW R \in Seq(Item), NEW x \in Item,
         NEW m \in Nat, NEW i \in 1 .. Len(R) + 1 - m, NEW w \in Seq(Item), NEW d \in Int
  PROVE  Put(Three(L, x, R), Len(L) + 1 + i, m, w, d) = Three(L, x, Put(R, i, m, w, d))
<1> DEFINE q == Three(L, x, R)
           PR == Put(R, i, m, w, d)
           l == Len(L)
           c == Len(w)
           k == l + 1 + i
           p == Put(q, k, m, w, d)
           r == Three(L, x, PR)
           n == l + 1 + Len(R) - m + c
<1>1. /\ l \in Nat /\ Len(R) \in Nat /\ c \in Nat /\ i \in Nat /\ i >= 1 /\ i + m <= Len(R) + 1 /\ n \in Nat
      /\ k \in Nat
  BY LenProperties
<1>2. /\ q \in Seq(Item) /\ Len(q) = l + 1 + Len(R)
      /\ \A j \in 1 .. l + 1 + Len(R) : q[j] = IF j <= l THEN L[j] ELSE IF j = l + 1 THEN x ELSE R[j - l - 1]
  BY ThreeIs
<1>3. /\ PR \in Seq(Item) /\ Len(PR) = Len(R) - m + c
      /\ \A j \in 1 .. Len(R) - m + c : PR[j] = IF j < i THEN R[j] ELSE IF j < i + c THEN w[j - i + 1] ELSE Moved(R[j - c + m], d)
  BY PutIs
<1> HIDE DEF q, PR
<1>5. /\ p \in Seq(Item) /\ Len(p) = n
      /\ \A j \in 1 .. n : p[j] = IF j < k THEN q[j] ELSE IF j < k + c THEN w[j - k + 1] ELSE Moved(q[j - c + m], d)
  <2>1. k \in 1 .. Len(q) + 1 - m
    BY <1>1, <1>2
  <2> HIDE DEF k
  <2>2. IsItems(p, Len(q) - m + Len(w))
    BY <1>2, <2>1, PutItems
  <2>3. \A j \in 1 .. Len(q) - m + Len(w) : p[j] =
           IF j < k THEN q[j] ELSE IF j < k + Len(w) THEN w[j - k + 1] ELSE Moved(q[j - Len(w) + m], d)
    BY PutAt, SMTT(30)
  <2>4. Len(q) - m + Len(w) = n
    BY <1>1, <1>2
  <2> HIDE DEF p, n
  <2> QED
    BY <2>2, <2>3, <2>4 DEF IsItems
<1>6. /\ r \in Seq(Item) /\ Len(r) = n
      /\ \A j \in 1 .. n : r[j] = IF j <= l THEN L[j] ELSE IF j = l + 1 THEN x ELSE PR[j - l - 1]
  <2>1. /\ r \in Seq(Item) /\ Len(r) = l + 1 + Len(PR)
        /\ \A j \in 1 .. l + 1 + Len(PR) : r[j] = IF j <= l THEN L[j] ELSE IF j = l + 1 THEN x ELSE PR[j - l - 1]
    <3>1. IsItems(r, Len(L) + 1 + Len(PR))
      BY <1>1, <1>3, ThreeItems
    <3>2. \A j \in 1 .. Len(L) + 1 + Len(PR) : r[j] = IF j <= Len(L) THEN L[j] ELSE IF j = Len(L) + 1 THEN x ELSE PR[j - Len(L) - 1]
      BY ThreeAt
    <3> HIDE DEF r
    <3> QED
      BY <3>1, <3>2 DEF IsItems
  <2>2. l + 1 + Len(PR) = n
    BY <1>1, <1>3
  <2> HIDE DEF r, n
  <2> QED
    BY <2>1, <2>2
<1>7. ASSUME NEW j \in 1 .. n PROVE p[j] = r[j]
  <2>1. j \in Int /\ 1 <= j /\ j <= l + 1 + Len(R) - m + c
    BY <1>1
  <2> HIDE DEF p, r, n, l, c
  <2>2. CASE j <= l + 1
    <3>1. j < k /\ j \in 1 .. l + 1 + Len(R)
      BY <1>1, <2>1, <2>2
    <3>2. j <= l \/ j = l + 1
      BY <1>1, <2>1, <2>2
    <3>3. ~(l + 1 <= l)
      BY <1>1
    <3> HIDE DEF k
    <3> QED
      BY <1>2, <1>5, <1>6, <3>1, <3>2, <3>3
  <2>3. CASE ~(j <= l + 1) /\ j < k
    <3>1. ~(j <= l) /\ j # l + 1 /\ j \in 1 .. l + 1 + Len(R) /\ j - l - 1 \in 1 .. Len(R) - m + c /\ j - l - 1 < i
      BY <1>1, <2>1, <2>3
    <3> HIDE DEF k
    <3> QED
      BY <1>2, <1>3, <1>5, <1>6, <2>3, <3>1
  <2>4. CASE ~(j < k) /\ j < k + c
    <3>1. ~(j <= l) /\ j # l + 1 /\ j - l - 1 \in 1 .. Len(R) - m + c /\ ~(j - l - 1 < i) /\ j - l - 1 < i + c
          /\ j - k + 1 = (j - l - 1) - i + 1
      BY <1>1, <2>1, <2>4
    <3> HIDE DEF k
    <3> QED
      BY <1>3, <1>5, <1>6, <2>4, <3>1
  <2>5. CASE ~(j < k) /\ ~(j < k + c)
    <3>1. ~(j <= l) /\ j # l + 1 /\ j - l - 1 \in 1 .. Len(R) - m + c /\ ~(j - l - 1 < i) /\ ~(j - l - 1 < i + c)
          /\ j - c + m \in 1 .. l + 1 + Len(R) /\ ~(j - c + m <= l) /\ j - c + m # l + 1
          /\ (j - c + m) - l - 1 = (j - l - 1) - c + m
      BY <1>1, <2>1, <2>5
    <3> HIDE DEF k
    <3>2. q[j - c + m] = R[(j - l - 1) - c + m]
      BY <1>2, <3>1
    <3> QED
      BY <1>3, <1>5, <1>6, <2>5, <3>1, <3>2
  <2> QED
    BY <2>2, <2>3, <2>4, <2>5
<1> HIDE DEF p, r, n
<1>8. p = r
  BY <1>5, <1>6, <1>7, SameItems
<1> QED
  BY <1>8 DEF p, r, q, PR

(* The item in the middle replaced.                                        *)
LEMMA PutHere ==
  ASSUME NEW L \in Seq(Item), NEW R \in Seq(Item), NEW x \in Item, NEW y \in Item, NEW d \in Int
  PROVE  Put(Three(L, x, R), Len(L) + 1, 1, <<y>>, d) = Three(L, y, Shift(R, d))
<1> DEFINE q == Three(L, x, R)
           SR == Shift(R, d)
           l == Len(L)
           k == l + 1
           p == Put(q, k, 1, <<y>>, d)
           r == Three(L, y, SR)
           n == l + 1 + Len(R)
<1>1. l \in Nat /\ Len(R) \in Nat /\ n \in Nat /\ k \in Nat /\ <<y>> \in Seq(Item) /\ Len(<<y>>) = 1 /\ <<y>>[1] = y
  BY LenProperties
<1>2. /\ q \in Seq(Item) /\ Len(q) = n
      /\ \A j \in 1 .. n : q[j] = IF j <= l THEN L[j] ELSE IF j = l + 1 THEN x ELSE R[j - l - 1]
  BY ThreeIs
<1>4. SR \in Seq(Item) /\ Len(SR) = Len(R) /\ \A j \in 1 .. Len(R) : SR[j] = Moved(R[j], d)
  BY ShiftIs
<1> HIDE DEF q, SR
<1>5. /\ p \in Seq(Item) /\ Len(p) = n
      /\ \A j \in 1 .. n : p[j] = IF j < k THEN q[j] ELSE IF j < k + 1 THEN <<y>>[j - k + 1] ELSE Moved(q[j - 1 + 1], d)
  <2>1. k \in 1 .. Len(q) + 1 - 1 /\ 1 \in Nat
    BY <1>1, <1>2
  <2>2. Len(q) - 1 + 1 = n
    BY <1>1, <1>2
  <2> DEFINE w == <<y>>
  <2>3. w \in Seq(Item) /\ Len(w) = 1
    BY <1>1
  <2>4. /\ Put(q, k, 1, w, d) \in Seq(Item) /\ Len(Put(q, k, 1, w, d)) = n
        /\ \A j \in 1 .. n : Put(q, k, 1, w, d)[j] =
              IF j < k THEN q[j] ELSE IF j < k + 1 THEN w[j - k + 1] ELSE Moved(q[j - 1 + 1], d)
    <3> DEFINE s == Put(q, k, 1, w, d)
    <3> HIDE DEF k, w, n
    <3>1. IsItems(s, Len(q) - 1 + Len(w))
      BY <1>2, <2>1, <2>3, PutItems
    <3>2. \A j \in 1 .. Len(q) - 1 + Len(w) : s[j] =
             IF j < k THEN q[j] ELSE IF j < k + Len(w) THEN w[j - k + 1] ELSE Moved(q[j - Len(w) + 1], d)
      BY PutAt
    <3> HIDE DEF s
    <3>3. s \in Seq(Item) /\ Len(s) = n
          /\ \A j \in 1 .. n : s[j] = IF j < k THEN q[j] ELSE IF j < k + 1 THEN w[j - k + 1] ELSE Moved(q[j - 1 + 1], d)
      BY <2>2, <2>3, <3>1, <3>2 DEF IsItems
    <3> QED
      BY <3>3 DEF s
  <2> QED
    BY <2>4
<1>6. /\ r \in Seq(Item) /\ Len(r) = n
      /\ \A j \in 1 .. n : r[j] = IF j <= l THEN L[j] ELSE IF j = l + 1 THEN y ELSE SR[j - l - 1]
  <2>1. IsItems(r, Len(L) + 1 + Len(SR))
    BY <1>1, <1>4, ThreeItems
  <2>2. \A j \in 1 .. Len(L) + 1 + Len(SR) : r[j] = IF j <= Len(L) THEN L[j] ELSE IF j = Len(L) + 1 THEN y ELSE SR[j - Len(L) - 1]
    BY ThreeAt
  <2> HIDE DEF r
  <2> QED
    BY <1>4, <2>1, <2>2 DEF IsItems
<1>7. ASSUME NEW j \in 1 .. n PROVE p[j] = r[j]
  <2>1. j \in Int /\ 1 <= j /\ j <= l + 1 + Len(R)
    BY <1>1
  <2> HIDE DEF p, r, n, l
  <2>2. CASE j <= l
    <3>1. j < k
      BY <1>1, <2>1, <2>2
    <3> HIDE DEF k
    <3> QED
      BY <1>2, <1>5, <1>6, <2>2, <3>1
  <2>3. CASE j = l + 1
    <3>1. ~(j < k) /\ j < k + 1 /\ j - k + 1 = 1 /\ ~(j <= l)
      BY <1>1, <2>1, <2>3
    <3> HIDE DEF k
    <3>2. p[j] = <<y>>[j - k + 1]
      BY <1>5, <3>1
    <3>3. p[j] = <<y>>[1]
      BY <3>1, <3>2
    <3> QED
      BY <1>1, <1>6, <2>3, <3>1, <3>3
  <2>4. CASE j > l + 1
    <3>1. ~(j < k) /\ ~(j < k + 1) /\ ~(j <= l) /\ j # l + 1 /\ j - 1 + 1 = j /\ j - l - 1 \in 1 .. Len(R)
      BY <1>1, <2>1, <2>4
    <3> HIDE DEF k
    <3>2. q[j] = R[j - l - 1]
      BY <1>2, <3>1
    <3> QED
      BY <1>4, <1>5, <1>6, <3>1, <3>2
  <2> QED
    BY <1>1, <2>1, <2>2, <2>3, <2>4
<1> HIDE DEF p, r, n
<1>8. p = r
  BY <1>5, <1>6, <1>7, SameItems
<1> QED
  BY <1>8 DEF p, r, q, SR

(* The change of one subtree is a change of the tree.                      *)
LEMMA NodeLeft ==
  ASSUME NEW t \in Node(AllTrees), NEW u \in Node(AllTrees), u.addPos = t.addPos,
         NEW m \in Nat, NEW i \in 1 .. Len(Sq(t.left)) + 1 - m, NEW w \in Seq(Item), NEW d \in Int,
         Sq(u.left) = Put(Sq(t.left), i, m, w, d),
         ItemOf(u) = Moved(ItemOf(t), d), Sq(u.right) = Shift(Sq(t.right), d)
  PROVE  Sq(u) = Put(Sq(t), i, m, Shift(w, t.addPos), d)
<1> DEFINE L == Sq(t.left)
           R == Sq(t.right)
           a == t.addPos
<1>1. L \in Seq(Item) /\ R \in Seq(Item) /\ a \in Int /\ ItemOf(t) \in Item /\ Len(L) \in Nat
  BY Fields, SqType
<1>2. Sq(t) = Three(Shift(L, a), ItemOf(t), Shift(R, a))
  BY SqIs
<1>3. Sq(u) = Three(Shift(Put(L, i, m, w, d), a), Moved(ItemOf(t), d), Shift(Shift(R, d), a))
  BY SqIs
<1> HIDE DEF L, R, a
<1>4. i \in 1 .. Len(L) + 1 - m
  BY DEF L
<1>5. Shift(Put(L, i, m, w, d), a) = Put(Shift(L, a), i, m, Shift(w, a), d)
  BY <1>1, <1>4, PutShift
<1>6. Shift(Shift(R, d), a) = Shift(Shift(R, a), d)
  <2>1. d + a = a + d
    BY <1>1
  <2> QED
    BY <1>1, <2>1, ShiftTwice
<1>7. /\ Shift(L, a) \in Seq(Item) /\ Len(Shift(L, a)) = Len(L)
      /\ Shift(R, a) \in Seq(Item) /\ Shift(w, a) \in Seq(Item)
  BY <1>1, ShiftIs
<1>8. i \in 1 .. Len(Shift(L, a)) + 1 - m
  BY <1>4, <1>7
<1>9. Put(Sq(t), i, m, Shift(w, a), d)
        = Three(Put(Shift(L, a), i, m, Shift(w, a), d), Moved(ItemOf(t), d), Shift(Shift(R, a), d))
  <2> DEFINE A == Shift(L, a)
             B == Shift(R, a)
             x == ItemOf(t)
             y == Shift(w, a)
             q == Sq(t)
  <2>1. A \in Seq(Item) /\ B \in Seq(Item) /\ x \in Item /\ y \in Seq(Item) /\ q = Three(A, x, B)
        /\ i \in 1 .. Len(A) + 1 - m
    BY <1>1, <1>2, <1>7, <1>8
  <2> HIDE DEF A, B, x, y, q
  <2>2. Put(Three(A, x, B), i, m, y, d) = Three(Put(A, i, m, y, d), Moved(x, d), Shift(B, d))
    BY <2>1, PutLeft
  <2> QED
    BY <2>1, <2>2 DEF A, B, x, y, q
<1> QED
  BY <1>3, <1>5, <1>6, <1>9 DEF a

(* The change of the right subtree.                                        *)
LEMMA NodeRight ==
  ASSUME NEW t \in Node(AllTrees), NEW u \in Node(AllTrees), u.addPos = t.addPos,
         NEW m \in Nat, NEW i \in 1 .. Len(Sq(t.right)) + 1 - m, NEW w \in Seq(Item), NEW d \in Int,
         Sq(u.right) = Put(Sq(t.right), i, m, w, d),
         ItemOf(u) = ItemOf(t), Sq(u.left) = Sq(t.left)
  PROVE  Sq(u) = Put(Sq(t), Len(Sq(t.left)) + 1 + i, m, Shift(w, t.addPos), d)
<1> DEFINE L == Sq(t.left)
           R == Sq(t.right)
           a == t.addPos
<1>1. L \in Seq(Item) /\ R \in Seq(Item) /\ a \in Int /\ ItemOf(t) \in Item /\ Len(R) \in Nat
  BY Fields, SqType
<1>2. Sq(t) = Three(Shift(L, a), ItemOf(t), Shift(R, a))
  BY SqIs
<1>3. Sq(u) = Three(Shift(L, a), ItemOf(t), Shift(Put(R, i, m, w, d), a))
  BY SqIs
<1> HIDE DEF L, R, a
<1>4. i \in 1 .. Len(R) + 1 - m
  BY DEF R
<1>5. Shift(Put(R, i, m, w, d), a) = Put(Shift(R, a), i, m, Shift(w, a), d)
  BY <1>1, <1>4, PutShift
<1>7. /\ Shift(L, a) \in Seq(Item) /\ Len(Shift(L, a)) = Len(L)
      /\ Shift(R, a) \in Seq(Item) /\ Len(Shift(R, a)) = Len(R) /\ Shift(w, a) \in Seq(Item)
  BY <1>1, ShiftIs
<1>8. i \in 1 .. Len(Shift(R, a)) + 1 - m
  BY <1>4, <1>7
<1>9. Put(Sq(t), Len(Shift(L, a)) + 1 + i, m, Shift(w, a), d)
        = Three(Shift(L, a), ItemOf(t), Put(Shift(R, a), i, m, Shift(w, a), d))
  <2> DEFINE A == Shift(L, a)
             B == Shift(R, a)
             x == ItemOf(t)
             y == Shift(w, a)
             q == Sq(t)
  <2>1. A \in Seq(Item) /\ B \in Seq(Item) /\ x \in Item /\ y \in Seq(Item) /\ q = Three(A, x, B)
        /\ i \in 1 .. Len(B) + 1 - m
    BY <1>1, <1>2, <1>7, <1>8
  <2> HIDE DEF A, B, x, y, q
  <2>2. Put(Three(A, x, B), Len(A) + 1 + i, m, y, d) = Three(A, x, Put(B, i, m, y, d))
    BY <2>1, PutRight
  <2> QED
    BY <2>1, <2>2 DEF A, B, x, y, q
<1> QED
  BY <1>3, <1>5, <1>7, <1>9 DEF a, L

(* The change of the node itself.                                          *)
LEMMA NodeHere ==
  ASSUME NEW t \in Node(AllTrees), NEW u \in Node(AllTrees), u.addPos = t.addPos, NEW d \in Int,
         Sq(u.left) = Sq(t.left), Sq(u.right) = Shift(Sq(t.right), d)
  PROVE  Sq(u) = Put(Sq(t), Len(Sq(t.left)) + 1, 1, <<ItemOf(u)>>, d)
<1> DEFINE L == Sq(t.left)
           R == Sq(t.right)
           a == t.addPos
<1>1. L \in Seq(Item) /\ R \in Seq(Item) /\ a \in Int /\ ItemOf(t) \in Item /\ ItemOf(u) \in Item
  BY Fields, SqType
<1>2. Sq(t) = Three(Shift(L, a), ItemOf(t), Shift(R, a))
  BY SqIs
<1>3. Sq(u) = Three(Shift(L, a), ItemOf(u), Shift(Shift(R, d), a))
  BY SqIs
<1> HIDE DEF L, R, a
<1>6. Shift(Shift(R, d), a) = Shift(Shift(R, a), d)
  <2>1. d + a = a + d
    BY <1>1
  <2> QED
    BY <1>1, <2>1, ShiftTwice
<1>7. Shift(L, a) \in Seq(Item) /\ Len(Shift(L, a)) = Len(L) /\ Shift(R, a) \in Seq(Item)
  BY <1>1, ShiftIs
<1>9. Put(Sq(t), Len(Shift(L, a)) + 1, 1, <<ItemOf(u)>>, d)
        = Three(Shift(L, a), ItemOf(u), Shift(Shift(R, a), d))
  <2> DEFINE A == Shift(L, a)
             B == Shift(R, a)
             x == ItemOf(t)
             y == ItemOf(u)
             q == Sq(t)
  <2>1. A \in Seq(Item) /\ B \in Seq(Item) /\ x \in Item /\ y \in Item /\ q = Three(A, x, B)
    BY <1>1, <1>2, <1>7
  <2> HIDE DEF A, B, x, y, q
  <2>2. Put(Three(A, x, B), Len(A) + 1, 1, <<y>>, d) = Three(A, y, Shift(B, d))
    BY <2>1, PutHere
  <2> QED
    BY <2>1, <2>2 DEF A, B, x, y, q
<1> QED
  BY <1>3, <1>6, <1>7, <1>9 DEF L

(* Of the blocks q, the i-th holds bit e; the ones before it end before e, *)
(* and those behind it start behind e.                                     *)
At(q, e, i) ==
  /\ i \in 1 .. Len(q)
  /\ \A j \in 1 .. i - 1 : q[j].start < e /\ q[j].start + q[j].len * CHAR_BIT <= e
  /\ q[i].start <= e /\ e < q[i].start + q[i].len * CHAR_BIT
  /\ \A j \in i + 1 .. Len(q) : e < q[j].start

(* The way a walk takes at a node leads to that block.                     *)
LEMMA Descend ==
  ASSUME NEW t \in Node(AllTrees), NEW e \in Int, NEW i, At(Sq(t), e, i)
  PROVE  \/ e < GetStartIndex(t) /\ At(Sq(t.left), e - t.addPos, i) /\ i \in 1 .. Len(Sq(t.left))
         \/ /\ GetStartIndex(t) <= e /\ e < GetStartIndex(t) + t.len * CHAR_BIT
            /\ i = Len(Sq(t.left)) + 1
         \/ /\ GetStartIndex(t) < e /\ GetStartIndex(t) + t.len * CHAR_BIT <= e
            /\ \E k \in 1 .. Len(Sq(t.right)) :
                 At(Sq(t.right), e - t.addPos, k) /\ i = Len(Sq(t.left)) + 1 + k
<1> DEFINE L == Sq(t.left)
           R == Sq(t.right)
           q == Sq(t)
           a == t.addPos
           l == Len(L)
<1>1. L \in Seq(Item) /\ R \in Seq(Item) /\ a \in Int /\ l \in Nat /\ Len(R) \in Nat
      /\ t.len \in Int /\ GetStartIndex(t) \in Int
  BY Fields, SqType
<1>2. /\ \A j \in 1 .. l : L[j].start \in Int /\ L[j].len \in Int
      /\ \A j \in 1 .. Len(R) : R[j].start \in Int /\ R[j].len \in Int
  <2>1. \A j \in 1 .. l : L[j] \in Item
    BY <1>1, ElementOfSeq
  <2>2. \A j \in 1 .. Len(R) : R[j] \in Item
    BY <1>1, ElementOfSeq
  <2> QED
    BY <2>1, <2>2 DEF Item
<1>3. /\ Len(q) = l + 1 + Len(R)
      /\ \A j \in 1 .. l : q[j].len = L[j].len /\ q[j].start = L[j].start + a
      /\ q[l + 1].len = t.len /\ q[l + 1].start = GetStartIndex(t)
      /\ \A j \in 1 .. Len(R) : q[l + 1 + j].len = R[j].len /\ q[l + 1 + j].start = R[j].start + a
  <2>1. /\ Len(q) = l + 1 + Len(R)
        /\ \A j \in 1 .. l : q[j] = Moved(L[j], a)
        /\ q[l + 1] = ItemOf(t)
        /\ \A j \in 1 .. Len(R) : q[l + 1 + j] = Moved(R[j], a)
    BY SqNode
  <2>2. \A x : Moved(x, a).len = x.len /\ Moved(x, a).start = x.start + a
    BY DEF Moved
  <2>3. ItemOf(t).len = t.len /\ ItemOf(t).start = GetStartIndex(t)
    BY DEF ItemOf
  <2> HIDE DEF L, R, q, a, l
  <2> QED
    BY <2>1, <2>2, <2>3
<1>4. /\ i \in 1 .. Len(q)
      /\ \A j \in 1 .. i - 1 : q[j].start < e /\ q[j].start + q[j].len * 8 <= e
      /\ q[i].start <= e /\ e < q[i].start + q[i].len * 8
      /\ \A j \in i + 1 .. Len(q) : e < q[j].start
  BY DEF At, CHAR_BIT
<1> DEFINE s == GetStartIndex(t)
<1> HIDE DEF L, R, q, a, l, s
<1>5. CASE i <= l
  <2>1. e < s
    <3>1. l + 1 \in i + 1 .. Len(q)
      BY <1>1, <1>3, <1>4, <1>5
    <3>2. e < q[l + 1].start
      BY <1>4, <3>1
    <3> QED
      BY <1>3, <3>2 DEF s
  <2>2. i \in 1 .. l
    BY <1>1, <1>4, <1>5
  <2>3. \A j \in 1 .. i - 1 : L[j].start < e - a /\ L[j].start + L[j].len * 8 <= e - a
    <3> TAKE j \in 1 .. i - 1
    <3>1. j \in 1 .. l
      BY <1>1, <2>2
    <3>2. q[j].start < e /\ q[j].start + q[j].len * 8 <= e
      BY <1>4
    <3>3. q[j].len = L[j].len /\ q[j].start = L[j].start + a /\ L[j].start \in Int /\ L[j].len \in Int
      BY <1>2, <1>3, <3>1
    <3> QED
      BY <1>1, <3>2, <3>3, SMTT(30)
  <2>4. L[i].start <= e - a /\ e - a < L[i].start + L[i].len * 8
    <3>1. q[i].len = L[i].len /\ q[i].start = L[i].start + a /\ L[i].start \in Int /\ L[i].len \in Int
      BY <1>2, <1>3, <2>2
    <3> QED
      BY <1>1, <1>4, <3>1, SMTT(30)
  <2>5. \A j \in i + 1 .. l : e - a < L[j].start
    <3> TAKE j \in i + 1 .. l
    <3>1. j \in 1 .. l /\ j \in i + 1 .. Len(q)
      BY <1>1, <1>3, <2>2
    <3>2. e < q[j].start
      BY <1>4, <3>1
    <3>3. q[j].start = L[j].start + a /\ L[j].start \in Int
      BY <1>2, <1>3, <3>1
    <3> QED
      BY <1>1, <3>2, <3>3
  <2>6. At(L, e - a, i)
    BY <2>2, <2>3, <2>4, <2>5 DEF At, CHAR_BIT, l
  <2> QED
    BY <2>1, <2>2, <2>6 DEF L, a, l, s
<1>6. CASE i = l + 1
  <2>1. s <= e /\ e < s + t.len * 8
    BY <1>3, <1>4, <1>6 DEF s
  <2> QED
    BY <1>6, <2>1 DEF L, l, s, CHAR_BIT
<1>7. CASE i > l + 1
  <2>1. PICK k \in 1 .. Len(R) : i = l + 1 + k
    <3>1. i - (l + 1) \in 1 .. Len(R) /\ i = l + 1 + (i - (l + 1))
      BY <1>1, <1>3, <1>4, <1>7
    <3> QED
      BY <3>1
  <2>2. s < e /\ s + t.len * 8 <= e
    <3>1. l + 1 \in 1 .. i - 1
      BY <1>1, <1>4, <1>7
    <3>2. q[l + 1].start < e /\ q[l + 1].start + q[l + 1].len * 8 <= e
      BY <1>4, <3>1
    <3> QED
      BY <1>3, <3>2 DEF s
  <2>3. \A j \in 1 .. k - 1 : R[j].start < e - a /\ R[j].start + R[j].len * 8 <= e - a
    <3> TAKE j \in 1 .. k - 1
    <3>1. j \in 1 .. Len(R) /\ l + 1 + j \in 1 .. i - 1
      BY <1>1, <2>1
    <3> DEFINE h == l + 1 + j
    <3>2. h \in 1 .. i - 1 /\ q[h].len = R[j].len /\ q[h].start = R[j].start + a
      BY <1>3, <3>1
    <3> HIDE DEF h
    <3>3. q[h].start < e /\ q[h].start + q[h].len * 8 <= e
      BY <1>4, <3>2
    <3>4. R[j].start \in Int /\ R[j].len \in Int
      BY <1>2, <3>1
    <3> QED
      BY <1>1, <3>2, <3>3, <3>4, SMTT(30)
  <2>4. R[k].start <= e - a /\ e - a < R[k].start + R[k].len * 8
    <3>1. /\ q[l + 1 + k].len = R[k].len /\ q[l + 1 + k].start = R[k].start + a
          /\ R[k].start \in Int /\ R[k].len \in Int
      BY <1>2, <1>3, <2>1
    <3>2. q[i].len = R[k].len /\ q[i].start = R[k].start + a
      BY <2>1, <3>1
    <3>3. q[i].start <= e /\ e < q[i].start + q[i].len * 8
      BY <1>4
    <3> DEFINE z == q[i].start
               u == R[k].start
               v == R[k].len
    <3>4. z = u + a /\ u \in Int /\ v \in Int /\ z <= e /\ e < z + v * 8
      BY <3>1, <3>2, <3>3
    <3> HIDE DEF z, u, v
    <3>5. u <= e - a /\ e - a < u + v * 8
      BY <1>1, <3>4
    <3> QED
      BY <3>5 DEF u, v
  <2>5. \A j \in k + 1 .. Len(R) : e - a < R[j].start
    <3> TAKE j \in k + 1 .. Len(R)
    <3>1. j \in 1 .. Len(R) /\ l + 1 + j \in i + 1 .. Len(q)
      BY <1>1, <1>3, <2>1
    <3>2. e < q[l + 1 + j].start
      BY <1>4, <3>1
    <3>3. q[l + 1 + j].start = R[j].start + a /\ R[j].start \in Int
      BY <1>2, <1>3, <3>1
    <3> QED
      BY <1>1, <3>2, <3>3
  <2>6. At(R, e - a, k)
    BY <2>3, <2>4, <2>5 DEF At, CHAR_BIT
  <2> QED
    BY <2>1, <2>2, <2>6 DEF L, R, a, l, s, CHAR_BIT
<1> QED
  BY <1>1, <1>4, <1>5, <1>6, <1>7

(***************************************************************************)
(* What each walk does to the blocks.                                      *)
(***************************************************************************)
OnesPlus(x, o) == [len |-> x.len, ones |-> x.ones + o, start |-> x.start]
WithLen(x, len) == [len |-> len, ones |-> x.ones, start |-> x.start]

(* A block with other ones, moved.                                         *)
LEMMA ChangedItems ==
  ASSUME NEW x \in Item, NEW a \in Int, NEW o \in Int
  PROVE  OnesPlus(x, o) \in Item /\ Moved(OnesPlus(x, o), a) = OnesPlus(Moved(x, a), o)
<1> QED
  BY DEF Item, OnesPlus, Moved

(* The same of a new length.                                               *)
LEMMA ResizedItems ==
  ASSUME NEW x \in Item, NEW a \in Int, NEW n \in Int
  PROVE  WithLen(x, n) \in Item /\ Moved(WithLen(x, n), a) = WithLen(Moved(x, a), n)
<1> QED
  BY DEF Item, WithLen, Moved

(* One block as a sequence.                                                *)
LEMMA ShiftOne ==
  ASSUME NEW x \in Item, NEW a \in Int
  PROVE  <<x>> \in Seq(Item) /\ Len(<<x>>) = 1 /\ Shift(<<x>>, a) = <<Moved(x, a)>>
<1>1. <<x>> \in Seq(Item) /\ Len(<<x>>) = 1 /\ <<x>>[1] = x
  OBVIOUS
<1>2. Moved(x, a) \in Item
  BY MovedTwice
<1> DEFINE y == Moved(x, a)
           w == <<x>>
<1>3. <<y>> \in Seq(Item) /\ Len(<<y>>) = 1 /\ <<y>>[1] = y
  BY <1>2
<1>4. Shift(w, a) \in Seq(Item) /\ Len(Shift(w, a)) = Len(w) /\ \A j \in 1 .. Len(w) : Shift(w, a)[j] = Moved(w[j], a)
  BY <1>1, ShiftIs
<1>5. \A j \in 1 .. 1 : Shift(w, a)[j] = <<y>>[j]
  BY <1>1, <1>3, <1>4
<1> HIDE DEF y
<1>6. Shift(w, a) = <<y>>
  BY <1>1, <1>3, <1>4, <1>5, SameItems
<1> QED
  BY <1>1, <1>6 DEF y

(* updatePath2 adds to the ones of the block, and moves those behind it.   *)
Updates(t, o, d) ==
  \A e \in Int, i \in Nat : At(Sq(t), e, i) =>
     /\ UpdatePath2(t, e, o, d) \in AllTrees
     /\ Sq(UpdatePath2(t, e, o, d)) = Put(Sq(t), i, 1, <<OnesPlus(Sq(t)[i], o)>>, d)
     /\ MySize(UpdatePath2(t, e, o, d)) = MySize(t) + o
     /\ (t \in Summed => UpdatePath2(t, e, o, d) \in Summed)

(* updatePath2 does that in every tree.                                    *)
LEMMA UpdateWalk ==
  ASSUME NEW t \in Trees, NEW o \in Int, NEW d \in Int
  PROVE  Updates(t, o, d)
<1> DEFINE S == {u \in AllTrees : u \in Trees => Updates(u, o, d)}
<1>1. Nil \in S
  <2>1. \A e, i : ~At(Sq(Nil), e, i)
    BY SqIs DEF At
  <2> QED
    BY <2>1, AllTreesAre DEF Updates
<1>2. ASSUME NEW u \in Node(AllTrees), u.left \in S, u.right \in S PROVE u \in S
  <2> SUFFICES ASSUME u \in Trees, NEW e \in Int, NEW i \in Nat, At(Sq(u), e, i)
               PROVE  /\ UpdatePath2(u, e, o, d) \in AllTrees
                      /\ Sq(UpdatePath2(u, e, o, d)) = Put(Sq(u), i, 1, <<OnesPlus(Sq(u)[i], o)>>, d)
                      /\ MySize(UpdatePath2(u, e, o, d)) = MySize(u) + o
                      /\ (u \in Summed => UpdatePath2(u, e, o, d) \in Summed)
    BY Fields DEF Updates
  <2>1. u.left \in Trees /\ u.right \in Trees /\ u # Nil
    BY TreesAre, Fields DEF Node
  <2>2. Updates(u.left, o, d) /\ Updates(u.right, o, d)
    BY <1>2, <2>1
  <2> DEFINE v  == UpdatePath2(u, e, o, d)
             f  == e - u.addPos
             l  == UpdatePath2(u.left, f, o, d)
             r  == UpdatePath2(u.right, f, o, d)
             ar == AddPos(u.right, d)
             s  == GetStartIndex(u)
             b  == GetStartIndex(u) + u.len * CHAR_BIT
             k0 == Len(Sq(u.left))
  <2>3. v = IF e < s
            THEN [u EXCEPT !.mysize = @ + o, !.elem = @ + d, !.right = ar, !.left = l]
            ELSE IF e < b
            THEN [u EXCEPT !.mysize = @ + o, !.numOnes = @ + o, !.right = ar]
            ELSE IF e > s
            THEN [u EXCEPT !.mysize = @ + o, !.right = r]
            ELSE [u EXCEPT !.mysize = @ + o]
    BY <2>1, UpdatePath2Is
  <2>4. /\ u.addPos \in Int /\ u.elem \in Int /\ u.mysize \in Int /\ u.numOnes \in Int /\ u.len \in Int
        /\ u.left \in AllTrees /\ u.right \in AllTrees /\ ItemOf(u) \in Item /\ f \in Int
        /\ MySize(u) = u.mysize /\ s \in Int /\ b \in Int
        /\ MySize(u.left) \in Int /\ MySize(u.right) \in Int
    BY Fields, Sizes DEF MySize, CHAR_BIT
  <2>5. /\ Sq(u.left) \in Seq(Item) /\ Sq(u.right) \in Seq(Item) /\ Sq(u) \in Seq(Item) /\ k0 \in Nat
        /\ Len(Sq(u.right)) \in Nat
    BY Fields, SqType
  <2>6. /\ ar \in AllTrees /\ Sq(ar) = Shift(Sq(u.right), d) /\ MySize(ar) = MySize(u.right)
        /\ (u.right \in Summed => ar \in Summed)
    BY <2>4, AddPosIs
  <2> HIDE DEF v, f, l, r, ar, s, b, k0
  <2>7. \/ e < s /\ At(Sq(u.left), f, i) /\ i \in 1 .. k0
        \/ s <= e /\ e < b /\ i = k0 + 1
        \/ s < e /\ b <= e /\ \E k \in 1 .. Len(Sq(u.right)) : At(Sq(u.right), f, k) /\ i = k0 + 1 + k
    BY Descend DEF f, s, b, k0
  <2>8. CASE e < s /\ At(Sq(u.left), f, i) /\ i \in 1 .. k0
    <3> DEFINE x == Sq(u.left)[i]
               w == <<OnesPlus(x, o)>>
    <3>1. /\ l \in AllTrees /\ Sq(l) = Put(Sq(u.left), i, 1, w, d)
          /\ MySize(l) = MySize(u.left) + o /\ (u.left \in Summed => l \in Summed)
      BY <2>2, <2>4, <2>8 DEF Updates, l
    <3>2. v = [u EXCEPT !.mysize = @ + o, !.elem = @ + d, !.right = ar, !.left = l]
      BY <2>3, <2>8
    <3>3. /\ v \in Node(AllTrees) /\ v.left = l /\ v.right = ar /\ v.addPos = u.addPos
          /\ v.elem = u.elem + d /\ v.len = u.len /\ v.numOnes = u.numOnes /\ v.mysize = u.mysize + o
      <4> DEFINE m == u.mysize + o
                 n == u.elem + d
                 z1 == [u EXCEPT !.mysize = m]
                 z2 == [z1 EXCEPT !.elem = n]
                 z3 == [z2 EXCEPT !.right = ar]
                 z4 == [z3 EXCEPT !.left = l]
      <4>1. m \in Int /\ n \in Int /\ ar \in AllTrees /\ l \in AllTrees
        BY <2>4, <2>6, <3>1
      <4>2. v = z4
        BY <3>2 DEF Node
      <4> HIDE DEF m, n
      <4>3. z1 \in Node(AllTrees)
        BY <4>1 DEF Node
      <4>4. z1.left = u.left /\ z1.right = u.right /\ z1.addPos = u.addPos /\ z1.elem = u.elem
            /\ z1.len = u.len /\ z1.numOnes = u.numOnes /\ z1.mysize = m
        BY DEF Node
      <4> HIDE DEF z1
      <4>5. z2 \in Node(AllTrees)
        BY <4>1, <4>3 DEF Node
      <4>6. z2.left = z1.left /\ z2.right = z1.right /\ z2.addPos = z1.addPos /\ z2.elem = n
            /\ z2.len = z1.len /\ z2.numOnes = z1.numOnes /\ z2.mysize = z1.mysize
        BY <4>3 DEF Node
      <4> HIDE DEF z2
      <4>7. z3 \in Node(AllTrees)
        BY <4>1, <4>5 DEF Node
      <4>8. z3.left = z2.left /\ z3.right = ar /\ z3.addPos = z2.addPos /\ z3.elem = z2.elem
            /\ z3.len = z2.len /\ z3.numOnes = z2.numOnes /\ z3.mysize = z2.mysize
        BY <4>5 DEF Node
      <4> HIDE DEF z3
      <4>9. z4 \in Node(AllTrees)
        BY <4>1, <4>7 DEF Node
      <4>10. z4.left = l /\ z4.right = z3.right /\ z4.addPos = z3.addPos /\ z4.elem = z3.elem
             /\ z4.len = z3.len /\ z4.numOnes = z3.numOnes /\ z4.mysize = z3.mysize
        BY <4>7 DEF Node
      <4> HIDE DEF z4
      <4> QED
        BY <4>2, <4>4, <4>6, <4>8, <4>9, <4>10 DEF m, n
    <3>4. ItemOf(v) = Moved(ItemOf(u), d)
      BY <2>4, <3>3 DEF ItemOf, Moved, GetStartIndex
    <3>5. x \in Item /\ i \in 1 .. Len(Sq(u.left)) + 1 - 1 /\ 1 \in Nat
      BY <2>5, <2>8, ElementOfSeq DEF k0
    <3>6. OnesPlus(x, o) \in Item /\ Moved(OnesPlus(x, o), u.addPos) = OnesPlus(Moved(x, u.addPos), o)
      <4> HIDE DEF x
      <4> QED
        BY <2>4, <3>5, ChangedItems, SMTT(30)
    <3>7. w \in Seq(Item) /\ Shift(w, u.addPos) = <<OnesPlus(Moved(x, u.addPos), o)>>
      <4> DEFINE y == OnesPlus(x, o)
      <4>1. y \in Item /\ w = <<y>> /\ u.addPos \in Int
        BY <2>4, <3>6
      <4>2. Moved(y, u.addPos) = OnesPlus(Moved(x, u.addPos), o)
        BY <3>6
      <4> HIDE DEF y, w, x
      <4>3. <<y>> \in Seq(Item) /\ Shift(<<y>>, u.addPos) = <<Moved(y, u.addPos)>>
        BY <4>1, ShiftOne
      <4> QED
        BY <4>1, <4>2, <4>3
    <3>8. Sq(u)[i] = Moved(x, u.addPos)
      BY <2>8, SqNode DEF k0
    <3> HIDE DEF w
    <3>9. Sq(v) = Put(Sq(u), i, 1, Shift(w, u.addPos), d)
      BY <2>6, <3>1, <3>3, <3>4, <3>5, <3>7, NodeLeft
    <3>10. u \in Summed => v \in Summed
      <4>1. u \in Summed => l \in Summed /\ ar \in Summed /\ u.mysize = u.numOnes + MySize(u.left) + MySize(u.right)
        BY <2>6, <3>1, SummedIs DEF SumRight
      <4>2. u \in Summed => v.mysize = v.numOnes + MySize(v.left) + MySize(v.right)
        BY <2>4, <2>6, <3>1, <3>3, <4>1
      <4> QED
        BY <3>3, <4>1, <4>2, SummedIs DEF SumRight
    <3>11. MySize(v) = MySize(u) + o /\ v \in AllTrees
      BY <2>4, <3>3, Fields DEF MySize
    <3> QED
      BY <3>7, <3>8, <3>9, <3>10, <3>11 DEF v
  <2>9. CASE s <= e /\ e < b /\ i = k0 + 1
    <3>2. v = [u EXCEPT !.mysize = @ + o, !.numOnes = @ + o, !.right = ar]
      <4>1. ~(e < s)
        BY <2>4, <2>9
      <4> QED
        BY <2>3, <2>9, <4>1
    <3>3. /\ v \in Node(AllTrees) /\ v.left = u.left /\ v.right = ar /\ v.addPos = u.addPos
          /\ v.elem = u.elem /\ v.len = u.len /\ v.numOnes = u.numOnes + o /\ v.mysize = u.mysize + o
      <4> DEFINE m == u.mysize + o
                 n == u.numOnes + o
                 z1 == [u EXCEPT !.mysize = m]
                 z2 == [z1 EXCEPT !.numOnes = n]
                 z3 == [z2 EXCEPT !.right = ar]
      <4>1. m \in Int /\ n \in Int /\ ar \in AllTrees
        BY <2>4, <2>6
      <4>2. v = z3
        BY <3>2 DEF Node
      <4> HIDE DEF m, n
      <4>3. z1 \in Node(AllTrees)
        BY <4>1 DEF Node
      <4>4. /\ z1.left = u.left /\ z1.right = u.right /\ z1.addPos = u.addPos /\ z1.elem = u.elem
             /\ z1.len = u.len /\ z1.numOnes = u.numOnes /\ z1.mysize = m
        BY DEF Node
      <4> HIDE DEF z1
      <4>5. z2 \in Node(AllTrees)
        BY <4>1, <4>3 DEF Node
      <4>6. /\ z2.left = z1.left /\ z2.right = z1.right /\ z2.addPos = z1.addPos /\ z2.elem = z1.elem
             /\ z2.len = z1.len /\ z2.numOnes = n /\ z2.mysize = z1.mysize
        BY <4>3 DEF Node
      <4> HIDE DEF z2
      <4>7. z3 \in Node(AllTrees)
        BY <4>1, <4>5 DEF Node
      <4>8. /\ z3.left = z2.left /\ z3.right = ar /\ z3.addPos = z2.addPos /\ z3.elem = z2.elem
             /\ z3.len = z2.len /\ z3.numOnes = z2.numOnes /\ z3.mysize = z2.mysize
        BY <4>5 DEF Node
      <4> HIDE DEF z3
      <4> QED
        BY <4>2, <4>4, <4>6, <4>8, <4>7 DEF m, n
    <3>4. ItemOf(v) = OnesPlus(ItemOf(u), o)
      BY <3>3 DEF ItemOf, OnesPlus, GetStartIndex
    <3>5. Sq(u)[i] = ItemOf(u)
      BY <2>9, SqNode DEF k0
    <3>6. Sq(v) = Put(Sq(u), i, 1, <<ItemOf(v)>>, d)
      BY <2>6, <2>9, <3>3, NodeHere DEF k0
    <3>7. u \in Summed => v \in Summed
      <4>1. u \in Summed => u.left \in Summed /\ ar \in Summed /\ u.mysize = u.numOnes + MySize(u.left) + MySize(u.right)
        BY <2>6, SummedIs DEF SumRight
      <4>2. u \in Summed => v.mysize = v.numOnes + MySize(v.left) + MySize(v.right)
        BY <2>4, <2>6, <3>3, <4>1
      <4> QED
        BY <3>3, <4>1, <4>2, SummedIs DEF SumRight
    <3>8. MySize(v) = MySize(u) + o /\ v \in AllTrees
      BY <2>4, <3>3, Fields DEF MySize
    <3> QED
      BY <3>4, <3>5, <3>6, <3>7, <3>8 DEF v
  <2>10. CASE s < e /\ b <= e /\ \E k \in 1 .. Len(Sq(u.right)) : At(Sq(u.right), f, k) /\ i = k0 + 1 + k
    <3>0. PICK k \in 1 .. Len(Sq(u.right)) : At(Sq(u.right), f, k) /\ i = k0 + 1 + k
      BY <2>10
    <3> DEFINE x == Sq(u.right)[k]
               w == <<OnesPlus(x, o)>>
    <3>1. /\ r \in AllTrees /\ Sq(r) = Put(Sq(u.right), k, 1, w, d)
          /\ MySize(r) = MySize(u.right) + o /\ (u.right \in Summed => r \in Summed)
      <4>1. k \in Nat
        BY <2>5
      <4> QED
        BY <2>2, <2>4, <3>0, <4>1 DEF Updates, r
    <3>2. v = [u EXCEPT !.mysize = @ + o, !.right = r]
      <4>1. ~(e < s) /\ ~(e < b) /\ e > s
        BY <2>4, <2>10
      <4> QED
        BY <2>3, <4>1
    <3>3. /\ v \in Node(AllTrees) /\ v.left = u.left /\ v.right = r /\ v.addPos = u.addPos
          /\ v.elem = u.elem /\ v.len = u.len /\ v.numOnes = u.numOnes /\ v.mysize = u.mysize + o
      <4> DEFINE m == u.mysize + o
                 z1 == [u EXCEPT !.mysize = m]
                 z2 == [z1 EXCEPT !.right = r]
      <4>1. m \in Int /\ r \in AllTrees
        BY <2>4, <3>1
      <4>2. v = z2
        BY <3>2 DEF Node
      <4> HIDE DEF m
      <4>3. z1 \in Node(AllTrees)
        BY <4>1 DEF Node
      <4>4. /\ z1.left = u.left /\ z1.right = u.right /\ z1.addPos = u.addPos /\ z1.elem = u.elem
             /\ z1.len = u.len /\ z1.numOnes = u.numOnes /\ z1.mysize = m
        BY DEF Node
      <4> HIDE DEF z1
      <4>5. z2 \in Node(AllTrees)
        BY <4>1, <4>3 DEF Node
      <4>6. /\ z2.left = z1.left /\ z2.right = r /\ z2.addPos = z1.addPos /\ z2.elem = z1.elem
             /\ z2.len = z1.len /\ z2.numOnes = z1.numOnes /\ z2.mysize = z1.mysize
        BY <4>3 DEF Node
      <4> HIDE DEF z2
      <4> QED
        BY <4>2, <4>4, <4>6, <4>5 DEF m
    <3>4. ItemOf(v) = ItemOf(u)
      BY <3>3 DEF ItemOf, GetStartIndex
    <3>5. x \in Item /\ k \in 1 .. Len(Sq(u.right)) + 1 - 1 /\ 1 \in Nat
      BY <2>5, ElementOfSeq
    <3>6. OnesPlus(x, o) \in Item /\ Moved(OnesPlus(x, o), u.addPos) = OnesPlus(Moved(x, u.addPos), o)
      <4> HIDE DEF x
      <4> QED
        BY <2>4, <3>5, ChangedItems, SMTT(30)
    <3>7. w \in Seq(Item) /\ Shift(w, u.addPos) = <<OnesPlus(Moved(x, u.addPos), o)>>
      <4> DEFINE y == OnesPlus(x, o)
      <4>1. y \in Item /\ w = <<y>> /\ u.addPos \in Int
        BY <2>4, <3>6
      <4>2. Moved(y, u.addPos) = OnesPlus(Moved(x, u.addPos), o)
        BY <3>6
      <4> HIDE DEF y, w, x
      <4>3. <<y>> \in Seq(Item) /\ Shift(<<y>>, u.addPos) = <<Moved(y, u.addPos)>>
        BY <4>1, ShiftOne
      <4> QED
        BY <4>1, <4>2, <4>3
    <3>8. Sq(u)[i] = Moved(x, u.addPos)
      BY <3>0, SqNode DEF k0
    <3> HIDE DEF w
    <3>9. Sq(v) = Put(Sq(u), i, 1, Shift(w, u.addPos), d)
      BY <3>0, <3>1, <3>3, <3>4, <3>5, <3>7, NodeRight, SMTT(30) DEF k0
    <3>10. u \in Summed => v \in Summed
      <4>1. u \in Summed => u.left \in Summed /\ r \in Summed /\ u.mysize = u.numOnes + MySize(u.left) + MySize(u.right)
        BY <3>1, SummedIs DEF SumRight
      <4>2. u \in Summed => v.mysize = v.numOnes + MySize(v.left) + MySize(v.right)
        BY <2>4, <3>1, <3>3, <4>1, SMTT(30)
      <4> QED
        BY <3>3, <4>1, <4>2, SummedIs DEF SumRight
    <3>11. MySize(v) = MySize(u) + o /\ v \in AllTrees
      BY <2>4, <3>3, Fields DEF MySize
    <3> QED
      BY <3>7, <3>8, <3>9, <3>10, <3>11 DEF v
  <2> QED
    BY <2>7, <2>8, <2>9, <2>10
<1>3. AllTrees \subseteq S
  <2> HIDE DEF S
  <2> QED
    BY <1>1, <1>2, TreeInduction
<1> QED
  BY <1>3, TreesAre

(* The length of the block is set, and nothing else.                       *)
SetsLen(t, n) ==
  \A e \in Int, i \in Nat : At(Sq(t), e, i) =>
     /\ SetLenAt(t, e, n) \in AllTrees
     /\ Sq(SetLenAt(t, e, n)) = Put(Sq(t), i, 1, <<WithLen(Sq(t)[i], n)>>, 0)
     /\ MySize(SetLenAt(t, e, n)) = MySize(t)
     /\ (t \in Summed => SetLenAt(t, e, n) \in Summed)

(* The walk to the block whose length is set does that in every tree.      *)
LEMMA SetLenWalk ==
  ASSUME NEW t \in Trees, NEW n \in Int
  PROVE  SetsLen(t, n)
<1> DEFINE S == {u \in AllTrees : u \in Trees => SetsLen(u, n)}
<1>1. Nil \in S
  <2>1. \A e, i : ~At(Sq(Nil), e, i)
    BY SqIs DEF At
  <2> QED
    BY <2>1, AllTreesAre DEF SetsLen
<1>2. ASSUME NEW u \in Node(AllTrees), u.left \in S, u.right \in S PROVE u \in S
  <2> SUFFICES ASSUME u \in Trees, NEW e \in Int, NEW i \in Nat, At(Sq(u), e, i)
               PROVE  /\ SetLenAt(u, e, n) \in AllTrees
                      /\ Sq(SetLenAt(u, e, n)) = Put(Sq(u), i, 1, <<WithLen(Sq(u)[i], n)>>, 0)
                      /\ MySize(SetLenAt(u, e, n)) = MySize(u)
                      /\ (u \in Summed => SetLenAt(u, e, n) \in Summed)
    BY Fields DEF SetsLen
  <2>1. u.left \in Trees /\ u.right \in Trees /\ u # Nil
    BY TreesAre, Fields DEF Node
  <2>2. SetsLen(u.left, n) /\ SetsLen(u.right, n)
    BY <1>2, <2>1
  <2> DEFINE v  == SetLenAt(u, e, n)
             f  == e - u.addPos
             l  == SetLenAt(u.left, f, n)
             r  == SetLenAt(u.right, f, n)
             s  == GetStartIndex(u)
             b  == GetStartIndex(u) + u.len * CHAR_BIT
             k0 == Len(Sq(u.left))
  <2>3. v = IF e < s THEN [u EXCEPT !.left = l]
            ELSE IF e < b THEN [u EXCEPT !.len = n]
            ELSE [u EXCEPT !.right = r]
    BY <2>1, SetLenAtIs
  <2>4. /\ u.addPos \in Int /\ u.mysize \in Int
        /\ u.left \in AllTrees /\ u.right \in AllTrees /\ ItemOf(u) \in Item /\ f \in Int
        /\ MySize(u) = u.mysize /\ s \in Int /\ b \in Int
    BY Fields, Sizes DEF MySize, CHAR_BIT
  <2>5. /\ Sq(u.left) \in Seq(Item) /\ Sq(u.right) \in Seq(Item) /\ Sq(u) \in Seq(Item) /\ k0 \in Nat
        /\ Len(Sq(u.right)) \in Nat
    BY Fields, SqType
  <2>6. Shift(Sq(u.right), 0) = Sq(u.right) /\ Moved(ItemOf(u), 0) = ItemOf(u)
    BY <2>4, <2>5, ShiftTwice, MovedTwice
  <2> HIDE DEF v, f, l, r, s, b, k0
  <2>7. \/ e < s /\ At(Sq(u.left), f, i) /\ i \in 1 .. k0
        \/ s <= e /\ e < b /\ i = k0 + 1
        \/ s < e /\ b <= e /\ \E k \in 1 .. Len(Sq(u.right)) : At(Sq(u.right), f, k) /\ i = k0 + 1 + k
    BY Descend DEF f, s, b, k0
  <2>8. CASE e < s /\ At(Sq(u.left), f, i) /\ i \in 1 .. k0
    <3> DEFINE x == Sq(u.left)[i]
               w == <<WithLen(x, n)>>
    <3>1. /\ l \in AllTrees /\ Sq(l) = Put(Sq(u.left), i, 1, w, 0)
          /\ MySize(l) = MySize(u.left) /\ (u.left \in Summed => l \in Summed)
      BY <2>2, <2>4, <2>8 DEF SetsLen, l
    <3>2. v = [u EXCEPT !.left = l]
      BY <2>3, <2>8
    <3>3. /\ v \in Node(AllTrees) /\ v.left = l /\ v.right = u.right /\ v.addPos = u.addPos
          /\ v.elem = u.elem /\ v.len = u.len /\ v.numOnes = u.numOnes /\ v.mysize = u.mysize
      BY <3>1, <3>2 DEF Node
    <3>4. ItemOf(v) = Moved(ItemOf(u), 0)
      BY <2>6, <3>3 DEF ItemOf, GetStartIndex
    <3>5. x \in Item /\ i \in 1 .. Len(Sq(u.left)) + 1 - 1 /\ 1 \in Nat
      BY <2>5, <2>8, ElementOfSeq DEF k0
    <3>6. WithLen(x, n) \in Item /\ Moved(WithLen(x, n), u.addPos) = WithLen(Moved(x, u.addPos), n)
      <4> HIDE DEF x
      <4> QED
        BY <2>4, <3>5, ResizedItems
    <3>7. w \in Seq(Item) /\ Shift(w, u.addPos) = <<WithLen(Moved(x, u.addPos), n)>>
      <4> DEFINE y == WithLen(x, n)
      <4>1. y \in Item /\ w = <<y>> /\ u.addPos \in Int
        BY <2>4, <3>6
      <4>2. Moved(y, u.addPos) = WithLen(Moved(x, u.addPos), n)
        BY <3>6
      <4> HIDE DEF y, w, x
      <4>3. <<y>> \in Seq(Item) /\ Shift(<<y>>, u.addPos) = <<Moved(y, u.addPos)>>
        BY <4>1, ShiftOne
      <4> QED
        BY <4>1, <4>2, <4>3
    <3>8. Sq(u)[i] = Moved(x, u.addPos)
      BY <2>8, SqNode DEF k0
    <3> HIDE DEF w
    <3>9. Sq(v) = Put(Sq(u), i, 1, Shift(w, u.addPos), 0)
      BY <2>6, <3>1, <3>3, <3>4, <3>5, <3>7, NodeLeft
    <3>10. u \in Summed => v \in Summed
      BY <3>1, <3>3, SummedIs DEF SumRight
    <3>11. MySize(v) = MySize(u) /\ v \in AllTrees
      BY <2>4, <3>3, Fields DEF MySize
    <3> QED
      BY <3>7, <3>8, <3>9, <3>10, <3>11 DEF v
  <2>9. CASE s <= e /\ e < b /\ i = k0 + 1
    <3>2. v = [u EXCEPT !.len = n]
      <4>1. ~(e < s)
        BY <2>4, <2>9
      <4> QED
        BY <2>3, <2>9, <4>1
    <3>3. /\ v \in Node(AllTrees) /\ v.left = u.left /\ v.right = u.right /\ v.addPos = u.addPos
          /\ v.elem = u.elem /\ v.len = n /\ v.numOnes = u.numOnes /\ v.mysize = u.mysize
      BY <3>2 DEF Node
    <3>4. ItemOf(v) = WithLen(ItemOf(u), n)
      BY <3>3 DEF ItemOf, WithLen, GetStartIndex
    <3>5. Sq(u)[i] = ItemOf(u)
      BY <2>9, SqNode DEF k0
    <3>6. Sq(v) = Put(Sq(u), i, 1, <<ItemOf(v)>>, 0)
      BY <2>6, <2>9, <3>3, NodeHere DEF k0
    <3>7. u \in Summed => v \in Summed
      BY <3>3, SummedIs DEF SumRight
    <3>8. MySize(v) = MySize(u) /\ v \in AllTrees
      BY <2>4, <3>3, Fields DEF MySize
    <3> QED
      BY <3>4, <3>5, <3>6, <3>7, <3>8 DEF v
  <2>10. CASE s < e /\ b <= e /\ \E k \in 1 .. Len(Sq(u.right)) : At(Sq(u.right), f, k) /\ i = k0 + 1 + k
    <3>0. PICK k \in 1 .. Len(Sq(u.right)) : At(Sq(u.right), f, k) /\ i = k0 + 1 + k
      BY <2>10
    <3> DEFINE x == Sq(u.right)[k]
               w == <<WithLen(x, n)>>
    <3>1. /\ r \in AllTrees /\ Sq(r) = Put(Sq(u.right), k, 1, w, 0)
          /\ MySize(r) = MySize(u.right) /\ (u.right \in Summed => r \in Summed)
      <4>1. k \in Nat
        BY <2>5
      <4> QED
        BY <2>2, <2>4, <3>0, <4>1 DEF SetsLen, r
    <3>2. v = [u EXCEPT !.right = r]
      <4>1. ~(e < s) /\ ~(e < b)
        BY <2>4, <2>10
      <4> QED
        BY <2>3, <4>1
    <3>3. /\ v \in Node(AllTrees) /\ v.left = u.left /\ v.right = r /\ v.addPos = u.addPos
          /\ v.elem = u.elem /\ v.len = u.len /\ v.numOnes = u.numOnes /\ v.mysize = u.mysize
      BY <2>4, <3>1, <3>2 DEF Node
    <3>4. ItemOf(v) = ItemOf(u)
      BY <3>3 DEF ItemOf, GetStartIndex
    <3>5. x \in Item /\ k \in 1 .. Len(Sq(u.right)) + 1 - 1 /\ 1 \in Nat
      BY <2>5, ElementOfSeq
    <3>6. WithLen(x, n) \in Item /\ Moved(WithLen(x, n), u.addPos) = WithLen(Moved(x, u.addPos), n)
      <4> HIDE DEF x
      <4> QED
        BY <2>4, <3>5, ResizedItems
    <3>7. w \in Seq(Item) /\ Shift(w, u.addPos) = <<WithLen(Moved(x, u.addPos), n)>>
      <4> DEFINE y == WithLen(x, n)
      <4>1. y \in Item /\ w = <<y>> /\ u.addPos \in Int
        BY <2>4, <3>6
      <4>2. Moved(y, u.addPos) = WithLen(Moved(x, u.addPos), n)
        BY <3>6
      <4> HIDE DEF y, w, x
      <4>3. <<y>> \in Seq(Item) /\ Shift(<<y>>, u.addPos) = <<Moved(y, u.addPos)>>
        BY <4>1, ShiftOne
      <4> QED
        BY <4>1, <4>2, <4>3
    <3>8. Sq(u)[i] = Moved(x, u.addPos)
      BY <3>0, SqNode DEF k0
    <3> HIDE DEF w
    <3>9. Sq(v) = Put(Sq(u), i, 1, Shift(w, u.addPos), 0)
      BY <3>0, <3>1, <3>3, <3>4, <3>5, <3>7, NodeRight, SMTT(30) DEF k0
    <3>10. u \in Summed => v \in Summed
      BY <3>1, <3>3, SummedIs DEF SumRight
    <3>11. MySize(v) = MySize(u) /\ v \in AllTrees
      BY <2>4, <3>3, Fields DEF MySize
    <3> QED
      BY <3>7, <3>8, <3>9, <3>10, <3>11 DEF v
  <2> QED
    BY <2>7, <2>8, <2>9, <2>10
<1>3. AllTrees \subseteq S
  <2> HIDE DEF S
  <2> QED
    BY <1>1, <1>2, TreeInduction
<1> QED
  BY <1>3, TreesAre

(* A block at e would come before the i-th, and no block starts there.     *)
Before(q, e, i) ==
  /\ i \in 1 .. Len(q) + 1
  /\ \A j \in 1 .. i - 1 : q[j].start < e
  /\ \A j \in i .. Len(q) : e < q[j].start

(* At a node, the walk of insert takes the side of the place of the        *)
(* block.                                                                  *)
LEMMA DescendBefore ==
  ASSUME NEW t \in Node(AllTrees), NEW e \in Int, NEW i, Before(Sq(t), e, i)
  PROVE  \/ /\ e < GetStartIndex(t)
            /\ Before(Sq(t.left), e - t.addPos, i) /\ i \in 1 .. Len(Sq(t.left)) + 1
         \/ /\ GetStartIndex(t) < e
            /\ \E k \in 1 .. Len(Sq(t.right)) + 1 :
                 Before(Sq(t.right), e - t.addPos, k) /\ i = Len(Sq(t.left)) + 1 + k
<1> DEFINE L == Sq(t.left)
           R == Sq(t.right)
           q == Sq(t)
           a == t.addPos
           l == Len(L)
<1>1. L \in Seq(Item) /\ R \in Seq(Item) /\ a \in Int /\ l \in Nat /\ Len(R) \in Nat
      /\ GetStartIndex(t) \in Int
  BY Fields, SqType
<1>2. /\ \A j \in 1 .. l : L[j].start \in Int
      /\ \A j \in 1 .. Len(R) : R[j].start \in Int
  <2>1. \A j \in 1 .. l : L[j] \in Item
    BY <1>1, ElementOfSeq
  <2>2. \A j \in 1 .. Len(R) : R[j] \in Item
    BY <1>1, ElementOfSeq
  <2> QED
    BY <2>1, <2>2 DEF Item
<1>3. /\ Len(q) = l + 1 + Len(R)
      /\ \A j \in 1 .. l : q[j].start = L[j].start + a
      /\ q[l + 1].start = GetStartIndex(t)
      /\ \A j \in 1 .. Len(R) : q[l + 1 + j].start = R[j].start + a
  <2>1. /\ Len(q) = l + 1 + Len(R)
        /\ \A j \in 1 .. l : q[j] = Moved(L[j], a)
        /\ q[l + 1] = ItemOf(t)
        /\ \A j \in 1 .. Len(R) : q[l + 1 + j] = Moved(R[j], a)
    BY SqNode
  <2>2. \A x : Moved(x, a).start = x.start + a
    BY DEF Moved
  <2>3. ItemOf(t).start = GetStartIndex(t)
    BY DEF ItemOf
  <2> HIDE DEF L, R, q, a, l
  <2> QED
    BY <2>1, <2>2, <2>3
<1>4. /\ i \in 1 .. Len(q) + 1
      /\ \A j \in 1 .. i - 1 : q[j].start < e
      /\ \A j \in i .. Len(q) : e < q[j].start
  BY DEF Before
<1> DEFINE s == GetStartIndex(t)
<1> HIDE DEF L, R, q, a, l, s
<1>5. CASE i <= l + 1
  <2>1. e < s
    <3>1. l + 1 \in i .. Len(q)
      BY <1>1, <1>3, <1>4, <1>5
    <3> QED
      BY <1>3, <1>4, <3>1 DEF s
  <2>2. i \in 1 .. l + 1
    BY <1>1, <1>4, <1>5
  <2>3. \A j \in 1 .. i - 1 : L[j].start < e - a
    <3> TAKE j \in 1 .. i - 1
    <3>1. j \in 1 .. l
      BY <1>1, <2>2
    <3> QED
      BY <1>1, <1>2, <1>3, <1>4, <3>1
  <2>5. \A j \in i .. l : e - a < L[j].start
    <3> TAKE j \in i .. l
    <3>1. j \in 1 .. l /\ j \in i .. Len(q)
      BY <1>1, <1>3, <2>2
    <3> QED
      BY <1>1, <1>2, <1>3, <1>4, <3>1, SMTT(30)
  <2>6. Before(L, e - a, i)
    BY <2>2, <2>3, <2>5 DEF Before, l
  <2> QED
    BY <2>1, <2>2, <2>6 DEF L, a, l, s
<1>7. CASE i > l + 1
  <2>1. PICK k \in 1 .. Len(R) + 1 : i = l + 1 + k
    <3>1. i - (l + 1) \in 1 .. Len(R) + 1 /\ i = l + 1 + (i - (l + 1))
      BY <1>1, <1>3, <1>4, <1>7
    <3> QED
      BY <3>1
  <2>2. s < e
    <3>1. l + 1 \in 1 .. i - 1
      BY <1>1, <1>4, <1>7
    <3> QED
      BY <1>3, <1>4, <3>1 DEF s
  <2>3. \A j \in 1 .. k - 1 : R[j].start < e - a
    <3> TAKE j \in 1 .. k - 1
    <3>1. j \in 1 .. Len(R) /\ l + 1 + j \in 1 .. i - 1
      BY <1>1, <2>1
    <3> DEFINE h == l + 1 + j
    <3>2. h \in 1 .. i - 1 /\ q[h].start = R[j].start + a
      BY <1>3, <3>1
    <3> HIDE DEF h
    <3>3. q[h].start < e
      BY <1>4, <3>2
    <3>4. R[j].start \in Int
      BY <1>2, <3>1
    <3> QED
      BY <1>1, <3>2, <3>3, <3>4
  <2>5. \A j \in k .. Len(R) : e - a < R[j].start
    <3> TAKE j \in k .. Len(R)
    <3>1. j \in 1 .. Len(R) /\ l + 1 + j \in i .. Len(q)
      BY <1>1, <1>3, <2>1
    <3> DEFINE h == l + 1 + j
    <3>2. h \in i .. Len(q) /\ q[h].start = R[j].start + a
      BY <1>3, <3>1
    <3> HIDE DEF h
    <3>3. e < q[h].start
      BY <1>4, <3>2
    <3>4. R[j].start \in Int
      BY <1>2, <3>1
    <3> QED
      BY <1>1, <3>2, <3>3, <3>4
  <2>6. Before(R, e - a, k)
    BY <2>3, <2>5 DEF Before
  <2> QED
    BY <2>1, <2>2, <2>6 DEF L, R, a, l, s
<1> QED
  BY <1>1, <1>4, <1>5, <1>7

(* insert puts the block between those that start before and behind it.    *)
Inserts(t, id, o, n) ==
  \A e \in Int, i \in Nat : Before(Sq(t), e, i) =>
     /\ Insert(t, id, e, o, n) = InsertNew(t, id, e, o, n)
     /\ ~Taken(t, e)
     /\ InsertNew(t, id, e, o, n) \in AllTrees
     /\ Sq(InsertNew(t, id, e, o, n)) = Put(Sq(t), i, 0, <<[len |-> n, ones |-> o, start |-> e]>>, 0)
     /\ (t \in Summed => InsertNew(t, id, e, o, n) \in Summed)

(* Into an empty tree.                                                     *)
LEMMA InsertNil ==
  ASSUME NEW id \in Nat, NEW o \in Int, NEW n \in Int
  PROVE  Inserts(Nil, id, o, n)
<1> SUFFICES ASSUME NEW e \in Int, NEW i \in Nat, Before(Sq(Nil), e, i)
             PROVE  /\ Insert(Nil, id, e, o, n) = InsertNew(Nil, id, e, o, n)
                    /\ ~Taken(Nil, e)
                    /\ InsertNew(Nil, id, e, o, n) \in AllTrees
                    /\ Sq(InsertNew(Nil, id, e, o, n))
                         = Put(Sq(Nil), i, 0, <<[len |-> n, ones |-> o, start |-> e]>>, 0)
                    /\ (Nil \in Summed => InsertNew(Nil, id, e, o, n) \in Summed)
  BY DEF Inserts
<1> DEFINE x == [len |-> n, ones |-> o, start |-> e]
           u == NewNode(id, e, NoPtr, o, n)
<1>1. Nil \in Trees /\ Nil \in AllTrees
  BY TreesAre, AllTreesAre
<1>2. ~Taken(Nil, e)
  BY <1>1, TakenIs
<1>3. InsertNew(Nil, id, e, o, n) = u
  <2> DEFINE z == Nil
             A == NewNode(id, e, NoPtr, o, n)
             C == Rebalance(IF e < GetStartIndex(z)
                            THEN [z EXCEPT !.left = InsertNew(z.left, id, e - z.addPos, o, n)]
                            ELSE [z EXCEPT !.right = InsertNew(z.right, id, e - z.addPos, o, n)])
  <2>1. z \in Trees
    BY <1>1
  <2>2. InsertNew(z, id, e, o, n) = IF z = Nil THEN A ELSE C
    <3> HIDE DEF z
    <3> QED
      BY <2>1, InsertNewIs
  <2> HIDE DEF A, C
  <2> QED
    BY <2>2 DEF A
<1>4. /\ u \in Node(AllTrees) /\ u.left = Nil /\ u.right = Nil /\ u.addPos = 0 /\ u.elem = e /\ u.len = n
      /\ u.numOnes = o /\ u.mysize = o
  <2>1. /\ u.left = Nil /\ u.right = Nil /\ u.addPos = 0 /\ u.elem = e /\ u.len = n
        /\ u.numOnes = o /\ u.mysize = o
    BY DEF NewNode
  <2> DEFINE z == Nil
             p == NoPtr
  <2>2. z \in AllTrees /\ p \in Ptrs
    BY <1>1, PtrAssumption
  <2>3. u = [id |-> id, elem |-> e, ptr |-> p, height |-> 0, mysize |-> o, len |-> n,
             numOnes |-> o, addPos |-> 0, left |-> z, right |-> z]
    BY DEF NewNode
  <2> HIDE DEF u, z, p
  <2>4. u \in Node(AllTrees)
    BY <2>2, <2>3 DEF Node
  <2> QED
    BY <2>1, <2>4
<1> HIDE DEF u
<1>5. ItemOf(u) = x /\ x \in Item
  BY <1>4 DEF ItemOf, GetStartIndex, Item
<1>6. Sq(u) = Three(<<>>, x, <<>>)
  BY <1>4, <1>5, SqFlat, SqIs
<1> HIDE DEF x
<1>7. <<>> \in Seq(Item) /\ Len(<<>>) = 0 /\ <<x>> \in Seq(Item) /\ Len(<<x>>) = 1 /\ <<x>>[1] = x
  BY <1>5
<1>8. i = 1
  <2>1. i \in 1 .. Len(<<>>) + 1
    BY SqIs DEF Before
  <2> QED
    BY <1>7, <2>1
<1> DEFINE p == Three(<<>>, x, <<>>)
           w == <<x>>
           z == <<>>
           r == Put(z, 1, 0, w, 0)
<1>9. p \in Seq(Item) /\ Len(p) = 1 /\ \A j \in 1 .. 1 : p[j] = x
  <2>1. z \in Seq(Item) /\ Len(z) = 0
    BY <1>7
  <2>2. /\ Three(z, x, z) \in Seq(Item) /\ Len(Three(z, x, z)) = Len(z) + 1 + Len(z)
        /\ \A j \in 1 .. Len(z) + 1 + Len(z) :
              Three(z, x, z)[j] = IF j <= Len(z) THEN z[j] ELSE IF j = Len(z) + 1 THEN x ELSE z[j - Len(z) - 1]
    BY <1>5, <2>1, ThreeIs
  <2> HIDE DEF z
  <2>3. Len(z) + 1 + Len(z) = 1
    BY <2>1
  <2> QED
    BY <2>1, <2>2, <2>3 DEF z
<1>10. r \in Seq(Item) /\ Len(r) = 1 /\ \A j \in 1 .. 1 : r[j] = x
  <2>1. z \in Seq(Item) /\ Len(z) = 0 /\ w \in Seq(Item) /\ Len(w) = 1 /\ w[1] = x
    BY <1>7
  <2> HIDE DEF z, w
  <2>2. 1 \in 1 .. Len(z) + 1 - 0 /\ 0 \in Nat /\ 0 \in Int
    BY <2>1
  <2>3. IsItems(r, Len(z) - 0 + Len(w))
    BY <2>1, <2>2, PutItems
  <2>4. 1 \in 1 .. Len(z) - 0 + Len(w) /\ ~(1 < 1) /\ 1 < 1 + Len(w) /\ 1 - 1 + 1 = 1
    BY <2>1
  <2>5. r[1] = w[1]
    BY <2>4, PutAt
  <2> HIDE DEF r
  <2> QED
    BY <2>1, <2>3, <2>5 DEF IsItems
<1>11. p = r
  <2> HIDE DEF p, r
  <2>1. \A j \in 1 .. 1 : p[j] = r[j]
    BY <1>9, <1>10
  <2> QED
    BY <1>9, <1>10, <2>1, SameItems
<1>12. u \in Summed
  <2>1. o = o + 0 + 0
    OBVIOUS
  <2> QED
    BY <1>4, <2>1, SummedIs DEF SumRight, MySize
<1>13. Insert(Nil, id, e, o, n) = InsertNew(Nil, id, e, o, n)
  BY <1>2 DEF Insert
<1>14. u \in AllTrees
  BY <1>4, Fields
<1> QED
  BY <1>2, <1>3, <1>6, <1>8, <1>11, <1>12, <1>13, <1>14, SqIs DEF x

(* insert does that in every tree.                                         *)
LEMMA InsertWalk ==
  ASSUME NEW t \in Trees, NEW id \in Nat, NEW o \in Int, NEW n \in Int
  PROVE  Inserts(t, id, o, n)
<1> DEFINE S == {u \in AllTrees : u \in Trees => Inserts(u, id, o, n)}
<1>1. Nil \in S
  BY InsertNil, AllTreesAre
<1>2. ASSUME NEW u \in Node(AllTrees), u.left \in S, u.right \in S PROVE u \in S
  <2> SUFFICES ASSUME u \in Trees, NEW e \in Int, NEW i \in Nat, Before(Sq(u), e, i)
               PROVE  /\ Insert(u, id, e, o, n) = InsertNew(u, id, e, o, n)
                      /\ ~Taken(u, e)
                      /\ InsertNew(u, id, e, o, n) \in AllTrees
                      /\ Sq(InsertNew(u, id, e, o, n))
                           = Put(Sq(u), i, 0, <<[len |-> n, ones |-> o, start |-> e]>>, 0)
                      /\ (u \in Summed => InsertNew(u, id, e, o, n) \in Summed)
    BY Fields DEF Inserts
  <2>1. u.left \in Trees /\ u.right \in Trees /\ u # Nil
    BY TreesAre, Fields DEF Node
  <2>2. Inserts(u.left, id, o, n) /\ Inserts(u.right, id, o, n)
    BY <1>2, <2>1
  <2> DEFINE v  == InsertNew(u, id, e, o, n)
             f  == e - u.addPos
             l  == InsertNew(u.left, id, f, o, n)
             r  == InsertNew(u.right, id, f, o, n)
             s  == GetStartIndex(u)
             k0 == Len(Sq(u.left))
             x  == [len |-> n, ones |-> o, start |-> f]
             w  == <<x>>
  <2>3. v = IF e < s THEN Rebalance([u EXCEPT !.left = l]) ELSE Rebalance([u EXCEPT !.right = r])
    BY <2>1, InsertNewIs
  <2>4. Taken(u, e) = IF e < s THEN Taken(u.left, f)
                      ELSE IF e > s THEN Taken(u.right, f) ELSE TRUE
    BY <2>1, TakenIs
  <2>5. /\ u.addPos \in Int /\ f \in Int /\ s \in Int
        /\ u.left \in AllTrees /\ u.right \in AllTrees /\ ItemOf(u) \in Item
    BY Fields
  <2>6. /\ Sq(u.left) \in Seq(Item) /\ Sq(u.right) \in Seq(Item) /\ Sq(u) \in Seq(Item) /\ k0 \in Nat
        /\ Len(Sq(u.right)) \in Nat
    BY Fields, SqType
  <2>7. Shift(Sq(u.right), 0) = Sq(u.right) /\ Moved(ItemOf(u), 0) = ItemOf(u)
    BY <2>5, <2>6, ShiftTwice, MovedTwice
  <2>8. x \in Item /\ w \in Seq(Item) /\ Shift(w, u.addPos) = <<[len |-> n, ones |-> o, start |-> e]>>
    <3>1. x \in Item
      BY <2>5 DEF Item
    <3>2. f + u.addPos = e
      BY <2>5
    <3>3. Moved(x, u.addPos) = [len |-> n, ones |-> o, start |-> e]
      BY <3>2 DEF Moved
    <3> HIDE DEF x
    <3> QED
      BY <2>5, <3>1, <3>3, ShiftOne
  <2> HIDE DEF v, f, l, r, s, k0, x, w
  <2>9. \/ e < s /\ Before(Sq(u.left), f, i) /\ i \in 1 .. k0 + 1
        \/ s < e /\ \E k \in 1 .. Len(Sq(u.right)) + 1 : Before(Sq(u.right), f, k) /\ i = k0 + 1 + k
    BY DescendBefore DEF f, s, k0
  <2>10. CASE e < s /\ Before(Sq(u.left), f, i) /\ i \in 1 .. k0 + 1
    <3>1. /\ l \in AllTrees /\ Sq(l) = Put(Sq(u.left), i, 0, w, 0)
          /\ ~Taken(u.left, f) /\ (u.left \in Summed => l \in Summed)
      BY <2>2, <2>5, <2>10 DEF Inserts, l, w, x
    <3> DEFINE y == [u EXCEPT !.left = l]
    <3>2. v = Rebalance(y)
      BY <2>3, <2>10
    <3>3. /\ y \in Node(AllTrees) /\ y.left = l /\ y.right = u.right /\ y.addPos = u.addPos
          /\ y.elem = u.elem /\ y.len = u.len /\ y.numOnes = u.numOnes
      BY <3>1 DEF Node
    <3> HIDE DEF y
    <3>4. ItemOf(y) = Moved(ItemOf(u), 0)
      BY <2>7, <3>3 DEF ItemOf, GetStartIndex
    <3>5. i \in 1 .. Len(Sq(u.left)) + 1 - 0 /\ 0 \in Nat /\ 0 \in Int
      BY <2>6, <2>10 DEF k0
    <3>6. Sq(y) = Put(Sq(u), i, 0, Shift(w, u.addPos), 0)
      BY <2>7, <2>8, <3>1, <3>3, <3>4, <3>5, NodeLeft
    <3>7. v \in Node(AllTrees) /\ Sq(v) = Sq(y) /\ (y.left \in Summed /\ y.right \in Summed => v \in Summed)
      BY <3>2, <3>3, RebalanceIs
    <3>8. u \in Summed => v \in Summed
      BY <3>1, <3>3, <3>7, SummedIs
    <3>9. ~Taken(u, e)
      BY <2>4, <2>10, <3>1
    <3>10. v \in AllTrees
      BY <3>7, Fields
    <3> QED
      BY <2>8, <3>6, <3>7, <3>8, <3>9, <3>10 DEF v, Insert
  <2>11. CASE s < e /\ \E k \in 1 .. Len(Sq(u.right)) + 1 : Before(Sq(u.right), f, k) /\ i = k0 + 1 + k
    <3>0. PICK k \in 1 .. Len(Sq(u.right)) + 1 : Before(Sq(u.right), f, k) /\ i = k0 + 1 + k
      BY <2>11
    <3>1. /\ r \in AllTrees /\ Sq(r) = Put(Sq(u.right), k, 0, w, 0)
          /\ ~Taken(u.right, f) /\ (u.right \in Summed => r \in Summed)
      <4>1. k \in Nat
        BY <2>6
      <4> QED
        BY <2>2, <2>5, <3>0, <4>1 DEF Inserts, r, w, x
    <3> DEFINE y == [u EXCEPT !.right = r]
    <3>2. v = Rebalance(y) /\ ~(e < s) /\ e > s
      <4>1. ~(e < s) /\ e > s
        BY <2>5, <2>11
      <4> QED
        BY <2>3, <4>1
    <3>3. /\ y \in Node(AllTrees) /\ y.left = u.left /\ y.right = r /\ y.addPos = u.addPos
          /\ y.elem = u.elem /\ y.len = u.len /\ y.numOnes = u.numOnes
      BY <3>1 DEF Node
    <3> HIDE DEF y
    <3>4. ItemOf(y) = ItemOf(u)
      BY <3>3 DEF ItemOf, GetStartIndex
    <3>5. k \in 1 .. Len(Sq(u.right)) + 1 - 0 /\ 0 \in Nat /\ 0 \in Int
      BY <2>6
    <3>6. Sq(y) = Put(Sq(u), i, 0, Shift(w, u.addPos), 0)
      BY <2>8, <3>0, <3>1, <3>3, <3>4, <3>5, NodeRight, SMTT(30) DEF k0
    <3>7. v \in Node(AllTrees) /\ Sq(v) = Sq(y) /\ (y.left \in Summed /\ y.right \in Summed => v \in Summed)
      BY <3>2, <3>3, RebalanceIs
    <3>8. u \in Summed => v \in Summed
      BY <3>1, <3>3, <3>7, SummedIs
    <3>9. ~Taken(u, e)
      BY <2>4, <3>1, <3>2
    <3>10. v \in AllTrees
      BY <3>7, Fields
    <3> QED
      BY <2>8, <3>6, <3>7, <3>8, <3>9, <3>10 DEF v, Insert
  <2> QED
    BY <2>9, <2>10, <2>11
<1>3. AllTrees \subseteq S
  <2> HIDE DEF S
  <2> QED
    BY <1>1, <1>2, TreeInduction
<1> QED
  BY <1>3, TreesAre

(***************************************************************************)
(* Sums of ones.                                                           *)
(***************************************************************************)
LEMMA SumToIs ==
  ASSUME NEW S, NEW q \in Seq(S), \A j \in 1 .. Len(q) : q[j].ones \in Int
  PROVE  /\ SumTo(q, 0) = 0
         /\ \A k \in 1 .. Len(q) : SumTo(q, k) = SumTo(q, k - 1) + q[k].ones
         /\ \A k \in 0 .. Len(q) : SumTo(q, k) \in Int
<1> DEFINE B(f, k) == IF k = 0 THEN 0 ELSE f[k - 1] + q[k].ones
           P(f, m) == f = [k \in 0 .. m |-> B(f, k)]
           T == {m \in 0 .. Len(q) : \E f : P(f, m)}
           F == CHOOSE f : f = [k \in 0 .. Len(q) |-> B(f, k)]
<1>0. Len(q) \in Nat
  BY LenProperties
<1>1. \A f, g, k : (k # 0 => f[k - 1] = g[k - 1]) => B(f, k) = B(g, k)
  OBVIOUS
<1> HIDE DEF B
<1>2. 0 \in T
  <2> DEFINE f == [k \in 0 .. 0 |-> B(<<>>, k)]
  <2>1. P(f, 0)
    BY <1>1
  <2> HIDE DEF f
  <2> QED
    BY <1>0, <2>1
<1>3. ASSUME NEW m \in 0 .. Len(q) - 1, m \in T PROVE m + 1 \in T
  <2>1. PICK f : P(f, m)
    BY <1>3
  <2> DEFINE g == [k \in 0 .. m + 1 |-> B(f, k)]
  <2>2. ASSUME NEW k \in 0 .. m + 1 PROVE B(f, k) = B(g, k)
    <3>1. k # 0 => g[k - 1] = f[k - 1]
      <4> SUFFICES ASSUME k # 0 PROVE g[k - 1] = f[k - 1]
        OBVIOUS
      <4>1. k - 1 \in 0 .. m /\ k - 1 \in 0 .. m + 1
        BY <1>0
      <4>2. f[k - 1] = B(f, k - 1)
        BY <2>1, <4>1
      <4> QED
        BY <4>1, <4>2
    <3> HIDE DEF g
    <3> QED
      BY <1>1, <3>1
  <2>3. g = [k \in 0 .. m + 1 |-> B(g, k)]
    BY <2>2
  <2> HIDE DEF g
  <2>4. m + 1 \in 0 .. Len(q)
    BY <1>0
  <2> QED
    BY <2>3, <2>4
<1>4. F = [k \in 0 .. Len(q) |-> B(F, k)]
  <2>1. Len(q) \in T
    <3>1. \A m \in 0 .. Len(q) : m \in T
      <4> HIDE DEF T
      <4> QED
        BY <1>0, <1>2, <1>3, UpTo
    <3> QED
      BY <1>0, <3>1
  <2> QED
    BY <2>1
<1>5. \A k : SumTo(q, k) = F[k]
  BY DEF SumTo, B
<1> HIDE DEF F
<1>6. \A k \in 0 .. Len(q) : F[k] = B(F, k)
  BY <1>4
<1>7. SumTo(q, 0) = 0
  <2>1. 0 \in 0 .. Len(q)
    BY <1>0
  <2> QED
    BY <1>5, <1>6, <2>1 DEF B
<1>8. \A k \in 1 .. Len(q) : SumTo(q, k) = SumTo(q, k - 1) + q[k].ones
  <2> TAKE k \in 1 .. Len(q)
  <2>1. k \in 0 .. Len(q) /\ k # 0
    OBVIOUS
  <2> QED
    BY <1>5, <1>6, <2>1 DEF B
<1> DEFINE U == {k \in 0 .. Len(q) : SumTo(q, k) \in Int}
<1>9. 0 \in U
  BY <1>0, <1>7
<1>10. ASSUME NEW k \in 0 .. Len(q) - 1, k \in U PROVE k + 1 \in U
  <2>1. k + 1 \in 1 .. Len(q) /\ k + 1 \in 0 .. Len(q) /\ (k + 1) - 1 = k
    BY <1>0
  <2> QED
    BY <1>8, <1>10, <2>1
<1>11. \A k \in 0 .. Len(q) : k \in U
  <2> HIDE DEF U
  <2> QED
    BY <1>0, <1>9, <1>10, UpTo
<1> QED
  BY <1>7, <1>8, <1>11

(* The sum of the ones of the first k blocks, block by block.              *)
LEMMA SumItems ==
  ASSUME NEW q \in Seq(Item)
  PROVE  /\ SumTo(q, 0) = 0
         /\ \A k \in 1 .. Len(q) : SumTo(q, k) = SumTo(q, k - 1) + q[k].ones
         /\ \A k \in 0 .. Len(q) : SumTo(q, k) \in Int
<1>1. \A j \in 1 .. Len(q) : q[j] \in Item
  BY ElementOfSeq
<1>2. \A j \in 1 .. Len(q) : q[j].ones \in Int
  BY <1>1 DEF Item
<1> QED
  BY <1>2, SumToIs

(* The same ones have the same sums, wherever the blocks are.              *)
LEMMA SumSame ==
  ASSUME NEW S, NEW q \in Seq(S), NEW p \in Seq(Item), NEW n \in Nat, NEW b \in Nat,
         n <= Len(q), b + n <= Len(p), \A j \in 1 .. Len(q) : q[j].ones \in Int,
         \A j \in 1 .. n : p[b + j].ones = q[j].ones
  PROVE  \A k \in 0 .. n : SumTo(p, b + k) = SumTo(p, b) + SumTo(q, k)
<1> DEFINE T == {k \in 0 .. n : SumTo(p, b + k) = SumTo(p, b) + SumTo(q, k)}
<1>0. Len(q) \in Nat /\ Len(p) \in Nat
  BY LenProperties
<1>1. /\ SumTo(q, 0) = 0
      /\ \A k \in 1 .. Len(q) : SumTo(q, k) = SumTo(q, k - 1) + q[k].ones
      /\ \A k \in 0 .. Len(q) : SumTo(q, k) \in Int
  BY SumToIs
<1>2. /\ \A k \in 1 .. Len(p) : SumTo(p, k) = SumTo(p, k - 1) + p[k].ones
      /\ \A k \in 0 .. Len(p) : SumTo(p, k) \in Int
  BY SumItems
<1>3. 0 \in T
  <2>1. b \in 0 .. Len(p) /\ b + 0 = b
    BY <1>0
  <2> QED
    BY <1>1, <1>2, <2>1
<1>4. ASSUME NEW k \in 0 .. n - 1, k \in T PROVE k + 1 \in T
  <2>1. k + 1 \in 1 .. n /\ k + 1 \in 1 .. Len(q) /\ k \in 0 .. Len(q) /\ (k + 1) - 1 = k
        /\ b + (k + 1) \in 1 .. Len(p) /\ (b + (k + 1)) - 1 = b + k /\ b \in 0 .. Len(p) /\ k + 1 \in 0 .. n
    BY <1>0
  <2>2. SumTo(p, b + (k + 1)) = SumTo(p, b + k) + p[b + (k + 1)].ones
    BY <1>2, <2>1
  <2>3. SumTo(q, k + 1) = SumTo(q, k) + q[k + 1].ones /\ q[k + 1].ones \in Int
    BY <1>1, <2>1
  <2>4. SumTo(p, b + k) = SumTo(p, b) + SumTo(q, k) /\ SumTo(p, b) \in Int /\ SumTo(q, k) \in Int
    BY <1>1, <1>2, <1>4, <2>1
  <2>5. p[b + (k + 1)].ones = q[k + 1].ones
    BY <2>1
  <2>6. SumTo(p, b + (k + 1)) = SumTo(p, b) + SumTo(q, k + 1)
    BY <2>2, <2>3, <2>4, <2>5
  <2> QED
    BY <2>1, <2>6
<1>5. \A k \in 0 .. n : k \in T
  <2> HIDE DEF T
  <2> QED
    BY <1>3, <1>4, UpTo
<1> QED
  BY <1>5

(* The sums in a tree by those in its subtrees.                            *)
LEMMA SumNode ==
  ASSUME NEW t \in Node(AllTrees)
  PROVE  LET l == Len(Sq(t.left))
         IN  /\ \A k \in 0 .. l : SumTo(Sq(t), k) = SumTo(Sq(t.left), k)
             /\ SumTo(Sq(t), l + 1) = SumTo(Sq(t.left), l) + t.numOnes
             /\ \A k \in 0 .. Len(Sq(t.right)) :
                  SumTo(Sq(t), l + 1 + k) = SumTo(Sq(t), l + 1) + SumTo(Sq(t.right), k)
<1> DEFINE L == Sq(t.left)
           R == Sq(t.right)
           q == Sq(t)
           l == Len(L)
<1>1. L \in Seq(Item) /\ R \in Seq(Item) /\ q \in Seq(Item) /\ l \in Nat /\ Len(R) \in Nat
  BY Fields, SqType
<1>2. /\ \A j \in 1 .. l : L[j].ones \in Int
      /\ \A j \in 1 .. Len(R) : R[j].ones \in Int
  <2>1. \A j \in 1 .. l : L[j] \in Item
    BY <1>1, ElementOfSeq
  <2>2. \A j \in 1 .. Len(R) : R[j] \in Item
    BY <1>1, ElementOfSeq
  <2> QED
    BY <2>1, <2>2 DEF Item
<1>3. /\ Len(q) = l + 1 + Len(R)
      /\ \A j \in 1 .. l : q[j].ones = L[j].ones
      /\ q[l + 1].ones = t.numOnes
      /\ \A j \in 1 .. Len(R) : q[l + 1 + j].ones = R[j].ones
  <2> DEFINE a == t.addPos
  <2>1. /\ Len(q) = l + 1 + Len(R)
        /\ \A j \in 1 .. l : q[j] = Moved(L[j], a)
        /\ q[l + 1] = ItemOf(t)
        /\ \A j \in 1 .. Len(R) : q[l + 1 + j] = Moved(R[j], a)
    BY SqNode
  <2>2. \A x : Moved(x, a).ones = x.ones
    BY DEF Moved
  <2>3. ItemOf(t).ones = t.numOnes
    BY DEF ItemOf
  <2> HIDE DEF L, R, q, a, l
  <2> QED
    BY <2>1, <2>2, <2>3
<1> HIDE DEF L, R, q
<1>4. SumTo(q, 0) = 0 /\ \A k \in 1 .. Len(q) : SumTo(q, k) = SumTo(q, k - 1) + q[k].ones
  BY <1>1, SumItems
<1>5. \A k \in 0 .. l : SumTo(L, k) \in Int
  BY <1>1, SumItems
<1> HIDE DEF l
<1>6. \A k \in 0 .. l : SumTo(q, k) = SumTo(L, k)
  <2>1. \A j \in 1 .. l : q[0 + j].ones = L[j].ones
    <3> TAKE j \in 1 .. l
    <3>1. 0 + j = j
      OBVIOUS
    <3> QED
      BY <1>3, <3>1
  <2>2. l <= Len(L) /\ 0 + l <= Len(q) /\ 0 \in Nat
    BY <1>1, <1>3 DEF l
  <2>3. \A k \in 0 .. l : SumTo(q, 0 + k) = SumTo(q, 0) + SumTo(L, k)
    <3>1. \A j \in 1 .. Len(L) : L[j].ones \in Int
      BY <1>2 DEF l
    <3> QED
      BY <1>1, <2>1, <2>2, <3>1, SumSame
  <2> TAKE k \in 0 .. l
  <2>4. 0 + k = k
    BY <1>1
  <2> QED
    BY <1>4, <1>5, <2>3, <2>4
<1>7. SumTo(q, l + 1) = SumTo(L, l) + t.numOnes
  <2>1. l + 1 \in 1 .. Len(q) /\ (l + 1) - 1 = l /\ l \in 0 .. l
    BY <1>1, <1>3
  <2> QED
    BY <1>3, <1>4, <1>6, <2>1
<1>8. \A k \in 0 .. Len(R) : SumTo(q, l + 1 + k) = SumTo(q, l + 1) + SumTo(R, k)
  <2>1. l + 1 \in Nat /\ Len(R) <= Len(R) /\ (l + 1) + Len(R) <= Len(q)
    BY <1>1, <1>3
  <2> QED
    BY <1>1, <1>2, <1>3, <2>1, SumSame
<1> QED
  BY <1>6, <1>7, <1>8 DEF L, R, q, l

(* mysize is the sum of all the ones below.                                *)
LEMMA SizeIsSum ==
  ASSUME NEW t \in Summed
  PROVE  MySize(t) = SumTo(Sq(t), Len(Sq(t)))
<1> DEFINE S == {u \in AllTrees : u \in Summed => MySize(u) = SumTo(Sq(u), Len(Sq(u)))}
<1>1. Nil \in S
  <2>1. <<>> \in Seq(Item) /\ Len(<<>>) = 0
    OBVIOUS
  <2>2. SumTo(<<>>, 0) = 0
    BY <2>1, SumItems
  <2> QED
    BY <2>1, <2>2, SqIs, AllTreesAre DEF MySize
<1>2. ASSUME NEW u \in Node(AllTrees), u.left \in S, u.right \in S PROVE u \in S
  <2> SUFFICES ASSUME u \in Summed PROVE MySize(u) = SumTo(Sq(u), Len(Sq(u)))
    BY Fields
  <2> DEFINE l == Len(Sq(u.left))
             r == Len(Sq(u.right))
  <2>1. /\ MySize(u.left) = SumTo(Sq(u.left), l) /\ MySize(u.right) = SumTo(Sq(u.right), r)
        /\ u.mysize = u.numOnes + MySize(u.left) + MySize(u.right)
    BY <1>2, SummedIs DEF SumRight
  <2>2. l \in Nat /\ r \in Nat /\ Len(Sq(u)) = l + 1 + r
    BY Fields, SqType, SqNode
  <2>3. MySize(u) = u.mysize /\ u.numOnes \in Int /\ MySize(u.left) \in Int /\ MySize(u.right) \in Int
    BY Fields, Sizes DEF MySize
  <2> HIDE DEF l, r
  <2>4. SumTo(Sq(u), l + 1) = SumTo(Sq(u.left), l) + u.numOnes
    BY SumNode DEF l
  <2>5. SumTo(Sq(u), l + 1 + r) = SumTo(Sq(u), l + 1) + SumTo(Sq(u.right), r)
    <3>1. r \in 0 .. Len(Sq(u.right))
      BY <2>2 DEF r
    <3> QED
      BY <3>1, SumNode DEF l
  <2> QED
    BY <2>1, <2>2, <2>3, <2>4, <2>5
<1>3. AllTrees \subseteq S
  <2> HIDE DEF S
  <2> QED
    BY <1>1, <1>2, TreeInduction
<1> QED
  BY <1>3 DEF Summed

(* Without the first block, its ones are missing.                          *)
LEMMA SumWithoutFirst ==
  ASSUME NEW q \in Seq(Item), NEW p \in Seq(Item), Len(q) > 0, Len(p) = Len(q) - 1,
         \A j \in 1 .. Len(p) : p[j].ones = q[j + 1].ones
  PROVE  SumTo(q, Len(q)) = q[1].ones + SumTo(p, Len(p))
<1>0. Len(q) \in Nat /\ Len(p) \in Nat
  BY LenProperties
<1>1. SumTo(q, 0) = 0 /\ SumTo(q, 1) = SumTo(q, 0) + q[1].ones
  <2>1. 1 \in 1 .. Len(q) /\ 1 - 1 = 0
    BY <1>0
  <2> QED
    BY <2>1, SumItems
<1>2. \A j \in 1 .. Len(q) : q[j].ones \in Int
  <2>1. \A j \in 1 .. Len(q) : q[j] \in Item
    BY ElementOfSeq
  <2> QED
    BY <2>1 DEF Item
<1>3. \A j \in 1 .. Len(p) : p[j].ones \in Int
  <2>1. \A j \in 1 .. Len(p) : p[j] \in Item
    BY ElementOfSeq
  <2> QED
    BY <2>1 DEF Item
<1>4. \A j \in 1 .. Len(p) : q[1 + j].ones = p[j].ones
  <2> TAKE j \in 1 .. Len(p)
  <2>1. 1 + j = j + 1
    BY <1>0
  <2> QED
    BY <2>1
<1>5. \A k \in 0 .. Len(p) : SumTo(q, 1 + k) = SumTo(q, 1) + SumTo(p, k)
  <2>1. 1 \in Nat /\ Len(p) <= Len(p) /\ 1 + Len(p) <= Len(q)
    BY <1>0
  <2> QED
    BY <1>0, <1>3, <1>4, <2>1, SumSame
<1>6. 1 + Len(p) = Len(q) /\ Len(p) \in 0 .. Len(p) /\ 1 \in 1 .. Len(q)
  BY <1>0
<1>7. 0 + q[1].ones = q[1].ones
  BY <1>2, <1>6
<1> QED
  BY <1>1, <1>5, <1>6, <1>7

(***************************************************************************)
(* Taking a block out.                                                     *)
(***************************************************************************)
LEMMA NoItems ==
  ASSUME NEW a
  PROVE  <<>> \in Seq(Item) /\ Len(<<>>) = 0 /\ Shift(<<>>, a) = <<>>
<1> QED
  BY DEF Shift

(* One block taken out.                                                    *)
LEMMA DropIs ==
  ASSUME NEW q \in Seq(Item), NEW i \in 1 .. Len(q)
  PROVE  LET p == Put(q, i, 1, <<>>, 0)
         IN  /\ p \in Seq(Item) /\ Len(p) = Len(q) - 1
             /\ \A j \in 1 .. Len(q) - 1 : p[j] = IF j < i THEN q[j] ELSE q[j + 1]
<1> DEFINE w == <<>>
           p == Put(q, i, 1, w, 0)
<1>1. w \in Seq(Item) /\ Len(w) = 0 /\ Len(q) \in Nat
  BY LenProperties
<1> HIDE DEF w
<1>2. i \in 1 .. Len(q) + 1 - 1 /\ 1 \in Nat /\ 0 \in Int
  BY <1>1
<1>3. /\ p \in Seq(Item) /\ Len(p) = Len(q) - 1 + Len(w)
      /\ \A j \in 1 .. Len(q) - 1 + Len(w) : p[j] =
            IF j < i THEN q[j] ELSE IF j < i + Len(w) THEN w[j - i + 1] ELSE Moved(q[j - Len(w) + 1], 0)
  <2>1. IsItems(p, Len(q) - 1 + Len(w))
    BY <1>1, <1>2, PutItems
  <2>2. \A j \in 1 .. Len(q) - 1 + Len(w) : p[j] =
            IF j < i THEN q[j] ELSE IF j < i + Len(w) THEN w[j - i + 1] ELSE Moved(q[j - Len(w) + 1], 0)
    BY PutAt
  <2> HIDE DEF p
  <2> QED
    BY <2>1, <2>2 DEF IsItems
<1> HIDE DEF p
<1>4. ASSUME NEW j \in 1 .. Len(q) - 1 PROVE p[j] = IF j < i THEN q[j] ELSE q[j + 1]
  <2>1. j \in 1 .. Len(q) - 1 + Len(w) /\ (j < i + Len(w) <=> j < i) /\ j - Len(w) + 1 = j + 1
        /\ j + 1 \in 1 .. Len(q)
    BY <1>1
  <2>2. q[j + 1] \in Item
    BY <2>1, ElementOfSeq
  <2>3. Moved(q[j + 1], 0) = q[j + 1]
    BY <2>2, MovedTwice
  <2> QED
    BY <1>3, <2>1, <2>3
<1> QED
  BY <1>1, <1>3, <1>4 DEF p, w

(* The block in the middle taken out: where one side is empty the other    *)
(* is left, and else the first block on the right takes its place.         *)
LEMMA DropHere ==
  ASSUME NEW L \in Seq(Item), NEW R \in Seq(Item), NEW x \in Item
  PROVE  LET p == Put(Three(L, x, R), Len(L) + 1, 1, <<>>, 0)
         IN  /\ Len(L) = 0 => p = R
             /\ Len(R) = 0 => p = L
             /\ Len(R) > 0 => p = Three(L, R[1], Put(R, 1, 1, <<>>, 0))
<1> DEFINE q == Three(L, x, R)
           l == Len(L)
           r == Len(R)
           i == l + 1
           p == Put(q, i, 1, <<>>, 0)
<1>1. l \in Nat /\ r \in Nat
  BY LenProperties
<1>2. /\ q \in Seq(Item) /\ Len(q) = l + 1 + r
      /\ \A j \in 1 .. l + 1 + r : q[j] = IF j <= l THEN L[j] ELSE IF j = l + 1 THEN x ELSE R[j - l - 1]
  BY ThreeIs
<1> HIDE DEF q
<1>3. /\ p \in Seq(Item) /\ Len(p) = l + r
      /\ \A j \in 1 .. l + r : p[j] = IF j <= l THEN L[j] ELSE R[j - l]
  <2>1. i \in 1 .. Len(q) /\ Len(q) - 1 = l + r
    BY <1>1, <1>2
  <2>2. /\ p \in Seq(Item) /\ Len(p) = l + r
        /\ \A j \in 1 .. l + r : p[j] = IF j < i THEN q[j] ELSE q[j + 1]
    <3> HIDE DEF i, l, r
    <3> QED
      BY <1>2, <2>1, DropIs
  <2> HIDE DEF p
  <2>3. ASSUME NEW j \in 1 .. l + r PROVE p[j] = IF j <= l THEN L[j] ELSE R[j - l]
    <3>1. j \in 1 .. l + 1 + r /\ j + 1 \in 1 .. l + 1 + r /\ (j < i <=> j <= l)
          /\ (~(j <= l) => ~(j + 1 <= l) /\ j + 1 # l + 1) /\ (j + 1) - l - 1 = j - l
      BY <1>1
    <3> HIDE DEF i, l
    <3> QED
      BY <1>2, <2>2, <3>1
  <2> QED
    BY <2>2, <2>3
<1> HIDE DEF p
<1>4. ASSUME l = 0 PROVE p = R
  <2>1. l + r = r /\ \A j \in 1 .. r : ~(j <= l) /\ j - l = j
    BY <1>1, <1>4
  <2>2. \A j \in 1 .. r : p[j] = R[j]
    <3> HIDE DEF l, r
    <3> QED
      BY <1>3, <2>1
  <2> QED
    BY <1>3, <2>1, <2>2, SameItems
<1>5. ASSUME r = 0 PROVE p = L
  <2>1. l + r = l /\ \A j \in 1 .. l : j <= l
    BY <1>1, <1>5
  <2>2. \A j \in 1 .. l : p[j] = L[j]
    <3> HIDE DEF l, r
    <3> QED
      BY <1>3, <2>1
  <2> QED
    BY <1>3, <2>1, <2>2, SameItems
<1>6. ASSUME r > 0 PROVE p = Three(L, R[1], Put(R, 1, 1, <<>>, 0))
  <2> DEFINE P1 == Put(R, 1, 1, <<>>, 0)
             s == Three(L, R[1], P1)
  <2>1. 1 \in 1 .. r
    BY <1>1, <1>6
  <2>2. /\ P1 \in Seq(Item) /\ Len(P1) = r - 1
        /\ \A j \in 1 .. r - 1 : P1[j] = IF j < 1 THEN R[j] ELSE R[j + 1]
    BY <2>1, DropIs
  <2>3. R[1] \in Item
    BY <2>1, ElementOfSeq
  <2> HIDE DEF P1
  <2>4. /\ s \in Seq(Item) /\ Len(s) = l + 1 + Len(P1)
        /\ \A j \in 1 .. l + 1 + Len(P1) : s[j] = IF j <= l THEN L[j] ELSE IF j = l + 1 THEN R[1] ELSE P1[j - l - 1]
    BY <2>2, <2>3, ThreeIs, ZenonT(40)
  <2>5. l + 1 + Len(P1) = l + r
    BY <1>1, <2>2
  <2> HIDE DEF s
  <2>6. ASSUME NEW j \in 1 .. l + r PROVE p[j] = s[j]
    <3>1. j = l + 1 => ~(j <= l) /\ j - l = 1
      BY <1>1
    <3>2. ~(j <= l) /\ j # l + 1 => j - l - 1 \in 1 .. r - 1 /\ ~(j - l - 1 < 1) /\ (j - l - 1) + 1 = j - l
      BY <1>1
    <3> HIDE DEF l, r
    <3>3. CASE j <= l
      BY <1>3, <2>4, <2>5, <3>3
    <3>4. CASE j = l + 1
      BY <1>3, <2>4, <2>5, <3>1, <3>4
    <3>5. CASE ~(j <= l) /\ j # l + 1
      BY <1>3, <2>2, <2>4, <2>5, <3>2, <3>5
    <3> QED
      BY <3>3, <3>4, <3>5
  <2> QED
    BY <1>3, <2>4, <2>5, <2>6, SameItems DEF s, P1
<1> QED
  BY <1>4, <1>5, <1>6 DEF p, q

(* A shift keeps a tree as high as it is.                                  *)
LEMMA AddPosTrees ==
  ASSUME NEW t \in Trees, NEW d \in Int
  PROVE  AddPos(t, d) \in Trees
<1>1. CASE t = Nil
  BY <1>1 DEF AddPos
<1>2. CASE t # Nil
  <2>1. MaxHeight # 0 /\ MaxHeight \in Nat
    BY <1>2, UpToNode, HeightAssumption DEF Trees
  <2>2. MaxHeight - 1 \in Nat /\ (MaxHeight - 1) + 1 = MaxHeight
    BY <2>1
  <2>3. t \in Node(TreesUpTo[MaxHeight - 1])
    BY <1>2, <2>2, UpToNode DEF Trees
  <2>4. [t EXCEPT !.addPos = @ + d] \in Node(TreesUpTo[MaxHeight - 1])
    BY <2>3 DEF Node
  <2>5. [t EXCEPT !.addPos = @ + d] \in Trees
    BY <2>2, <2>4, UpToNode DEF Trees
  <2> QED
    BY <1>2, <2>5 DEF AddPos
<1> QED
  BY <1>1, <1>2

(* The empty trees are those without a block.                              *)
LEMMA EmptyTree ==
  ASSUME NEW t \in AllTrees
  PROVE  t = Nil <=> Len(Sq(t)) = 0
<1>1. t = Nil => Len(Sq(t)) = 0
  BY SqIs
<1>2. ASSUME t # Nil PROVE Len(Sq(t)) # 0
  <2>1. t \in Node(AllTrees)
    BY <1>2, Sizes
  <2>2. Len(Sq(t.left)) \in Nat /\ Len(Sq(t.right)) \in Nat
    BY <2>1, Fields, SqType
  <2> QED
    BY <2>1, <2>2, SqNode
<1> QED
  BY <1>1, <1>2

(* The leftmost node and where it starts.                                  *)
IsFirst(m, t, a) ==
  /\ m.node \in Node(AllTrees) /\ m.node.addPos = 0 /\ m.add2 \in Int
  /\ m.node.len = Sq(t)[1].len /\ m.node.numOnes = Sq(t)[1].ones
  /\ m.node.elem + m.add2 = Sq(t)[1].start + a

(* getLeftMost finds the first block.                                      *)
LEMMA LeftmostWalk ==
  ASSUME NEW t \in Trees, t # Nil, NEW a \in Int
  PROVE  IsFirst(Leftmost(t, a), t, a)
<1> DEFINE S == {u \in AllTrees : u \in Trees /\ u # Nil => \A b \in Int : IsFirst(Leftmost(u, b), u, b)}
<1>1. Nil \in S
  BY AllTreesAre
<1>2. ASSUME NEW u \in Node(AllTrees), u.left \in S, u.right \in S PROVE u \in S
  <2> SUFFICES ASSUME u \in Trees, NEW b \in Int PROVE IsFirst(Leftmost(u, b), u, b)
    BY Fields
  <2>1. u.left \in Trees /\ u # Nil /\ u.left \in AllTrees /\ u.addPos \in Int /\ b + u.addPos \in Int
    BY TreesAre, Fields DEF Node
  <2>2. Leftmost(u, b) = IF u.left = Nil THEN [node |-> PropagateAddPos(u), add2 |-> b]
                         ELSE Leftmost(u.left, b + u.addPos)
    BY <2>1, LeftmostIs
  <2>3. CASE u.left = Nil
    <3>1. Sq(u)[1] = ItemOf(u)
      <4>1. Len(Sq(u.left)) = 0
        BY <2>3, SqIs
      <4> QED
        BY <4>1, SqNode
    <3> DEFINE p == PropagateAddPos(u)
    <3>2. p \in Node(AllTrees) /\ p.addPos = 0 /\ p.elem = GetStartIndex(u) /\ p.len = u.len /\ p.numOnes = u.numOnes
      BY PropagateIs
    <3> HIDE DEF p
    <3>3. Leftmost(u, b) = [node |-> p, add2 |-> b]
      BY <2>2, <2>3 DEF p
    <3> QED
      BY <3>1, <3>2, <3>3 DEF IsFirst, ItemOf
  <2>4. CASE u.left # Nil
    <3>1. IsFirst(Leftmost(u.left, b + u.addPos), u.left, b + u.addPos)
      BY <1>2, <2>1, <2>4
    <3>2. 1 \in 1 .. Len(Sq(u.left)) /\ Sq(u.left) \in Seq(Item)
      BY <2>1, <2>4, EmptyTree, SqType
    <3>3. Sq(u)[1] = Moved(Sq(u.left)[1], u.addPos) /\ Sq(u.left)[1] \in Item
      BY <3>2, SqNode, ElementOfSeq
    <3>4. Sq(u)[1].len = Sq(u.left)[1].len /\ Sq(u)[1].ones = Sq(u.left)[1].ones
          /\ Sq(u)[1].start + b = Sq(u.left)[1].start + (b + u.addPos)
      BY <2>1, <3>3 DEF Moved, Item
    <3> QED
      BY <2>2, <2>4, <3>1, <3>4 DEF IsFirst
  <2> QED
    BY <2>3, <2>4
<1>3. AllTrees \subseteq S
  <2> HIDE DEF S
  <2> QED
    BY <1>1, <1>2, TreeInduction
<1> QED
  BY <1>3, TreesAre

(* The successor taken out of the right subtree: all its blocks but the    *)
(* first are left.                                                         *)
LEMMA WithoutWalk ==
  ASSUME NEW t \in Trees, t # Nil
  PROVE  /\ WithoutLeftmost(t) \in AllTrees
         /\ Sq(WithoutLeftmost(t)) = Put(Sq(t), 1, 1, <<>>, 0)
         /\ (t \in Summed => WithoutLeftmost(t) \in Summed)
<1> DEFINE C(u) == /\ WithoutLeftmost(u) \in AllTrees
                   /\ Sq(WithoutLeftmost(u)) = Put(Sq(u), 1, 1, <<>>, 0)
                   /\ (u \in Summed => WithoutLeftmost(u) \in Summed)
           S == {u \in AllTrees : u \in Trees /\ u # Nil => C(u)}
<1>1. Nil \in S
  BY AllTreesAre
<1>2. ASSUME NEW u \in Node(AllTrees), u.left \in S, u.right \in S PROVE u \in S
  <2> SUFFICES ASSUME u \in Trees PROVE C(u)
    BY Fields
  <2>1. u.left \in Trees /\ u # Nil /\ u.left \in AllTrees /\ u.right \in AllTrees /\ u.addPos \in Int
        /\ ItemOf(u) \in Item
    BY TreesAre, Fields DEF Node
  <2>2. WithoutLeftmost(u) = IF u.left = Nil THEN PropagateAddPos(u).right
                             ELSE Rebalance([u EXCEPT !.left = WithoutLeftmost(u.left)])
    BY <2>1, WithoutLeftmostIs
  <2>3. Sq(u.left) \in Seq(Item) /\ Sq(u.right) \in Seq(Item)
    BY <2>1, SqType
  <2>4. CASE u.left = Nil
    <3> DEFINE p == PropagateAddPos(u)
    <3>1. /\ p \in Node(AllTrees) /\ p.addPos = 0 /\ Sq(p) = Sq(u) /\ (p.left = Nil <=> u.left = Nil)
          /\ (u.right \in Summed => p.right \in Summed)
      BY PropagateIs
    <3> HIDE DEF p
    <3>2. WithoutLeftmost(u) = p.right
      BY <2>2, <2>4 DEF p
    <3>3. Sq(u) = Three(<<>>, ItemOf(p), Sq(p.right))
      BY <2>4, <3>1, SqFlat, SqIs
    <3>4. Sq(p.right) \in Seq(Item) /\ ItemOf(p) \in Item /\ p.right \in AllTrees
      BY <3>1, Fields, SqType
    <3> DEFINE z == <<>>
    <3>5. z \in Seq(Item) /\ Len(z) = 0 /\ Len(z) + 1 = 1
      BY NoItems
    <3>6. Put(Three(z, ItemOf(p), Sq(p.right)), Len(z) + 1, 1, <<>>, 0) = Sq(p.right)
      <4> HIDE DEF z
      <4> QED
        BY <3>4, <3>5, DropHere
    <3>7. Put(Sq(u), 1, 1, <<>>, 0) = Sq(p.right)
      BY <3>3, <3>5, <3>6
    <3>8. u \in Summed => p.right \in Summed
      BY <3>1, SummedIs
    <3> QED
      BY <3>2, <3>4, <3>7, <3>8
  <2>5. CASE u.left # Nil
    <3> DEFINE l == WithoutLeftmost(u.left)
               y == [u EXCEPT !.left = l]
               v == Rebalance(y)
               w == <<>>
    <3>1. l \in AllTrees /\ Sq(l) = Put(Sq(u.left), 1, 1, <<>>, 0) /\ (u.left \in Summed => l \in Summed)
      BY <1>2, <2>1, <2>5
    <3> HIDE DEF l
    <3>2. /\ y \in Node(AllTrees) /\ y.left = l /\ y.right = u.right /\ y.addPos = u.addPos
          /\ y.elem = u.elem /\ y.len = u.len /\ y.numOnes = u.numOnes
      BY <3>1 DEF Node
    <3> HIDE DEF y
    <3>3. ItemOf(y) = Moved(ItemOf(u), 0) /\ Sq(y.right) = Shift(Sq(u.right), 0)
      <4>1. ItemOf(y) = ItemOf(u)
        BY <3>2 DEF ItemOf, GetStartIndex
      <4> QED
        BY <2>1, <2>3, <3>2, <4>1, ShiftTwice, MovedTwice
    <3>4. 1 \in 1 .. Len(Sq(u.left)) + 1 - 1 /\ 1 \in Nat /\ 0 \in Int
      <4>1. Len(Sq(u.left)) # 0 /\ Len(Sq(u.left)) \in Nat
        BY <2>1, <2>5, EmptyTree, SqType
      <4> QED
        BY <4>1
    <3>5. w \in Seq(Item) /\ Shift(w, u.addPos) = <<>>
      BY NoItems
    <3>6. Sq(l) = Put(Sq(u.left), 1, 1, w, 0)
      BY <3>1
    <3> HIDE DEF w
    <3>7. Sq(y) = Put(Sq(u), 1, 1, Shift(w, u.addPos), 0)
      BY <3>2, <3>3, <3>4, <3>5, <3>6, NodeLeft
    <3>8. v \in Node(AllTrees) /\ Sq(v) = Sq(y) /\ (y.left \in Summed /\ y.right \in Summed => v \in Summed)
      BY <3>2, RebalanceIs
    <3>9. WithoutLeftmost(u) = v
      BY <2>2, <2>5 DEF l, y
    <3> HIDE DEF v
    <3>10. v \in AllTrees
      BY <3>8, Fields
    <3>11. u \in Summed => v \in Summed
      BY <3>1, <3>2, <3>8, SummedIs
    <3> QED
      BY <3>5, <3>7, <3>8, <3>9, <3>10, <3>11
  <2> QED
    BY <2>4, <2>5
<1>3. AllTrees \subseteq S
  <2> HIDE DEF S
  <2> QED
    BY <1>1, <1>2, TreeInduction
<1> QED
  BY <1>3, TreesAre

(* deleteElem at the node: its child, or its successor, takes its place.   *)
(* mysize of the node stays, so its own ones must be gone before.          *)
LEMMA DeleteNodeIs ==
  ASSUME NEW t \in Node(AllTrees), t \in Trees
  PROVE  /\ DeleteNode(t) \in AllTrees
         /\ Sq(DeleteNode(t)) = Put(Sq(t), Len(Sq(t.left)) + 1, 1, <<>>, 0)
         /\ (t \in Summed /\ t.numOnes = 0 => DeleteNode(t) \in Summed)
<1> DEFINE n == PropagateAddPos(t)
           L == Sq(n.left)
           R == Sq(n.right)
           x == ItemOf(n)
           p == Put(Sq(t), Len(Sq(t.left)) + 1, 1, <<>>, 0)
           min == Leftmost(n.right, 0)
           rest == WithoutLeftmost(n.right)
           h == IF n.right.left = Nil
                THEN 1 + (IF Height(n.left) > Height(rest) THEN Height(n.left) ELSE Height(rest))
                ELSE SetToNode(n, min.node, min.add2).height
           d == [SetToNode(n, min.node, min.add2) EXCEPT !.right = rest, !.height = h]
<1>1. /\ n \in Node(AllTrees) /\ n.addPos = 0 /\ Sq(n) = Sq(t)
      /\ Sq(n.left) = Shift(Sq(t.left), t.addPos)
      /\ n.numOnes = t.numOnes /\ (t \in Summed => n \in Summed)
  BY PropagateIs
<1>2. n.right \in Trees
  <2>1. n.right = AddPos(t.right, t.addPos)
    BY DEF PropagateAddPos, Node
  <2>2. t.right \in Trees /\ t.addPos \in Int
    BY Fields, TreesAre DEF Node
  <2> QED
    BY <2>1, <2>2, AddPosTrees
<1>3. DeleteNode(t) = IF n.left = Nil THEN n.right ELSE IF n.right = Nil THEN n.left ELSE d
  BY DEF DeleteNode
<1> HIDE DEF n, d
<1>4. L \in Seq(Item) /\ R \in Seq(Item) /\ x \in Item /\ n.left \in AllTrees /\ n.right \in AllTrees
      /\ Len(L) \in Nat /\ Len(R) \in Nat
  BY <1>1, Fields, SqType
<1>5. Sq(t) = Three(L, x, R)
  BY <1>1, SqFlat
<1>6. Len(Sq(t.left)) = Len(L)
  <2>1. Sq(t.left) \in Seq(Item) /\ t.addPos \in Int
    BY Fields, SqType
  <2> QED
    BY <1>1, <2>1, ShiftIs
<1>7. /\ Len(L) = 0 => p = R
      /\ Len(R) = 0 => p = L
      /\ Len(R) > 0 => p = Three(L, R[1], Put(R, 1, 1, <<>>, 0))
  <2>1. p = Put(Three(L, x, R), Len(L) + 1, 1, <<>>, 0)
    BY <1>5, <1>6
  <2> HIDE DEF L, R, x, p
  <2> QED
    BY <1>4, <2>1, DropHere
<1>8. (n.left = Nil <=> Len(L) = 0) /\ (n.right = Nil <=> Len(R) = 0)
  BY <1>4, EmptyTree
<1> HIDE DEF p
<1>9. CASE n.left = Nil
  <2>1. t \in Summed => n.right \in Summed
    BY <1>1, SummedIs
  <2> QED
    BY <1>3, <1>4, <1>7, <1>8, <1>9, <2>1 DEF p
<1>10. CASE n.left # Nil /\ n.right = Nil
  <2>1. t \in Summed => n.left \in Summed
    BY <1>1, SummedIs
  <2> QED
    BY <1>3, <1>4, <1>7, <1>8, <1>10, <2>1 DEF p
<1>11. CASE n.left # Nil /\ n.right # Nil
  <2>1. DeleteNode(t) = d
    BY <1>3, <1>11
  <2>2. IsFirst(min, n.right, 0)
    BY <1>2, <1>11, LeftmostWalk
  <2>3. rest \in AllTrees /\ Sq(rest) = Put(R, 1, 1, <<>>, 0) /\ (n.right \in Summed => rest \in Summed)
    BY <1>2, <1>11, WithoutWalk
  <2> HIDE DEF min, rest
  <2>4. h \in Nat
    <3>1. Height(n.left) \in Int /\ Height(n.left) >= -1 /\ Height(rest) \in Int /\ Height(rest) >= -1
          /\ n.height \in Nat
      BY <1>1, <1>4, <2>3, Fields, Sizes
    <3>2. SetToNode(n, min.node, min.add2).height = n.height
      BY <1>1 DEF SetToNode, Node
    <3> DEFINE g == SetToNode(n, min.node, min.add2).height
               a == Height(n.left)
               b == Height(rest)
    <3>3. g \in Nat /\ a \in Int /\ a >= -1 /\ b \in Int /\ b >= -1
      BY <3>1, <3>2
    <3>4. h = IF n.right.left = Nil THEN 1 + (IF a > b THEN a ELSE b) ELSE g
      OBVIOUS
    <3> HIDE DEF g, a, b, h
    <3> QED
      BY <3>3, <3>4
  <2> HIDE DEF h
  <2>5. /\ min.node.len \in Int /\ min.node.numOnes \in Int /\ min.node.elem \in Int /\ min.add2 \in Int
        /\ min.node.ptr \in Ptrs /\ min.node.addPos = 0
    BY <2>2, Fields DEF IsFirst
  <2>6. /\ d \in Node(AllTrees) /\ d.left = n.left /\ d.right = rest /\ d.addPos = 0
        /\ d.elem = min.node.elem + min.add2 /\ d.len = min.node.len /\ d.numOnes = min.node.numOnes
        /\ d.mysize = n.mysize
    <3> DEFINE e == min.node.elem + min.add2
               o == min.node.numOnes
               q == min.node.ptr
               l == min.node.len
               a == min.node.addPos
               z1 == [n EXCEPT !.elem = e]
               z2 == [z1 EXCEPT !.numOnes = o]
               z3 == [z2 EXCEPT !.ptr = q]
               z4 == [z3 EXCEPT !.len = l]
               z5 == [z4 EXCEPT !.addPos = a]
               z6 == [z5 EXCEPT !.right = rest]
               z7 == [z6 EXCEPT !.height = h]
    <3>1. e \in Int /\ o \in Int /\ q \in Ptrs /\ l \in Int /\ a \in Int /\ a = 0
      BY <2>5
    <3>2. d = z7
      <4> HIDE DEF e, o, q, l, a, h
      <4> QED
        BY DEF d, SetToNode, e, o, q, l, a
    <3> HIDE DEF e, o, q, l, a
    <3>3. z1 \in Node(AllTrees)
      BY <1>1, <3>1 DEF Node
    <3>4. /\ z1.left = n.left /\ z1.right = n.right /\ z1.addPos = n.addPos /\ z1.elem = e
          /\ z1.len = n.len /\ z1.numOnes = n.numOnes /\ z1.mysize = n.mysize
      BY <1>1 DEF Node
    <3> HIDE DEF z1
    <3>5. z2 \in Node(AllTrees)
      BY <3>3, <3>1 DEF Node
    <3>6. /\ z2.left = z1.left /\ z2.right = z1.right /\ z2.addPos = z1.addPos /\ z2.elem = z1.elem
          /\ z2.len = z1.len /\ z2.numOnes = o /\ z2.mysize = z1.mysize
      BY <3>3 DEF Node
    <3> HIDE DEF z2
    <3>7. z3 \in Node(AllTrees)
      BY <3>5, <3>1 DEF Node
    <3>8. /\ z3.left = z2.left /\ z3.right = z2.right /\ z3.addPos = z2.addPos /\ z3.elem = z2.elem
          /\ z3.len = z2.len /\ z3.numOnes = z2.numOnes /\ z3.mysize = z2.mysize
      BY <3>5 DEF Node
    <3> HIDE DEF z3
    <3>9. z4 \in Node(AllTrees)
      BY <3>7, <3>1 DEF Node
    <3>10. /\ z4.left = z3.left /\ z4.right = z3.right /\ z4.addPos = z3.addPos /\ z4.elem = z3.elem
          /\ z4.len = l /\ z4.numOnes = z3.numOnes /\ z4.mysize = z3.mysize
      BY <3>7 DEF Node
    <3> HIDE DEF z4
    <3>11. z5 \in Node(AllTrees)
      BY <3>9, <3>1 DEF Node
    <3>12. /\ z5.left = z4.left /\ z5.right = z4.right /\ z5.addPos = a /\ z5.elem = z4.elem
          /\ z5.len = z4.len /\ z5.numOnes = z4.numOnes /\ z5.mysize = z4.mysize
      BY <3>9 DEF Node
    <3> HIDE DEF z5
    <3>13. z6 \in Node(AllTrees)
      BY <3>11, <2>3 DEF Node
    <3>14. /\ z6.left = z5.left /\ z6.right = rest /\ z6.addPos = z5.addPos /\ z6.elem = z5.elem
          /\ z6.len = z5.len /\ z6.numOnes = z5.numOnes /\ z6.mysize = z5.mysize
      BY <3>11 DEF Node
    <3> HIDE DEF z6
    <3>15. z7 \in Node(AllTrees)
      BY <3>13, <2>4 DEF Node
    <3>16. /\ z7.left = z6.left /\ z7.right = z6.right /\ z7.addPos = z6.addPos /\ z7.elem = z6.elem
          /\ z7.len = z6.len /\ z7.numOnes = z6.numOnes /\ z7.mysize = z6.mysize
      BY <3>13 DEF Node
    <3> HIDE DEF z7
    <3> QED
      BY <3>1, <3>2, <3>4, <3>6, <3>8, <3>10, <3>12, <3>14, <3>16, <3>15 DEF e, o, l
  <2>7. Len(R) > 0 /\ 1 \in 1 .. Len(R)
    BY <1>4, <1>8, <1>11
  <2>8. R[1] \in Item
    BY <1>4, <2>7, ElementOfSeq
  <2>9. ItemOf(d) = R[1]
    <3>1. R[1] = [len |-> R[1].len, ones |-> R[1].ones, start |-> R[1].start] /\ R[1].start \in Int
      BY <2>8 DEF Item
    <3>2. /\ min.node.len = R[1].len /\ min.node.numOnes = R[1].ones
          /\ min.node.elem + min.add2 = R[1].start + 0
      BY <2>2 DEF IsFirst
    <3>3. d.elem + d.addPos = R[1].start
      BY <2>5, <2>6, <3>1, <3>2
    <3> HIDE DEF R
    <3> QED
      BY <2>6, <3>1, <3>2, <3>3 DEF ItemOf, GetStartIndex
  <2>10. Sq(d) = p
    BY <1>7, <2>3, <2>6, <2>7, <2>9, SqFlat
  <2>11. ASSUME t \in Summed, t.numOnes = 0 PROVE d \in Summed
    <3>1. /\ n.left \in Summed /\ n.right \in Summed /\ n.mysize = n.numOnes + MySize(n.left) + MySize(n.right)
          /\ n.numOnes = 0 /\ rest \in Summed
      BY <1>1, <2>3, <2>11, SummedIs DEF SumRight
    <3>2. MySize(n.right) = SumTo(R, Len(R)) /\ MySize(rest) = SumTo(Sq(rest), Len(Sq(rest)))
      BY <3>1, SizeIsSum
    <3>3. SumTo(R, Len(R)) = R[1].ones + SumTo(Sq(rest), Len(Sq(rest)))
      <4> DEFINE r == Sq(rest)
      <4>1. /\ r \in Seq(Item) /\ Len(r) = Len(R) - 1
            /\ \A j \in 1 .. Len(R) - 1 : r[j] = IF j < 1 THEN R[j] ELSE R[j + 1]
        <5> HIDE DEF R
        <5> QED
          BY <1>4, <2>3, <2>7, DropIs
      <4>2. \A j \in 1 .. Len(r) : r[j].ones = R[j + 1].ones
        BY <4>1
      <4> HIDE DEF r, R
      <4>3. SumTo(R, Len(R)) = R[1].ones + SumTo(r, Len(r))
        BY <1>4, <2>7, <4>1, <4>2, SumWithoutFirst
      <4> QED
        BY <4>3 DEF r
    <3>4. min.node.numOnes = R[1].ones
      BY <2>2 DEF IsFirst
    <3>5. MySize(n.left) \in Int /\ MySize(n.right) \in Int /\ MySize(rest) \in Int
      BY <1>4, <2>3, Sizes
    <3>6. d.mysize = d.numOnes + MySize(d.left) + MySize(d.right)
      BY <2>5, <2>6, <3>1, <3>2, <3>3, <3>4, <3>5
    <3> QED
      BY <2>6, <3>1, <3>6, SummedIs DEF SumRight
  <2>12. d \in AllTrees
    BY <2>6, Fields
  <2> QED
    BY <2>1, <2>10, <2>11, <2>12 DEF p
<1> QED
  BY <1>9, <1>10, <1>11

Deletes(t) ==
  \A e \in Int, i \in Nat : At(Sq(t), e, i) =>
     /\ DeleteFrom(t, e) \in AllTrees
     /\ Sq(DeleteFrom(t, e)) = Put(Sq(t), i, 1, <<>>, 0)
     /\ (t \in Summed /\ Sq(t)[i].ones = 0 => DeleteFrom(t, e) \in Summed)

(* The block leaves, and the others stay.                                  *)
LEMMA DeleteWalk ==
  ASSUME NEW t \in Trees
  PROVE  Deletes(t)
<1> DEFINE S == {u \in AllTrees : u \in Trees => Deletes(u)}
<1>1. Nil \in S
  <2>1. \A e, i : ~At(Sq(Nil), e, i)
    BY SqIs DEF At
  <2> QED
    BY <2>1, AllTreesAre DEF Deletes
<1>2. ASSUME NEW u \in Node(AllTrees), u.left \in S, u.right \in S PROVE u \in S
  <2> SUFFICES ASSUME u \in Trees, NEW e \in Int, NEW i \in Nat, At(Sq(u), e, i)
               PROVE  /\ DeleteFrom(u, e) \in AllTrees
                      /\ Sq(DeleteFrom(u, e)) = Put(Sq(u), i, 1, <<>>, 0)
                      /\ (u \in Summed /\ Sq(u)[i].ones = 0 => DeleteFrom(u, e) \in Summed)
    BY Fields DEF Deletes
  <2>1. u.left \in Trees /\ u.right \in Trees /\ u # Nil
    BY TreesAre, Fields DEF Node
  <2>2. Deletes(u.left) /\ Deletes(u.right)
    BY <1>2, <2>1
  <2> DEFINE v  == DeleteFrom(u, e)
             f  == e - u.addPos
             l  == DeleteFrom(u.left, f)
             r  == DeleteFrom(u.right, f)
             s  == GetStartIndex(u)
             b  == GetStartIndex(u) + u.len * CHAR_BIT
             k0 == Len(Sq(u.left))
             w  == <<>>
  <2>3. v = IF e < s THEN Rebalance([u EXCEPT !.left = l])
            ELSE IF e < b THEN DeleteNode(u)
            ELSE Rebalance([u EXCEPT !.right = r])
    BY <2>1, DeleteFromIs
  <2>4. /\ u.addPos \in Int
        /\ u.left \in AllTrees /\ u.right \in AllTrees /\ ItemOf(u) \in Item /\ f \in Int
        /\ s \in Int /\ b \in Int
    BY Fields DEF CHAR_BIT
  <2>5. /\ Sq(u.left) \in Seq(Item) /\ Sq(u.right) \in Seq(Item) /\ Sq(u) \in Seq(Item) /\ k0 \in Nat
        /\ Len(Sq(u.right)) \in Nat
    BY Fields, SqType
  <2>6. Shift(Sq(u.right), 0) = Sq(u.right) /\ Moved(ItemOf(u), 0) = ItemOf(u)
    BY <2>4, <2>5, ShiftTwice, MovedTwice
  <2>7. w \in Seq(Item) /\ Shift(w, u.addPos) = <<>>
    BY NoItems
  <2> HIDE DEF v, f, l, r, s, b, k0
  <2>8. \/ e < s /\ At(Sq(u.left), f, i) /\ i \in 1 .. k0
        \/ s <= e /\ e < b /\ i = k0 + 1
        \/ s < e /\ b <= e /\ \E k \in 1 .. Len(Sq(u.right)) : At(Sq(u.right), f, k) /\ i = k0 + 1 + k
    BY Descend DEF f, s, b, k0
  <2>9. CASE e < s /\ At(Sq(u.left), f, i) /\ i \in 1 .. k0
    <3>1. /\ l \in AllTrees /\ Sq(l) = Put(Sq(u.left), i, 1, w, 0)
          /\ (u.left \in Summed /\ Sq(u.left)[i].ones = 0 => l \in Summed)
      BY <2>2, <2>4, <2>9 DEF Deletes, l
    <3> HIDE DEF w
    <3> DEFINE y == [u EXCEPT !.left = l]
    <3>2. v = Rebalance(y)
      BY <2>3, <2>9
    <3>3. /\ y \in Node(AllTrees) /\ y.left = l /\ y.right = u.right /\ y.addPos = u.addPos
          /\ y.elem = u.elem /\ y.len = u.len /\ y.numOnes = u.numOnes
      BY <3>1 DEF Node
    <3> HIDE DEF y
    <3>4. ItemOf(y) = Moved(ItemOf(u), 0)
      BY <2>6, <3>3 DEF ItemOf, GetStartIndex
    <3>5. i \in 1 .. Len(Sq(u.left)) + 1 - 1 /\ 1 \in Nat /\ 0 \in Int
      BY <2>5, <2>9 DEF k0
    <3>6. Sq(y) = Put(Sq(u), i, 1, Shift(w, u.addPos), 0)
      BY <2>6, <2>7, <3>1, <3>3, <3>4, <3>5, NodeLeft
    <3>7. v \in Node(AllTrees) /\ Sq(v) = Sq(y) /\ (y.left \in Summed /\ y.right \in Summed => v \in Summed)
      BY <3>2, <3>3, RebalanceIs
    <3>8. Sq(u)[i].ones = Sq(u.left)[i].ones
      <4>1. Sq(u)[i] = Moved(Sq(u.left)[i], u.addPos)
        BY <2>9, SqNode DEF k0
      <4> QED
        BY <4>1 DEF Moved
    <3>9. u \in Summed /\ Sq(u)[i].ones = 0 => v \in Summed
      BY <3>1, <3>3, <3>7, <3>8, SummedIs
    <3>10. v \in AllTrees
      BY <3>7, Fields
    <3> QED
      BY <2>7, <3>6, <3>7, <3>9, <3>10 DEF v
  <2>10. CASE s <= e /\ e < b /\ i = k0 + 1
    <3>1. v = DeleteNode(u)
      <4>1. ~(e < s)
        BY <2>4, <2>10
      <4> QED
        BY <2>3, <2>10, <4>1
    <3>2. Sq(u)[i].ones = u.numOnes
      <4>1. Sq(u)[i] = ItemOf(u)
        BY <2>10, SqNode DEF k0
      <4> QED
        BY <4>1 DEF ItemOf
    <3> QED
      BY <2>10, <3>1, <3>2, DeleteNodeIs DEF v, k0
  <2>11. CASE s < e /\ b <= e /\ \E k \in 1 .. Len(Sq(u.right)) : At(Sq(u.right), f, k) /\ i = k0 + 1 + k
    <3>0. PICK k \in 1 .. Len(Sq(u.right)) : At(Sq(u.right), f, k) /\ i = k0 + 1 + k
      BY <2>11
    <3>1. /\ r \in AllTrees /\ Sq(r) = Put(Sq(u.right), k, 1, w, 0)
          /\ (u.right \in Summed /\ Sq(u.right)[k].ones = 0 => r \in Summed)
      <4>1. k \in Nat
        BY <2>5
      <4> QED
        BY <2>2, <2>4, <3>0, <4>1 DEF Deletes, r
    <3> HIDE DEF w
    <3> DEFINE y == [u EXCEPT !.right = r]
    <3>2. v = Rebalance(y)
      <4>1. ~(e < s) /\ ~(e < b)
        BY <2>4, <2>11
      <4> QED
        BY <2>3, <4>1
    <3>3. /\ y \in Node(AllTrees) /\ y.left = u.left /\ y.right = r /\ y.addPos = u.addPos
          /\ y.elem = u.elem /\ y.len = u.len /\ y.numOnes = u.numOnes
      BY <3>1 DEF Node
    <3> HIDE DEF y
    <3>4. ItemOf(y) = ItemOf(u)
      BY <3>3 DEF ItemOf, GetStartIndex
    <3>5. k \in 1 .. Len(Sq(u.right)) + 1 - 1 /\ 1 \in Nat /\ 0 \in Int
      BY <2>5
    <3>6. Sq(y) = Put(Sq(u), i, 1, Shift(w, u.addPos), 0)
      BY <2>7, <3>0, <3>1, <3>3, <3>4, <3>5, NodeRight DEF k0
    <3>7. v \in Node(AllTrees) /\ Sq(v) = Sq(y) /\ (y.left \in Summed /\ y.right \in Summed => v \in Summed)
      BY <3>2, <3>3, RebalanceIs
    <3>8. Sq(u)[i].ones = Sq(u.right)[k].ones
      <4>1. Sq(u)[i] = Moved(Sq(u.right)[k], u.addPos)
        BY <3>0, SqNode DEF k0
      <4> QED
        BY <4>1 DEF Moved
    <3>9. u \in Summed /\ Sq(u)[i].ones = 0 => v \in Summed
      BY <3>1, <3>3, <3>7, <3>8, SummedIs
    <3>10. v \in AllTrees
      BY <3>7, Fields
    <3> QED
      BY <2>7, <3>6, <3>7, <3>9, <3>10 DEF v
  <2> QED
    BY <2>8, <2>9, <2>10, <2>11
<1>3. AllTrees \subseteq S
  <2> HIDE DEF S
  <2> QED
    BY <1>1, <1>2, TreeInduction
<1> QED
  BY <1>3, TreesAre

(***************************************************************************)
(* What find and rank return.                                              *)
(***************************************************************************)
Finds(t) ==
  \A E \in Int, a \in Int, i \in Nat : At(Sq(t), E - a, i) =>
     LET b == FindFrom(t, E, a)
     IN  /\ b.node # Nil /\ b.start = Sq(t)[i].start + a
         /\ b.node.len = Sq(t)[i].len /\ b.node.numOnes = Sq(t)[i].ones

(* find does that in every tree.                                           *)
LEMMA FindWalk ==
  ASSUME NEW t \in Trees
  PROVE  Finds(t)
<1> DEFINE S == {u \in AllTrees : u \in Trees => Finds(u)}
<1>1. Nil \in S
  <2>1. \A e, i : ~At(Sq(Nil), e, i)
    BY SqIs DEF At
  <2> QED
    BY <2>1, AllTreesAre DEF Finds
<1>2. ASSUME NEW u \in Node(AllTrees), u.left \in S, u.right \in S PROVE u \in S
  <2> SUFFICES ASSUME u \in Trees, NEW E \in Int, NEW a \in Int, NEW i \in Nat, At(Sq(u), E - a, i)
               PROVE  LET b == FindFrom(u, E, a)
                      IN  /\ b.node # Nil /\ b.start = Sq(u)[i].start + a
                          /\ b.node.len = Sq(u)[i].len /\ b.node.numOnes = Sq(u)[i].ones
    BY Fields DEF Finds
  <2>1. u.left \in Trees /\ u.right \in Trees /\ u # Nil
    BY TreesAre, Fields DEF Node
  <2>2. Finds(u.left) /\ Finds(u.right)
    BY <1>2, <2>1
  <2> DEFINE v  == FindFrom(u, E, a)
             c  == a + u.addPos
             l  == FindFrom(u.left, E, c)
             r  == FindFrom(u.right, E, c)
             s  == GetStartIndex(u)
             b  == GetStartIndex(u) + u.len * CHAR_BIT
             k0 == Len(Sq(u.left))
  <2>3. v = IF E < a + s THEN l
            ELSE IF E < a + s + u.len * CHAR_BIT THEN Found(u, a + s)
            ELSE IF E > a + s THEN r ELSE Found(Nil, 0)
    BY <2>1, FindFromIs
  <2>4. /\ u.addPos \in Int /\ c \in Int /\ s \in Int /\ b \in Int /\ (E - a) - u.addPos = E - c
        /\ a + s + u.len * CHAR_BIT = a + b /\ E - a \in Int
    BY Fields DEF CHAR_BIT
  <2>5. Sq(u.left) \in Seq(Item) /\ Sq(u.right) \in Seq(Item) /\ k0 \in Nat /\ Len(Sq(u.right)) \in Nat
    BY Fields, SqType
  <2> HIDE DEF v, c, l, r, s, b, k0
  <2>6. \/ E - a < s /\ At(Sq(u.left), E - c, i) /\ i \in 1 .. k0
        \/ s <= E - a /\ E - a < b /\ i = k0 + 1
        \/ s < E - a /\ b <= E - a /\ \E k \in 1 .. Len(Sq(u.right)) : At(Sq(u.right), E - c, k) /\ i = k0 + 1 + k
    BY <2>4, Descend DEF s, b, k0
  <2>7. CASE E - a < s /\ At(Sq(u.left), E - c, i) /\ i \in 1 .. k0
    <3>1. /\ l.node # Nil /\ l.start = Sq(u.left)[i].start + c
          /\ l.node.len = Sq(u.left)[i].len /\ l.node.numOnes = Sq(u.left)[i].ones
      BY <2>2, <2>4, <2>7, ZenonT(40) DEF Finds, l
    <3>2. E < a + s
      BY <2>4, <2>7
    <3>3. Sq(u)[i] = Moved(Sq(u.left)[i], u.addPos) /\ Sq(u.left)[i] \in Item
      BY <2>5, <2>7, SqNode, ElementOfSeq DEF k0
    <3>4. /\ Sq(u)[i].len = Sq(u.left)[i].len /\ Sq(u)[i].ones = Sq(u.left)[i].ones
          /\ Sq(u)[i].start + a = Sq(u.left)[i].start + c
      BY <2>4, <3>3 DEF Moved, Item, c
    <3> QED
      BY <2>3, <3>1, <3>2, <3>4 DEF v
  <2>8. CASE s <= E - a /\ E - a < b /\ i = k0 + 1
    <3>1. ~(E < a + s) /\ E < a + b
      BY <2>4, <2>8
    <3>2. v = Found(u, a + s)
      BY <2>3, <2>4, <3>1
    <3>3. Sq(u)[i] = ItemOf(u)
      BY <2>8, SqNode DEF k0
    <3>4. s + a = a + s
      BY <2>4
    <3> QED
      BY <2>1, <3>2, <3>3, <3>4 DEF v, Found, ItemOf, s
  <2>9. CASE s < E - a /\ b <= E - a /\ \E k \in 1 .. Len(Sq(u.right)) : At(Sq(u.right), E - c, k) /\ i = k0 + 1 + k
    <3>0. PICK k \in 1 .. Len(Sq(u.right)) : At(Sq(u.right), E - c, k) /\ i = k0 + 1 + k
      BY <2>9
    <3>1. /\ r.node # Nil /\ r.start = Sq(u.right)[k].start + c
          /\ r.node.len = Sq(u.right)[k].len /\ r.node.numOnes = Sq(u.right)[k].ones
      <4>1. k \in Nat
        BY <2>5
      <4> QED
        BY <2>2, <2>4, <3>0, <4>1, ZenonT(40) DEF Finds, r
    <3>2. ~(E < a + s) /\ ~(E < a + b) /\ E > a + s
      BY <2>4, <2>9
    <3>3. Sq(u)[i] = Moved(Sq(u.right)[k], u.addPos) /\ Sq(u.right)[k] \in Item
      BY <2>5, <3>0, SqNode, ElementOfSeq DEF k0
    <3>4. /\ Sq(u)[i].len = Sq(u.right)[k].len /\ Sq(u)[i].ones = Sq(u.right)[k].ones
          /\ Sq(u)[i].start + a = Sq(u.right)[k].start + c
      BY <2>4, <3>3 DEF Moved, Item, c
    <3>5. v = r
      BY <2>3, <2>4, <3>2
    <3> QED
      BY <3>1, <3>4, <3>5 DEF v
  <2> QED
    BY <2>6, <2>7, <2>8, <2>9
<1>3. AllTrees \subseteq S
  <2> HIDE DEF S
  <2> QED
    BY <1>1, <1>2, TreeInduction
<1> QED
  BY <1>3, TreesAre

(* deleteElem finds the block it is to delete.                             *)
LEMMA DeleteElemIs ==
  ASSUME NEW t \in Trees, NEW e \in Int, NEW i \in Nat, At(Sq(t), e, i)
  PROVE  /\ DeleteElem(t, e) \in AllTrees
         /\ Sq(DeleteElem(t, e)) = Put(Sq(t), i, 1, <<>>, 0)
         /\ (t \in Summed /\ Sq(t)[i].ones = 0 => DeleteElem(t, e) \in Summed)
<1>1. e - 0 = e /\ 0 \in Int
  OBVIOUS
<1>2. Find(t, e).node # Nil
  BY <1>1, FindWalk DEF Finds, Find
<1> QED
  BY <1>2, DeleteWalk DEF Deletes, DeleteElem

(* All blocks end at e or before.                                          *)
Past(q, e) == \A j \in 1 .. Len(q) : q[j].start < e /\ q[j].start + q[j].len * CHAR_BIT <= e

(* find returns no block for a bit behind the last.                        *)
LEMMA FindNone ==
  ASSUME NEW t \in Trees, NEW E \in Int, NEW b \in Int, Past(Sq(t), E - b)
  PROVE  FindFrom(t, E, b).node = Nil
<1> DEFINE S == {u \in AllTrees : u \in Trees => \A a \in Int : Past(Sq(u), E - a) => FindFrom(u, E, a).node = Nil}
<1>1. Nil \in S
  <2>1. Nil \in Trees /\ Nil \in AllTrees
    BY AllTreesAre, TreesAre
  <2>2. \A a \in Int : FindFrom(Nil, E, a) = Found(Nil, 0)
    BY <2>1, FindFromIs
  <2> QED
    BY <2>1, <2>2 DEF Found
<1>2. ASSUME NEW u \in Node(AllTrees), u.left \in S, u.right \in S PROVE u \in S
  <2> SUFFICES ASSUME u \in Trees, NEW a \in Int, Past(Sq(u), E - a) PROVE FindFrom(u, E, a).node = Nil
    BY Fields
  <2>1. u.left \in Trees /\ u.right \in Trees /\ u # Nil
    BY TreesAre, Fields DEF Node
  <2> DEFINE R == Sq(u.right)
             q == Sq(u)
             l == Len(Sq(u.left))
             c == a + u.addPos
             s == GetStartIndex(u)
  <2>2. /\ R \in Seq(Item) /\ l \in Nat /\ Len(R) \in Nat /\ u.addPos \in Int /\ u.len \in Int /\ s \in Int
    BY Fields, SqType
  <2>3. /\ Len(q) = l + 1 + Len(R)
        /\ q[l + 1].len = u.len /\ q[l + 1].start = s
        /\ \A j \in 1 .. Len(R) : q[l + 1 + j].len = R[j].len /\ q[l + 1 + j].start = R[j].start + u.addPos
    <3> DEFINE d == u.addPos
    <3>1. /\ Len(q) = l + 1 + Len(R)
          /\ q[l + 1] = ItemOf(u)
          /\ \A j \in 1 .. Len(R) : q[l + 1 + j] = Moved(R[j], d)
      BY SqNode
    <3>2. \A x : Moved(x, d).len = x.len /\ Moved(x, d).start = x.start + d
      BY DEF Moved
    <3>3. ItemOf(u).len = u.len /\ ItemOf(u).start = s
      BY DEF ItemOf
    <3> HIDE DEF R, q, l, s, d
    <3>4. /\ Len(q) = l + 1 + Len(R)
          /\ q[l + 1].len = u.len /\ q[l + 1].start = s
          /\ \A j \in 1 .. Len(R) : q[l + 1 + j].len = R[j].len /\ q[l + 1 + j].start = R[j].start + d
      BY <3>1, <3>2, <3>3
    <3> QED
      BY <3>4 DEF d
  <2>4. \A j \in 1 .. Len(R) : R[j].start \in Int /\ R[j].len \in Int
    <3>1. \A j \in 1 .. Len(R) : R[j] \in Item
      BY <2>2, ElementOfSeq
    <3> QED
      BY <3>1 DEF Item
  <2>5. \A j \in 1 .. Len(q) : q[j].start < E - a /\ q[j].start + q[j].len * 8 <= E - a
    BY DEF Past, CHAR_BIT
  <2>6. FindFrom(u, E, a) = IF E < a + s THEN FindFrom(u.left, E, c)
                            ELSE IF E < a + s + u.len * 8 THEN Found(u, a + s)
                            ELSE IF E > a + s THEN FindFrom(u.right, E, c) ELSE Found(Nil, 0)
    BY <2>1, FindFromIs DEF CHAR_BIT
  <2> HIDE DEF R, q, l, s
  <2>7. s < E - a /\ s + u.len * 8 <= E - a
    <3>1. l + 1 \in 1 .. Len(q)
      BY <2>2, <2>3
    <3> QED
      BY <2>3, <2>5, <3>1
  <2>8. ~(E < a + s) /\ ~(E < a + s + u.len * 8) /\ E > a + s
    BY <2>2, <2>7
  <2>9. \A j \in 1 .. Len(R) : R[j].start < E - c /\ R[j].start + R[j].len * 8 <= E - c
    <3> TAKE j \in 1 .. Len(R)
    <3>1. l + 1 + j \in 1 .. Len(q)
      BY <2>2, <2>3
    <3> DEFINE h == l + 1 + j
    <3>2. h \in 1 .. Len(q) /\ q[h].len = R[j].len /\ q[h].start = R[j].start + u.addPos
      BY <2>3, <3>1
    <3> HIDE DEF h
    <3>3. q[h].start < E - a /\ q[h].start + q[h].len * 8 <= E - a
      BY <2>5, <3>2
    <3>4. R[j].start \in Int /\ R[j].len \in Int
      BY <2>4
    <3> DEFINE x == R[j].start
               y == R[j].len
               z == q[h].start
               d == u.addPos
    <3>5. z = x + d /\ x \in Int /\ y \in Int /\ d \in Int /\ z < E - a /\ z + y * 8 <= E - a /\ c = a + d
      BY <2>2, <3>2, <3>3, <3>4
    <3> HIDE DEF x, y, z, d, c
    <3>6. x < E - c /\ x + y * 8 <= E - c
      BY <3>5
    <3> QED
      BY <3>6 DEF x, y
  <2>10. Past(R, E - c) /\ c \in Int
    BY <2>2, <2>9 DEF Past, CHAR_BIT
  <2> HIDE DEF c
  <2> QED
    BY <1>2, <2>1, <2>6, <2>8, <2>10 DEF R
<1>3. AllTrees \subseteq S
  <2> HIDE DEF S
  <2> QED
    BY <1>1, <1>2, TreeInduction
<1> QED
  BY <1>3, TreesAre

(* A bit before all blocks has no ones before it.                          *)
LEMMA RankNone ==
  ASSUME NEW t \in Trees, NEW f \in Int, \A j \in 1 .. Len(Sq(t)) : f < Sq(t)[j].start
  PROVE  Rank(t, f) = [elements |-> 0, node |-> Nil, num |-> 0]
<1> DEFINE C(u, e) == \A j \in 1 .. Len(Sq(u)) : e < Sq(u)[j].start
           S == {u \in AllTrees : u \in Trees => \A e \in Int : C(u, e) => Rank(u, e) = [elements |-> 0, node |-> Nil, num |-> 0]}
<1>1. Nil \in S
  <2>1. Nil \in Trees /\ Nil \in AllTrees
    BY AllTreesAre, TreesAre
  <2>2. \A e \in Int : Rank(Nil, e) = [elements |-> 0, node |-> Nil, num |-> 0]
    BY <2>1, RankIs
  <2> QED
    BY <2>1, <2>2
<1>2. ASSUME NEW u \in Node(AllTrees), u.left \in S, u.right \in S PROVE u \in S
  <2> SUFFICES ASSUME u \in Trees, NEW e \in Int, C(u, e) PROVE Rank(u, e) = [elements |-> 0, node |-> Nil, num |-> 0]
    BY Fields
  <2>1. u.left \in Trees /\ u # Nil
    BY TreesAre, Fields DEF Node
  <2> DEFINE L == Sq(u.left)
             l == Len(L)
  <2>2. L \in Seq(Item) /\ l \in Nat /\ Len(Sq(u.right)) \in Nat /\ u.addPos \in Int /\ e - u.addPos \in Int
    BY Fields, SqType
  <2>3. /\ Len(Sq(u)) = l + 1 + Len(Sq(u.right)) /\ Sq(u)[l + 1].start = GetStartIndex(u)
        /\ \A j \in 1 .. l : Sq(u)[j].start = L[j].start + u.addPos
    <3> DEFINE d == u.addPos
               q == Sq(u)
               s == GetStartIndex(u)
    <3>1. /\ Len(q) = l + 1 + Len(Sq(u.right))
          /\ q[l + 1] = ItemOf(u)
          /\ \A j \in 1 .. l : q[j] = Moved(L[j], d)
      BY SqNode
    <3>2. \A x : Moved(x, d).start = x.start + d
      BY DEF Moved
    <3>3. ItemOf(u).start = s
      BY DEF ItemOf
    <3> HIDE DEF L, q, l, s, d
    <3>4. q[l + 1].start = s /\ \A j \in 1 .. l : q[j].start = L[j].start + d
      BY <3>1, <3>2, <3>3
    <3> QED
      BY <3>1, <3>4 DEF d, s, q
  <2>4. \A j \in 1 .. l : L[j].start \in Int
    <3>1. \A j \in 1 .. l : L[j] \in Item
      BY <2>2, ElementOfSeq
    <3> QED
      BY <3>1 DEF Item
  <2> HIDE DEF L, l
  <2>5. e < GetStartIndex(u)
    <3>1. l + 1 \in 1 .. Len(Sq(u))
      BY <2>2, <2>3
    <3> QED
      BY <2>3, <3>1
  <2>6. \A j \in 1 .. l : e - u.addPos < L[j].start
    <3> TAKE j \in 1 .. l
    <3>1. j \in 1 .. Len(Sq(u))
      BY <2>2, <2>3
    <3> QED
      BY <2>2, <2>3, <2>4, <3>1
  <2>7. Rank(u, e) = Rank(u.left, e - u.addPos)
    BY <2>1, <2>5, RankIs
  <2> QED
    BY <1>2, <2>1, <2>2, <2>6, <2>7 DEF L, l
<1>3. AllTrees \subseteq S
  <2> HIDE DEF S
  <2> QED
    BY <1>1, <1>2, TreeInduction
<1> QED
  BY <1>3, TreesAre

RankResult == [elements : Int, node : AllTrees, num : Int]

(* rank counts the ones of the blocks before that of bit e.                *)
Ranks(t) ==
  \A e \in Int, i \in Nat : At(Sq(t), e, i) =>
     LET q == Sq(t)
         r == Rank(t, e)
     IN  /\ r \in RankResult
         /\ e - q[i].start = q[i].len * CHAR_BIT - 1 => r.node = Nil /\ r.elements = SumTo(q, i)
         /\ e - q[i].start # q[i].len * CHAR_BIT - 1 =>
               /\ r.elements = SumTo(q, i - 1)
               /\ r.node # Nil /\ r.node.len = q[i].len /\ r.num = e - q[i].start

(* rank does that in every tree.                                           *)
LEMMA RankWalk ==
  ASSUME NEW t \in Trees, t \in Summed
  PROVE  Ranks(t)
<1> DEFINE S == {u \in AllTrees : u \in Trees /\ u \in Summed => Ranks(u)}
<1>1. Nil \in S
  <2>1. \A e, i : ~At(Sq(Nil), e, i)
    BY SqIs DEF At
  <2> QED
    BY <2>1, AllTreesAre DEF Ranks
<1>2. ASSUME NEW u \in Node(AllTrees), u.left \in S, u.right \in S PROVE u \in S
  <2> DEFINE q == Sq(u)
             C(e, i) == /\ Rank(u, e) \in RankResult
                        /\ e - q[i].start = q[i].len * 8 - 1 => Rank(u, e).node = Nil /\ Rank(u, e).elements = SumTo(q, i)
                        /\ e - q[i].start # q[i].len * 8 - 1 =>
                              /\ Rank(u, e).elements = SumTo(q, i - 1)
                              /\ Rank(u, e).node # Nil /\ Rank(u, e).node.len = q[i].len
                              /\ Rank(u, e).num = e - q[i].start
  <2> SUFFICES ASSUME u \in Trees, u \in Summed, NEW e \in Int, NEW i \in Nat, At(Sq(u), e, i) PROVE C(e, i)
    BY Fields DEF Ranks, CHAR_BIT
  <2>1. u.left \in Trees /\ u.right \in Trees /\ u # Nil
    BY TreesAre, Fields DEF Node
  <2>2. u.left \in Summed /\ u.right \in Summed /\ u.mysize = u.numOnes + MySize(u.left) + MySize(u.right)
    BY SummedIs DEF SumRight
  <2>3. Ranks(u.left) /\ Ranks(u.right)
    BY <1>2, <2>1, <2>2
  <2> DEFINE v  == Rank(u, e)
             f  == e - u.addPos
             lr == Rank(u.left, f)
             rr == Rank(u.right, f)
             s  == GetStartIndex(u)
             L  == Sq(u.left)
             R  == Sq(u.right)
             k0 == Len(L)
  <2>4. v = IF e < s THEN lr
            ELSE IF e - s >= u.len * 8 - 1
            THEN [rr EXCEPT !.elements = @ + MySize(u) - MySize(u.right)]
            ELSE [elements |-> MySize(u.left), node |-> u, num |-> e - s]
    BY <2>1, RankIs DEF CHAR_BIT
  <2>5. /\ u.addPos \in Int /\ f \in Int /\ s \in Int /\ u.len \in Int /\ u.numOnes \in Int /\ MySize(u) = u.mysize
        /\ MySize(u.left) \in Int /\ MySize(u.right) \in Int /\ u \in AllTrees
    BY Fields, Sizes DEF MySize
  <2>6. L \in Seq(Item) /\ R \in Seq(Item) /\ k0 \in Nat /\ Len(R) \in Nat
    BY Fields, SqType
  <2>7. \A k \in 0 .. Len(R) : SumTo(R, k) \in Int
    BY <2>6, SumItems
  <2>8. MySize(u.left) = SumTo(L, k0)
    BY <2>2, SizeIsSum
  <2>9. MySize(u) - MySize(u.right) = SumTo(q, k0 + 1)
    <3>1. SumTo(q, k0 + 1) = SumTo(L, k0) + u.numOnes
      BY SumNode
    <3> HIDE DEF q, k0, L
    <3> QED
      BY <2>2, <2>5, <2>8, <3>1
  <2>10. /\ \A k \in 0 .. k0 : SumTo(q, k) = SumTo(L, k)
         /\ \A k \in 0 .. Len(R) : SumTo(q, k0 + 1 + k) = SumTo(q, k0 + 1) + SumTo(R, k)
    BY SumNode
  <2> HIDE DEF v, f, lr, rr, s, k0, L, R, q
  <2>11. \/ e < s /\ At(L, f, i) /\ i \in 1 .. k0
         \/ s <= e /\ e < s + u.len * 8 /\ i = k0 + 1
         \/ s < e /\ s + u.len * 8 <= e /\ \E k \in 1 .. Len(R) : At(R, f, k) /\ i = k0 + 1 + k
    BY Descend DEF f, s, k0, L, R, CHAR_BIT
  <2>12. CASE e < s /\ At(L, f, i) /\ i \in 1 .. k0
    <3>1. /\ lr \in RankResult
          /\ f - L[i].start = L[i].len * 8 - 1 => lr.node = Nil /\ lr.elements = SumTo(L, i)
          /\ f - L[i].start # L[i].len * 8 - 1 =>
                /\ lr.elements = SumTo(L, i - 1)
                /\ lr.node # Nil /\ lr.node.len = L[i].len /\ lr.num = f - L[i].start
      BY <2>3, <2>5, <2>12 DEF Ranks, lr, L, CHAR_BIT
    <3>2. q[i] = Moved(L[i], u.addPos) /\ L[i] \in Item
      BY <2>6, <2>12, SqNode, ElementOfSeq DEF k0, L, q
    <3>3. q[i].len = L[i].len /\ e - q[i].start = f - L[i].start
      BY <2>5, <3>2 DEF Moved, Item, f
    <3>4. SumTo(q, i) = SumTo(L, i) /\ SumTo(q, i - 1) = SumTo(L, i - 1)
      <4>1. i \in 0 .. k0 /\ i - 1 \in 0 .. k0
        BY <2>6, <2>12
      <4> QED
        BY <2>10, <4>1
    <3>5. v = lr
      BY <2>4, <2>12
    <3>6. /\ v \in RankResult
          /\ e - q[i].start = q[i].len * 8 - 1 => v.node = Nil /\ v.elements = SumTo(q, i)
          /\ e - q[i].start # q[i].len * 8 - 1 =>
                /\ v.elements = SumTo(q, i - 1)
                /\ v.node # Nil /\ v.node.len = q[i].len /\ v.num = e - q[i].start
      <4> DEFINE a == f - L[i].start
                 b == L[i].len
      <4>1. e - q[i].start = a /\ q[i].len = b /\ f - L[i].start = a /\ L[i].len = b
        BY <3>3
      <4> HIDE DEF a, b
      <4> QED
        BY <3>1, <3>4, <3>5, <4>1
    <3> QED
      BY <3>6 DEF v
  <2>13. CASE s <= e /\ e < s + u.len * 8 /\ i = k0 + 1
    <3>1. q[i].len = u.len /\ q[i].start = s
      <4>1. q[i] = ItemOf(u)
        BY <2>13, SqNode DEF k0, q, L
      <4> QED
        BY <4>1 DEF ItemOf, s
    <3>2. ~(e < s)
      BY <2>5, <2>13
    <3>3. ASSUME e - s = u.len * 8 - 1 PROVE v \in RankResult /\ v.node = Nil /\ v.elements = SumTo(q, i)
      <4>1. \A j \in 1 .. Len(R) : f < R[j].start
        <5> TAKE j \in 1 .. Len(R)
        <5>1. q[k0 + 1 + j] = Moved(R[j], u.addPos) /\ Len(q) = k0 + 1 + Len(R)
          BY SqNode DEF k0, L, R, q
        <5>2. R[j] \in Item
          BY <2>6, ElementOfSeq
        <5>3. k0 + 1 + j \in i + 1 .. Len(q)
          BY <2>6, <2>13, <5>1
        <5>4. e < q[k0 + 1 + j].start
          BY <5>3 DEF At, q
        <5> QED
          BY <2>5, <5>1, <5>2, <5>4 DEF Moved, Item, f
      <4>2. rr = [elements |-> 0, node |-> Nil, num |-> 0]
        BY <2>1, <2>5, <4>1, RankNone DEF rr, R
      <4>3. e - s >= u.len * 8 - 1
        BY <2>5, <3>3
      <4>4. v = [rr EXCEPT !.elements = @ + MySize(u) - MySize(u.right)]
        BY <2>4, <3>2, <4>3
      <4>5. v = [elements |-> 0 + MySize(u) - MySize(u.right), node |-> Nil, num |-> 0]
        BY <4>2, <4>4
      <4>6. 0 + MySize(u) - MySize(u.right) = SumTo(q, i) /\ SumTo(q, i) \in Int
        BY <2>2, <2>5, <2>9, <2>13
      <4>7. Nil \in AllTrees
        BY AllTreesAre
      <4> QED
        BY <4>5, <4>6, <4>7 DEF RankResult
    <3>4. ASSUME e - s # u.len * 8 - 1
          PROVE  /\ v \in RankResult /\ v.elements = SumTo(q, i - 1)
                 /\ v.node # Nil /\ v.node.len = q[i].len /\ v.num = e - s
      <4>1. ~(e - s >= u.len * 8 - 1)
        BY <2>5, <2>13, <3>4
      <4>2. v = [elements |-> MySize(u.left), node |-> u, num |-> e - s]
        BY <2>4, <3>2, <4>1
      <4>3. i - 1 = k0 /\ k0 \in 0 .. k0
        BY <2>6, <2>13
      <4>4. MySize(u.left) = SumTo(q, i - 1)
        BY <2>8, <2>10, <4>3
      <4>5. e - s \in Int
        BY <2>5
      <4> QED
        BY <2>1, <2>5, <3>1, <4>2, <4>4, <4>5 DEF RankResult
    <3> QED
      BY <3>1, <3>3, <3>4 DEF v
  <2>14. CASE s < e /\ s + u.len * 8 <= e /\ \E k \in 1 .. Len(R) : At(R, f, k) /\ i = k0 + 1 + k
    <3>0. PICK k \in 1 .. Len(R) : At(R, f, k) /\ i = k0 + 1 + k
      BY <2>14
    <3>1. /\ rr \in RankResult
          /\ f - R[k].start = R[k].len * 8 - 1 => rr.node = Nil /\ rr.elements = SumTo(R, k)
          /\ f - R[k].start # R[k].len * 8 - 1 =>
                /\ rr.elements = SumTo(R, k - 1)
                /\ rr.node # Nil /\ rr.node.len = R[k].len /\ rr.num = f - R[k].start
      <4>1. k \in Nat
        BY <2>6
      <4> QED
        BY <2>3, <2>5, <3>0, <4>1 DEF Ranks, rr, R, CHAR_BIT
    <3>2. q[i] = Moved(R[k], u.addPos) /\ R[k] \in Item
      BY <2>6, <3>0, SqNode, ElementOfSeq DEF k0, L, R, q
    <3>3. q[i].len = R[k].len /\ e - q[i].start = f - R[k].start
      BY <2>5, <3>2 DEF Moved, Item, f
    <3>4. SumTo(q, i) = SumTo(q, k0 + 1) + SumTo(R, k) /\ SumTo(q, i - 1) = SumTo(q, k0 + 1) + SumTo(R, k - 1)
          /\ SumTo(R, k) \in Int /\ SumTo(R, k - 1) \in Int
      <4>1. k \in 0 .. Len(R) /\ k - 1 \in 0 .. Len(R) /\ i - 1 = k0 + 1 + (k - 1)
        BY <2>6, <3>0
      <4> QED
        BY <2>7, <2>10, <3>0, <4>1
    <3>5. ~(e < s) /\ e - s >= u.len * 8 - 1
      BY <2>5, <2>14
    <3>6. v = [rr EXCEPT !.elements = @ + MySize(u) - MySize(u.right)]
      BY <2>4, <3>5
    <3>7. rr.elements + MySize(u) - MySize(u.right) = SumTo(q, k0 + 1) + rr.elements /\ rr.elements \in Int
          /\ rr.elements + MySize(u) - MySize(u.right) \in Int
      <4>1. rr.elements \in Int
        BY <3>1 DEF RankResult
      <4>2. MySize(u) \in Int
        BY <2>2, <2>5
      <4> QED
        BY <2>5, <2>9, <4>1, <4>2
    <3>8. v \in RankResult /\ v.node = rr.node /\ v.num = rr.num /\ v.elements = SumTo(q, k0 + 1) + rr.elements
      <4> DEFINE n == rr.elements + MySize(u) - MySize(u.right)
      <4>1. v = [rr EXCEPT !.elements = n] /\ n \in Int /\ n = SumTo(q, k0 + 1) + rr.elements
        BY <3>6, <3>7
      <4> HIDE DEF n
      <4> QED
        BY <3>1, <4>1 DEF RankResult
    <3> QED
      BY <3>1, <3>3, <3>4, <3>8 DEF v
  <2> QED
    BY <2>11, <2>12, <2>13, <2>14
<1>3. AllTrees \subseteq S
  <2> HIDE DEF S
  <2> QED
    BY <1>1, <1>2, TreeInduction
<1> QED
  BY <1>3, TreesAre

(***************************************************************************)
(* The invariant.                                                          *)
(***************************************************************************)
EndOf(x) == x.start + CHAR_BIT * x.len

(* Blocks of lengths and ones they can have, each where the last one ends. *)
Good(q) ==
  /\ Len(q) <= MaxBlocks
  /\ \A j \in 1 .. Len(q) : q[j].len \in Lens /\ q[j].ones \in Ones
  /\ \A j \in 1 .. Len(q) : q[j].start = IF j = 1 THEN 0 ELSE EndOf(q[j - 1])

Valid(t) == t \in AllTrees /\ t \in Summed /\ Good(Sq(t))

IInv == Valid(tree)

(* What is known of the items of good blocks.                              *)
LEMMA GoodItems ==
  ASSUME NEW q \in Seq(Item), Good(q)
  PROVE  /\ Len(q) \in Nat /\ Len(q) <= MaxBlocks
         /\ \A j \in 1 .. Len(q) :
              /\ q[j] \in Item /\ q[j].start \in Int /\ q[j].len \in Int /\ q[j].ones \in Int
              /\ q[j].len \in Lens /\ q[j].ones \in Ones /\ q[j].len >= 4 /\ q[j].len % 4 = 0
              /\ EndOf(q[j]) = q[j].start + 8 * q[j].len /\ EndOf(q[j]) \in Int
              /\ EndOf(q[j]) > q[j].start
<1>1. Len(q) \in Nat /\ Len(q) <= MaxBlocks
  BY LenProperties DEF Good
<1>2. ASSUME NEW j \in 1 .. Len(q)
      PROVE  /\ q[j] \in Item /\ q[j].start \in Int /\ q[j].len \in Int /\ q[j].ones \in Int
             /\ q[j].len \in Lens /\ q[j].ones \in Ones /\ q[j].len >= 4 /\ q[j].len % 4 = 0
             /\ EndOf(q[j]) = q[j].start + 8 * q[j].len /\ EndOf(q[j]) \in Int
             /\ EndOf(q[j]) > q[j].start
  <2>1. q[j] \in Item
    BY ElementOfSeq
  <2>2. q[j].start \in Int /\ q[j].len \in Int /\ q[j].ones \in Int
    BY <2>1 DEF Item
  <2>3. q[j].len \in Lens /\ q[j].ones \in Ones
    BY DEF Good
  <2>4. q[j].len > 0 /\ q[j].len % 4 = 0
    BY <2>3, LensAssumption
  <2>5. q[j].len >= 4
    BY <2>2, <2>4
  <2> QED
    BY <2>1, <2>2, <2>3, <2>4, <2>5 DEF EndOf, CHAR_BIT
<1> QED
  BY <1>1, <1>2

(* A block ends before all that come behind it start.                      *)
LEMMA Ordered ==
  ASSUME NEW q \in Seq(Item), Good(q)
  PROVE  \A j, k \in 1 .. Len(q) : j < k => EndOf(q[j]) <= q[k].start
<1>0. /\ Len(q) \in Nat
      /\ \A j \in 1 .. Len(q) : q[j].start \in Int /\ EndOf(q[j]) \in Int /\ EndOf(q[j]) > q[j].start
  BY GoodItems
<1> SUFFICES ASSUME NEW j \in 1 .. Len(q) PROVE \A k \in 1 .. Len(q) : j < k => EndOf(q[j]) <= q[k].start
  OBVIOUS
<1> DEFINE n == Len(q) - j
           T == {d \in 0 .. n : d # 0 => EndOf(q[j]) <= q[j + d].start}
<1>1. 0 \in T
  BY <1>0
<1>2. ASSUME NEW d \in 0 .. n - 1, d \in T PROVE d + 1 \in T
  <2>1. j + (d + 1) \in 1 .. Len(q) /\ j + (d + 1) # 1 /\ (j + (d + 1)) - 1 = j + d /\ j + d \in 1 .. Len(q)
        /\ d + 1 \in 0 .. n
    BY <1>0
  <2>2. q[j + (d + 1)].start = EndOf(q[j + d])
    BY <2>1 DEF Good
  <2>3. CASE d = 0
    <3>1. j + d = j
      BY <1>0, <2>3
    <3> QED
      BY <1>0, <2>1, <2>2, <3>1
  <2>4. CASE d # 0
    <3>1. EndOf(q[j]) <= q[j + d].start
      BY <1>2, <2>4
    <3>2. EndOf(q[j]) <= q[j + (d + 1)].start
      BY <1>0, <2>1, <2>2, <3>1, SMTT(30)
    <3> QED
      BY <2>1, <3>2
  <2> QED
    BY <2>3, <2>4
<1>3. \A d \in 0 .. n : d \in T
  <2>1. n \in Nat
    BY <1>0
  <2> HIDE DEF T, n
  <2> QED
    BY <1>1, <1>2, <2>1, UpTo
<1> TAKE k \in 1 .. Len(q)
<1> HAVE j < k
<1>4. k - j \in 0 .. n /\ k - j # 0 /\ j + (k - j) = k
  BY <1>0
<1> QED
  BY <1>3, <1>4

(* Each bit is held by one block.                                          *)
LEMMA GoodAt ==
  ASSUME NEW q \in Seq(Item), Good(q), NEW i \in 1 .. Len(q), NEW d \in 0 .. CHAR_BIT * q[i].len - 1
  PROVE  At(q, q[i].start + d, i)
<1>1. /\ Len(q) \in Nat
      /\ \A j \in 1 .. Len(q) : /\ q[j].start \in Int /\ q[j].len \in Int /\ q[j].len >= 4
                                /\ EndOf(q[j]) = q[j].start + 8 * q[j].len
  BY GoodItems
<1>2. d \in Int /\ d >= 0 /\ d < 8 * q[i].len
  BY <1>1 DEF CHAR_BIT
<1>3. \A j \in 1 .. i - 1 : q[j].start < q[i].start + d /\ q[j].start + q[j].len * 8 <= q[i].start + d
  <2> TAKE j \in 1 .. i - 1
  <2>1. j \in 1 .. Len(q) /\ j < i
    BY <1>1
  <2>2. EndOf(q[j]) <= q[i].start
    BY <2>1, Ordered
  <2>3. /\ q[i].start \in Int /\ q[j].start \in Int /\ q[j].len \in Int /\ q[j].len >= 4
        /\ EndOf(q[j]) = q[j].start + 8 * q[j].len
    BY <1>1, <2>1
  <2> QED
    BY <1>2, <2>2, <2>3
<1>4. q[i].start <= q[i].start + d /\ q[i].start + d < q[i].start + q[i].len * 8
  BY <1>1, <1>2
<1>5. \A j \in i + 1 .. Len(q) : q[i].start + d < q[j].start
  <2> TAKE j \in i + 1 .. Len(q)
  <2>1. j \in 1 .. Len(q) /\ i < j
    BY <1>1
  <2>2. EndOf(q[i]) <= q[j].start
    BY <2>1, Ordered
  <2> QED
    BY <1>1, <1>2, <2>1, <2>2
<1> QED
  BY <1>3, <1>4, <1>5 DEF At, CHAR_BIT

(* Blocks that differ from good ones from the i-th on: it is still found.  *)
LEMMA StillAt ==
  ASSUME NEW q \in Seq(Item), Good(q), NEW i \in 1 .. Len(q), NEW p \in Seq(Item), i <= Len(p),
         \A j \in 1 .. i - 1 : p[j] = q[j],
         p[i].start = q[i].start, p[i].len \in Int, p[i].len > 0,
         \A j \in i + 1 .. Len(p) : q[i].start < p[j].start
  PROVE  At(p, q[i].start, i)
<1>1. /\ Len(q) \in Nat /\ Len(p) \in Nat
      /\ \A j \in 1 .. Len(q) : q[j].start \in Int /\ q[j].len \in Int /\ q[j].len >= 4
  BY GoodItems, LenProperties
<1>2. At(q, q[i].start, i)
  <2>1. 0 \in 0 .. 8 * q[i].len - 1 /\ q[i].start + 0 = q[i].start
    BY <1>1
  <2> QED
    BY <2>1, GoodAt DEF CHAR_BIT
<1>3. \A j \in 1 .. i - 1 : p[j].start < q[i].start /\ p[j].start + p[j].len * 8 <= q[i].start
  BY <1>2 DEF At, CHAR_BIT
<1>4. p[i].start <= q[i].start /\ q[i].start < p[i].start + p[i].len * 8
  BY <1>1
<1>5. i \in 1 .. Len(p)
  BY <1>1
<1> QED
  BY <1>3, <1>4, <1>5 DEF At, CHAR_BIT

(* p is q with m items from place i on replaced by those of w.             *)
IsPut(p, q, i, m, w, d) ==
  /\ p \in Seq(Item) /\ Len(p) = Len(q) - m + Len(w)
  /\ \A j \in 1 .. i - 1 : p[j] = q[j]
  /\ \A j \in 1 .. Len(w) : p[i + j - 1] = w[j]
  /\ \A j \in i + m .. Len(q) : p[j - m + Len(w)] = Moved(q[j], d)

(* Some blocks are replaced by others that start and end where they fit.   *)
Fits(q, i, m, w, d) ==
  /\ w \in Seq(Item) /\ Len(w) > 0
  /\ \A j \in 1 .. Len(w) : w[j].len \in Lens /\ w[j].ones \in Ones
  /\ w[1].start = IF i = 1 THEN 0 ELSE EndOf(q[i - 1])
  /\ \A j \in 2 .. Len(w) : w[j].start = EndOf(w[j - 1])
  /\ i + m <= Len(q) => EndOf(w[Len(w)]) = q[i + m].start + d

(* Then the blocks still follow one another without a gap.                 *)
LEMMA GoodPut ==
  ASSUME NEW q \in Seq(Item), Good(q), NEW m \in Nat, NEW i \in 1 .. Len(q) + 1 - m,
         NEW w, NEW d \in Int, NEW p, IsPut(p, q, i, m, w, d), Fits(q, i, m, w, d), Len(p) <= MaxBlocks
  PROVE  Good(p)
<1> DEFINE c == Len(w)
<1>1. /\ Len(q) \in Nat
      /\ \A j \in 1 .. Len(q) : /\ q[j] \in Item /\ q[j].start \in Int /\ q[j].len \in Int
                                /\ q[j].len \in Lens /\ q[j].ones \in Ones
                                /\ EndOf(q[j]) = q[j].start + 8 * q[j].len /\ EndOf(q[j]) \in Int
  BY GoodItems
<1>2. c \in Nat /\ c > 0
  BY LenProperties DEF Fits
<1>3. /\ Len(p) = Len(q) - m + c
      /\ \A j \in 1 .. i - 1 : p[j] = q[j]
      /\ \A j \in 1 .. c : p[i + j - 1] = w[j]
      /\ \A j \in i + m .. Len(q) : p[j - m + c] = Moved(q[j], d)
  BY DEF IsPut
<1>4. /\ \A j \in 1 .. c : w[j].len \in Lens /\ w[j].ones \in Ones
      /\ w[1].start = IF i = 1 THEN 0 ELSE EndOf(q[i - 1])
      /\ \A j \in 2 .. c : w[j].start = EndOf(w[j - 1])
      /\ i + m <= Len(q) => EndOf(w[c]) = q[i + m].start + d
  BY DEF Fits
<1>5. \A j \in i + m .. Len(q) :
        /\ Moved(q[j], d).len = q[j].len /\ Moved(q[j], d).ones = q[j].ones
        /\ Moved(q[j], d).start = q[j].start + d
        /\ EndOf(Moved(q[j], d)) = EndOf(q[j]) + d
  <2> TAKE j \in i + m .. Len(q)
  <2>1. j \in 1 .. Len(q)
    BY <1>1
  <2> QED
    BY <1>1, <2>1, SMTT(30) DEF Moved, EndOf, CHAR_BIT
<1> HIDE DEF c
<1>6. ASSUME NEW k \in 1 .. Len(p)
      PROVE  /\ p[k].len \in Lens /\ p[k].ones \in Ones
             /\ p[k].start = IF k = 1 THEN 0 ELSE EndOf(p[k - 1])
  <2>0. i \in Int /\ i >= 1 /\ i + m <= Len(q) + 1 /\ k \in Int /\ k >= 1 /\ k <= Len(q) - m + c
    BY <1>1, <1>3
  <2>1. CASE k < i
    <3>1. k \in 1 .. i - 1 /\ k \in 1 .. Len(q) /\ (k # 1 => k - 1 \in 1 .. i - 1)
      BY <1>1, <2>0, <2>1
    <3>2. q[k].start = IF k = 1 THEN 0 ELSE EndOf(q[k - 1])
      BY <3>1 DEF Good
    <3>3. p[k] = q[k] /\ (k # 1 => p[k - 1] = q[k - 1])
      BY <1>3, <3>1
    <3> QED
      BY <1>1, <3>1, <3>2, <3>3
  <2>2. CASE k = i
    <3>1. p[k] = w[1] /\ 1 \in 1 .. c
      <4>1. 1 \in 1 .. c /\ i + 1 - 1 = i
        BY <1>2, <2>0
      <4> QED
        BY <1>3, <2>2, <4>1
    <3>2. k # 1 => p[k - 1] = q[k - 1]
      <4>1. k # 1 => k - 1 \in 1 .. i - 1
        BY <2>0, <2>2
      <4> QED
        BY <1>3, <4>1
    <3> QED
      BY <1>4, <2>2, <3>1, <3>2
  <2>3. CASE k > i /\ k <= i + c - 1
    <3>1. k - i + 1 \in 2 .. c /\ i + (k - i + 1) - 1 = k /\ k - i \in 1 .. c /\ i + (k - i) - 1 = k - 1
          /\ (k - i + 1) - 1 = k - i /\ k - i + 1 \in 1 .. c
      BY <1>2, <2>0, <2>3
    <3>2. p[k] = w[k - i + 1] /\ p[k - 1] = w[k - i]
      BY <1>3, <3>1
    <3>3. w[k - i + 1].start = EndOf(w[k - i])
      BY <1>4, <3>1
    <3>4. k # 1
      BY <2>0, <2>3
    <3> QED
      BY <1>4, <3>1, <3>2, <3>3, <3>4
  <2>4. CASE k = i + c
    <3>1. i + m \in i + m .. Len(q) /\ (i + m) - m + c = k /\ i + m <= Len(q) /\ c \in 1 .. c /\ i + c - 1 = k - 1 /\ k # 1
      BY <1>1, <1>2, <2>0, <2>4, SMTT(30)
    <3>2. p[k] = Moved(q[i + m], d) /\ p[k - 1] = w[c]
      BY <1>3, <3>1
    <3>3. q[i + m].len \in Lens /\ q[i + m].ones \in Ones
      <4>1. i + m \in 1 .. Len(q)
        BY <2>0, <3>1
      <4> QED
        BY <1>1, <4>1
    <3> QED
      BY <1>4, <1>5, <3>1, <3>2, <3>3
  <2>5. CASE k > i + c
    <3>0. PICK j \in i + m + 1 .. Len(q) : k = j - m + c
      <4>1. k - c + m \in i + m + 1 .. Len(q) /\ k = (k - c + m) - m + c
        BY <1>1, <1>2, <2>0, <2>5
      <4> QED
        BY <4>1
    <3>1. j \in i + m .. Len(q) /\ j - 1 \in i + m .. Len(q) /\ (j - 1) - m + c = k - 1 /\ k # 1 /\ j # 1
          /\ j \in 1 .. Len(q) /\ j - 1 \in 1 .. Len(q)
      BY <1>1, <1>2, <2>0, <2>5, <3>0
    <3>2. p[k] = Moved(q[j], d) /\ p[k - 1] = Moved(q[j - 1], d)
      BY <1>3, <3>0, <3>1
    <3>3. q[j].start = EndOf(q[j - 1])
      BY <3>1 DEF Good
    <3> QED
      BY <1>1, <1>5, <3>1, <3>2, <3>3
  <2> QED
    BY <1>2, <2>0, <2>1, <2>2, <2>3, <2>4, <2>5
<1> QED
  BY <1>6 DEF Good

(* Then the tree implements the replacement.                               *)
LEMMA ImplementsPut ==
  ASSUME NEW t \in Trees, NEW u \in Trees, NEW m \in Nat, NEW i \in 1 .. Len(Sq(t)) + 1 - m,
         NEW w, NEW d \in Int, IsPut(Sq(u), Sq(t), i, m, w, d), Fits(Sq(t), i, m, w, d),
         NEW lens, Len(lens) = Len(w), \A j \in 1 .. Len(w) : lens[j] = w[j].len
  PROVE  Sequence!Replace(LensAndOnes(t), LensAndOnes(u), i, m, lens)
<1> DEFINE q == Sq(t)
           p == Sq(u)
           a == LensAndOnes(t)
           b == LensAndOnes(u)
           c == Len(w)
<1>1. /\ Len(a) = Len(q)
      /\ \A j \in 1 .. Len(q) : a[j] = [len |-> q[j].len, ones |-> q[j].ones]
  BY LensAndOnesItems
<1>2. /\ Len(b) = Len(p)
      /\ \A j \in 1 .. Len(p) : b[j] = [len |-> p[j].len, ones |-> p[j].ones]
  BY LensAndOnesItems
<1>3. Len(q) \in Nat /\ c \in Nat /\ Len(p) \in Nat
  BY TreesAre, SqType, LenProperties DEF Fits
<1>4. /\ Len(p) = Len(q) - m + c
      /\ \A j \in 1 .. i - 1 : p[j] = q[j]
      /\ \A j \in 1 .. c : p[i + j - 1] = w[j]
      /\ \A j \in i + m .. Len(q) : p[j - m + c] = Moved(q[j], d)
  BY DEF IsPut
<1>5. \A j \in 1 .. c : w[j].len \in Lens /\ w[j].ones \in Ones
  BY DEF Fits
<1>6. i \in Int /\ i >= 1 /\ i + m <= Len(q) + 1
  BY <1>3
<1> HIDE DEF q, p, a, b, c
<1>7. \A j \in 1 .. i - 1 : b[j] = a[j]
  <2> TAKE j \in 1 .. i - 1
  <2>1. j \in 1 .. Len(q) /\ j \in 1 .. Len(p)
    BY <1>3, <1>4, <1>6
  <2> QED
    BY <1>1, <1>2, <1>4, <2>1
<1>8. \A j \in 1 .. c : b[i + j - 1] \in [len : Lens, ones : Ones] /\ b[i + j - 1].len = w[j].len
  <2> TAKE j \in 1 .. c
  <2>1. i + j - 1 \in 1 .. Len(p)
    BY <1>3, <1>4, <1>6
  <2> QED
    BY <1>2, <1>4, <1>5, <2>1
<1>9. \A j \in i + m .. Len(q) : b[j - m + c] = a[j]
  <2> TAKE j \in i + m .. Len(q)
  <2>1. j \in 1 .. Len(q) /\ j - m + c \in 1 .. Len(p)
    BY <1>3, <1>4, <1>6
  <2>2. p[j - m + c] = Moved(q[j], d)
    BY <1>4
  <2>3. p[j - m + c].len = q[j].len /\ p[j - m + c].ones = q[j].ones
    BY <2>2 DEF Moved
  <2> QED
    BY <1>1, <1>2, <2>1, <2>3
<1>10. Len(lens) = c /\ \A j \in 1 .. c : lens[j] = w[j].len
  BY DEF c
<1>11. Len(b) = Len(a) - m + Len(lens)
  BY <1>1, <1>2, <1>4, <1>10
<1>12. \A j \in 1 .. Len(lens) : b[i + j - 1] \in Sequence!Block /\ b[i + j - 1].len = lens[j]
  BY <1>8, <1>10 DEF Sequence!Block
<1>13. \A j \in i + m .. Len(a) : b[j - m + Len(lens)] = a[j]
  BY <1>1, <1>9, <1>10
<1>14. Sequence!Replace(a, b, i, m, lens)
  BY <1>7, <1>11, <1>12, <1>13 DEF Sequence!Replace
<1> QED
  BY <1>14 DEF a, b

(* Few blocks make a tree the walks work on.                               *)
LEMMA InTrees ==
  ASSUME NEW t \in AllTrees, Len(Sq(t)) <= MaxBlocks
  PROVE  t \in Trees
<1>1. Len(Sq(t)) \in Nat /\ MaxBlocks \in Nat /\ MaxHeight \in Nat /\ MaxBlocks <= MaxHeight
  BY SqType, BlocksAssumption, HeightAssumption
<1>2. Len(Sq(t)) <= MaxHeight
  BY <1>1
<1> QED
  BY <1>1, <1>2, FewLow DEF Trees

(* What is known of a valid tree.                                          *)
LEMMA ValidIs ==
  ASSUME NEW t, Valid(t)
  PROVE  /\ t \in AllTrees /\ t \in Summed /\ t \in Trees /\ Good(Sq(t))
         /\ Sq(t) \in Seq(Item) /\ Len(Sq(t)) \in Nat /\ Len(Sq(t)) <= MaxBlocks
  BY InTrees, SqType DEF Valid, Good

(* One item in the place of m, and those behind it moved.                  *)
LEMMA OnePut ==
  ASSUME NEW q \in Seq(Item), NEW m \in Nat, NEW i \in 1 .. Len(q) + 1 - m, NEW w \in Seq(Item),
         Len(w) = 1, NEW d \in Int
  PROVE  LET p == Put(q, i, m, w, d)
         IN  /\ p \in Seq(Item) /\ Len(p) = Len(q) - m + 1
             /\ \A j \in 1 .. i - 1 : p[j] = q[j]
             /\ p[i] = w[1]
             /\ \A j \in i + m .. Len(q) : p[j - m + 1] = Moved(q[j], d)
<1> DEFINE p == Put(q, i, m, w, d)
<1>1. Len(q) \in Nat
  BY LenProperties
<1>2. /\ p \in Seq(Item) /\ Len(p) = Len(q) - m + Len(w)
      /\ \A j \in 1 .. i - 1 : p[j] = q[j]
      /\ \A j \in 1 .. Len(w) : p[i + j - 1] = w[j]
      /\ \A j \in i + m .. Len(q) : p[j - m + Len(w)] = Moved(q[j], d)
  BY PutIs, ZenonT(40)
<1> HIDE DEF p
<1>3. 1 \in 1 .. Len(w) /\ i + 1 - 1 = i
  BY <1>1
<1>4. p[i] = w[1]
  BY <1>2, <1>3
<1> QED
  BY <1>2, <1>4 DEF p

(* One item changed, and those behind it moved.                            *)
LEMMA ChangedIs ==
  ASSUME NEW q \in Seq(Item), NEW i \in 1 .. Len(q), NEW x \in Item, NEW d \in Int
  PROVE  LET p == Put(q, i, 1, <<x>>, d)
         IN  /\ p \in Seq(Item) /\ Len(p) = Len(q)
             /\ \A j \in 1 .. i - 1 : p[j] = q[j]
             /\ p[i] = x
             /\ \A j \in i + 1 .. Len(q) : p[j] = Moved(q[j], d)
<1> DEFINE w == <<x>>
           m == 1
           p == Put(q, i, m, w, d)
<1>1. Len(q) \in Nat
  BY LenProperties
<1>2. w \in Seq(Item) /\ Len(w) = 1
  OBVIOUS
<1>3. w[1] = x
  OBVIOUS
<1>4. m \in Nat /\ i \in 1 .. Len(q) + 1 - m
  BY <1>1
<1> HIDE DEF w, m
<1>5. /\ p \in Seq(Item) /\ Len(p) = Len(q) - m + 1
      /\ \A j \in 1 .. i - 1 : p[j] = q[j]
      /\ p[i] = w[1]
      /\ \A j \in i + m .. Len(q) : p[j - m + 1] = Moved(q[j], d)
  BY <1>2, <1>4, OnePut, ZenonT(40)
<1> HIDE DEF p
<1>6. Len(p) = Len(q)
  BY <1>1, <1>5 DEF m
<1>7. \A j \in i + 1 .. Len(q) : p[j] = Moved(q[j], d)
  <2> TAKE j \in i + 1 .. Len(q)
  <2>1. j - m + 1 = j /\ j \in i + m .. Len(q)
    BY <1>1 DEF m
  <2> QED
    BY <1>5, <2>1
<1>8. p[i] = x
  BY <1>3, <1>5
<1> QED
  BY <1>5, <1>6, <1>7, <1>8 DEF p, w, m

(* One item inserted.                                                      *)
LEMMA InsertedIs ==
  ASSUME NEW q \in Seq(Item), NEW i \in 1 .. Len(q) + 1, NEW x \in Item
  PROVE  LET p == Put(q, i, 0, <<x>>, 0)
         IN  /\ p \in Seq(Item) /\ Len(p) = Len(q) + 1
             /\ \A j \in 1 .. i - 1 : p[j] = q[j]
             /\ p[i] = x
             /\ \A j \in i .. Len(q) : p[j + 1] = q[j]
<1> DEFINE w == <<x>>
           p == Put(q, i, 0, w, 0)
<1>1. Len(q) \in Nat
  BY LenProperties
<1>2. w \in Seq(Item) /\ Len(w) = 1
  OBVIOUS
<1>3. w[1] = x
  OBVIOUS
<1> HIDE DEF w
<1>4. 0 \in Nat /\ 0 \in Int /\ i \in 1 .. Len(q) + 1 - 0
  BY <1>1
<1>5. /\ p \in Seq(Item) /\ Len(p) = Len(q) - 0 + 1
      /\ \A j \in 1 .. i - 1 : p[j] = q[j]
      /\ p[i] = w[1]
      /\ \A j \in i + 0 .. Len(q) : p[j - 0 + 1] = Moved(q[j], 0)
  BY <1>2, <1>4, OnePut
<1> HIDE DEF p
<1>6. Len(p) = Len(q) + 1
  BY <1>1, <1>5
<1>7. \A j \in i .. Len(q) : p[j + 1] = q[j]
  <2> TAKE j \in i .. Len(q)
  <2>1. j - 0 + 1 = j + 1 /\ j \in i + 0 .. Len(q) /\ j \in 1 .. Len(q)
    BY <1>1
  <2>2. q[j] \in Item
    BY <2>1, ElementOfSeq
  <2>3. Moved(q[j], 0) = q[j]
    BY <2>2, MovedTwice
  <2> QED
    BY <1>5, <2>1, <2>3
<1>8. p[i] = x
  BY <1>3, <1>5
<1> QED
  BY <1>5, <1>6, <1>7, <1>8 DEF p, w

(* u is t with the i-th block changed to x, and those behind it moved.     *)
ChangedAt(u, t, i, x, d) ==
  /\ u \in AllTrees /\ u \in Summed /\ Len(Sq(u)) = Len(Sq(t))
  /\ \A j \in 1 .. i - 1 : Sq(u)[j] = Sq(t)[j]
  /\ Sq(u)[i] = x
  /\ \A j \in i + 1 .. Len(Sq(t)) : Sq(u)[j] = Moved(Sq(t)[j], d)

(* u is t with x inserted as the i-th block.                               *)
InsertedAt(u, t, i, x) ==
  /\ u \in AllTrees /\ u \in Summed /\ Len(Sq(u)) = Len(Sq(t)) + 1
  /\ \A j \in 1 .. i - 1 : Sq(u)[j] = Sq(t)[j]
  /\ Sq(u)[i] = x
  /\ \A j \in i .. Len(Sq(t)) : Sq(u)[j + 1] = Sq(t)[j]

(* SetLenAt and UpdatePath2 together change the block that starts at e.    *)
LEMMA SetAndUpdate ==
  ASSUME NEW t \in AllTrees, t \in Summed, Len(Sq(t)) <= MaxBlocks,
         NEW e \in Int, NEW i \in Nat, At(Sq(t), e, i), Sq(t)[i].start = e,
         NEW n \in Int, n > 0, NEW o \in Int, NEW d \in Int
  PROVE  ChangedAt(UpdatePath2(SetLenAt(t, e, n), e, o, d), t, i,
                   [len |-> n, ones |-> Sq(t)[i].ones + o, start |-> e], d)
<1> DEFINE s == SetLenAt(t, e, n)
           u == UpdatePath2(s, e, o, d)
           q == Sq(t)
           r == Sq(s)
           x == WithLen(q[i], n)
<1>1. t \in Trees /\ q \in Seq(Item) /\ Len(q) \in Nat /\ i \in 1 .. Len(q)
  BY InTrees, SqType DEF At
<1>2. q[i] \in Item /\ x \in Item
  <2>1. q[i] \in Item
    BY <1>1, ElementOfSeq
  <2> HIDE DEF q
  <2> QED
    BY <2>1, ResizedItems
<1>3. s \in AllTrees /\ r = Put(q, i, 1, <<x>>, 0) /\ s \in Summed
  BY <1>1, SetLenWalk DEF SetsLen
<1>4. /\ r \in Seq(Item) /\ Len(r) = Len(q)
      /\ \A j \in 1 .. i - 1 : r[j] = q[j]
      /\ r[i] = x
      /\ \A j \in i + 1 .. Len(q) : r[j] = Moved(q[j], 0)
  BY <1>1, <1>2, <1>3, ChangedIs
<1>5. \A j \in i + 1 .. Len(q) : r[j] = q[j]
  <2> TAKE j \in i + 1 .. Len(q)
  <2>1. j \in 1 .. Len(q)
    BY <1>1
  <2>2. q[j] \in Item
    BY <1>1, <2>1, ElementOfSeq
  <2> QED
    BY <1>4, <2>2, MovedTwice
<1>6. x.start = e /\ x.len = n /\ x.ones = q[i].ones
  BY DEF WithLen
<1>7. At(r, e, i)
  <2>1. \A j \in 1 .. i - 1 : r[j].start < e /\ r[j].start + r[j].len * CHAR_BIT <= e
    BY <1>4 DEF At
  <2>2. e <= e /\ e < e + n * CHAR_BIT
    BY DEF CHAR_BIT
  <2>3. \A j \in i + 1 .. Len(r) : e < r[j].start
    BY <1>4, <1>5 DEF At
  <2> QED
    BY <1>1, <1>4, <1>6, <2>1, <2>2, <2>3 DEF At
<1>8. s \in Trees
  <2>1. Len(r) <= MaxBlocks
    BY <1>4
  <2> QED
    BY <1>3, <2>1, InTrees
<1> HIDE DEF s, x, q
<1>9. u \in AllTrees /\ u \in Summed /\ Sq(u) = Put(r, i, 1, <<OnesPlus(r[i], o)>>, d)
  <2>1. Updates(s, o, d)
    BY <1>8, UpdateWalk
  <2> QED
    BY <1>3, <1>7, <2>1 DEF Updates
<1>10. OnesPlus(r[i], o) \in Item
  BY <1>2, <1>4, ChangedItems
<1> DEFINE y == OnesPlus(r[i], o)
<1> HIDE DEF u, r, y
<1>11. /\ Sq(u) \in Seq(Item) /\ Len(Sq(u)) = Len(r)
       /\ \A j \in 1 .. i - 1 : Sq(u)[j] = r[j]
       /\ Sq(u)[i] = y
       /\ \A j \in i + 1 .. Len(r) : Sq(u)[j] = Moved(r[j], d)
  <2>1. r \in Seq(Item) /\ i \in 1 .. Len(r) /\ y \in Item
    BY <1>1, <1>4, <1>10 DEF y
  <2> DEFINE p == Put(r, i, 1, <<y>>, d)
  <2>2. Sq(u) = p
    BY <1>9 DEF y
  <2>3. p \in Seq(Item) /\ Len(p) = Len(r)
    BY <2>1, ChangedIs
  <2>4. \A j \in 1 .. i - 1 : p[j] = r[j]
    BY <2>1, ChangedIs
  <2>5. p[i] = y
    BY <2>1, ChangedIs
  <2>6. \A j \in i + 1 .. Len(r) : p[j] = Moved(r[j], d)
    BY <2>1, ChangedIs
  <2> HIDE DEF p
  <2> QED
    BY <2>2, <2>3, <2>4, <2>5, <2>6
<1>12. OnesPlus(r[i], o) = [len |-> n, ones |-> q[i].ones + o, start |-> e]
  BY <1>4, <1>6 DEF OnesPlus
<1> QED
  BY <1>4, <1>5, <1>9, <1>11, <1>12 DEF ChangedAt, u, s, q, y

(* Insert where no block starts.                                           *)
LEMMA Inserted ==
  ASSUME NEW t \in AllTrees, t \in Summed, Len(Sq(t)) <= MaxBlocks,
         NEW e \in Int, NEW i \in Nat, Before(Sq(t), e, i), NEW o \in Int, NEW n \in Int
  PROVE  InsertedAt(Insert(t, 0, e, o, n), t, i, [len |-> n, ones |-> o, start |-> e])
<1> DEFINE u == Insert(t, 0, e, o, n)
           x == [len |-> n, ones |-> o, start |-> e]
<1>1. t \in Trees /\ Sq(t) \in Seq(Item) /\ i \in 1 .. Len(Sq(t)) + 1 /\ x \in Item
  BY InTrees, SqType DEF Before, Item
<1>2. u \in AllTrees /\ u \in Summed /\ Sq(u) = Put(Sq(t), i, 0, <<x>>, 0)
  BY <1>1, InsertWalk DEF Inserts
<1> HIDE DEF u, x
<1>3. /\ Sq(u) \in Seq(Item) /\ Len(Sq(u)) = Len(Sq(t)) + 1
      /\ \A j \in 1 .. i - 1 : Sq(u)[j] = Sq(t)[j]
      /\ Sq(u)[i] = x
      /\ \A j \in i .. Len(Sq(t)) : Sq(u)[j + 1] = Sq(t)[j]
  BY <1>1, <1>2, InsertedIs
<1> QED
  BY <1>2, <1>3 DEF InsertedAt, u, x

(* One block in the place of m others.                                     *)
LEMMA ReplacedByOne ==
  ASSUME NEW t, Valid(t), NEW u \in AllTrees, u \in Summed, Len(Sq(u)) <= MaxBlocks,
         NEW m \in Nat, NEW i \in 1 .. Len(Sq(t)) + 1 - m, NEW x \in Item, NEW d \in Int,
         Len(Sq(u)) = Len(Sq(t)) - m + 1,
         \A j \in 1 .. i - 1 : Sq(u)[j] = Sq(t)[j],
         Sq(u)[i] = x,
         \A j \in i + m .. Len(Sq(t)) : Sq(u)[j - m + 1] = Moved(Sq(t)[j], d),
         x.len \in Lens, x.ones \in Ones,
         x.start = IF i = 1 THEN 0 ELSE EndOf(Sq(t)[i - 1]),
         i + m <= Len(Sq(t)) => EndOf(x) = Sq(t)[i + m].start + d
  PROVE  /\ Valid(u)
         /\ Sequence!Replace(LensAndOnes(t), LensAndOnes(u), i, m, <<x.len>>)
<1> DEFINE w == <<x>>
           lens == <<x.len>>
           q == Sq(t)
           p == Sq(u)
<1>1. t \in Trees /\ u \in Trees /\ q \in Seq(Item) /\ p \in Seq(Item) /\ Good(q) /\ Len(q) \in Nat
  BY ValidIs, InTrees, SqType
<1>2. w \in Seq(Item) /\ Len(w) = 1 /\ \A j \in 1 .. Len(w) : j = 1 /\ w[j] = x
  OBVIOUS
<1>3. Len(lens) = 1 /\ lens[1] = x.len
  OBVIOUS
<1>4. \A j \in 1 .. i - 1 : p[j] = q[j]
  OBVIOUS
<1>5. \A j \in i + m .. Len(q) : p[j - m + 1] = Moved(q[j], d)
  OBVIOUS
<1>6. i + m <= Len(q) => EndOf(x) = q[i + m].start + d
  OBVIOUS
<1>7. Len(p) = Len(q) - m + 1 /\ p[i] = x /\ x.start = IF i = 1 THEN 0 ELSE EndOf(q[i - 1])
  OBVIOUS
<1> HIDE DEF w, lens, q, p
<1>8. IsPut(p, q, i, m, w, d)
  <2>1. \A j \in 1 .. Len(w) : p[i + j - 1] = w[j]
    <3> TAKE j \in 1 .. Len(w)
    <3>1. j = 1 /\ w[j] = x /\ i + j - 1 = i
      BY <1>2
    <3> QED
      BY <1>7, <3>1
  <2>2. \A j \in i + m .. Len(q) : p[j - m + Len(w)] = Moved(q[j], d)
    BY <1>2, <1>5
  <2> QED
    BY <1>1, <1>2, <1>4, <1>7, <2>1, <2>2 DEF IsPut
<1>9. Fits(q, i, m, w, d)
  <2>1. 1 \in 1 .. Len(w) /\ w[1] = x /\ w[Len(w)] = x
    BY <1>2
  <2>2. \A j \in 2 .. Len(w) : w[j].start = EndOf(w[j - 1])
    BY <1>2
  <2>3. \A j \in 1 .. Len(w) : w[j].len \in Lens /\ w[j].ones \in Ones
    BY <1>2
  <2> QED
    BY <1>2, <1>6, <1>7, <2>1, <2>2, <2>3 DEF Fits
<1>10. Valid(u)
  <2>1. Len(p) <= MaxBlocks
    BY DEF p
  <2>2. i \in 1 .. Len(q) + 1 - m
    BY DEF q
  <2>3. Good(p)
    BY <1>1, <1>8, <1>9, <2>1, <2>2, GoodPut
  <2> QED
    BY <2>3 DEF Valid, p
<1>11. Sequence!Replace(LensAndOnes(t), LensAndOnes(u), i, m, lens)
  <2>1. Len(lens) = Len(w) /\ \A j \in 1 .. Len(w) : lens[j] = w[j].len
    BY <1>2, <1>3
  <2> QED
    BY <1>1, <1>8, <1>9, <2>1, ImplementsPut DEF p, q
<1> QED
  BY <1>10, <1>11 DEF lens

(* Two blocks in the place of m others.                                    *)
LEMMA ReplacedByTwo ==
  ASSUME NEW t, Valid(t), NEW u \in AllTrees, u \in Summed, Len(Sq(u)) <= MaxBlocks,
         NEW m \in Nat, NEW i \in 1 .. Len(Sq(t)) + 1 - m, NEW x \in Item, NEW y \in Item, NEW d \in Int,
         Len(Sq(u)) = Len(Sq(t)) - m + 2,
         \A j \in 1 .. i - 1 : Sq(u)[j] = Sq(t)[j],
         Sq(u)[i] = x, Sq(u)[i + 1] = y,
         \A j \in i + m .. Len(Sq(t)) : Sq(u)[j - m + 2] = Moved(Sq(t)[j], d),
         x.len \in Lens, x.ones \in Ones, y.len \in Lens, y.ones \in Ones,
         x.start = IF i = 1 THEN 0 ELSE EndOf(Sq(t)[i - 1]), y.start = EndOf(x),
         i + m <= Len(Sq(t)) => EndOf(y) = Sq(t)[i + m].start + d
  PROVE  /\ Valid(u)
         /\ Sequence!Replace(LensAndOnes(t), LensAndOnes(u), i, m, <<x.len, y.len>>)
<1> DEFINE w == <<x, y>>
           lens == <<x.len, y.len>>
           q == Sq(t)
           p == Sq(u)
<1>1. t \in Trees /\ u \in Trees /\ q \in Seq(Item) /\ p \in Seq(Item) /\ Good(q) /\ Len(q) \in Nat
  BY ValidIs, InTrees, SqType
<1>2. w \in Seq(Item) /\ Len(w) = 2 /\ w[1] = x /\ w[2] = y /\ \A j \in 1 .. Len(w) : j = 1 \/ j = 2
  OBVIOUS
<1>3. Len(lens) = 2 /\ lens[1] = x.len /\ lens[2] = y.len
  OBVIOUS
<1>4. \A j \in 1 .. i - 1 : p[j] = q[j]
  OBVIOUS
<1>5. \A j \in i + m .. Len(q) : p[j - m + 2] = Moved(q[j], d)
  OBVIOUS
<1>6. i + m <= Len(q) => EndOf(y) = q[i + m].start + d
  OBVIOUS
<1>7. /\ Len(p) = Len(q) - m + 2 /\ p[i] = x /\ p[i + 1] = y
      /\ x.start = IF i = 1 THEN 0 ELSE EndOf(q[i - 1])
  OBVIOUS
<1> HIDE DEF w, lens, q, p
<1>8. IsPut(p, q, i, m, w, d)
  <2>1. \A j \in 1 .. Len(w) : p[i + j - 1] = w[j]
    <3> TAKE j \in 1 .. Len(w)
    <3>1. i + 1 - 1 = i /\ i + 2 - 1 = i + 1
      BY <1>1
    <3> QED
      BY <1>2, <1>7, <3>1
  <2>2. \A j \in i + m .. Len(q) : p[j - m + Len(w)] = Moved(q[j], d)
    BY <1>2, <1>5
  <2> QED
    BY <1>1, <1>2, <1>4, <1>7, <2>1, <2>2 DEF IsPut
<1>9. Fits(q, i, m, w, d)
  <2>2. \A j \in 2 .. Len(w) : w[j].start = EndOf(w[j - 1])
    <3> TAKE j \in 2 .. Len(w)
    <3>1. j = 2 /\ j - 1 = 1
      BY <1>2
    <3> QED
      BY <1>2, <3>1
  <2>3. \A j \in 1 .. Len(w) : w[j].len \in Lens /\ w[j].ones \in Ones
    BY <1>2
  <2> QED
    BY <1>2, <1>6, <1>7, <2>2, <2>3 DEF Fits
<1>10. Valid(u)
  <2>1. Len(p) <= MaxBlocks
    BY DEF p
  <2>2. i \in 1 .. Len(q) + 1 - m
    BY DEF q
  <2>3. Good(p)
    BY <1>1, <1>8, <1>9, <2>1, <2>2, GoodPut
  <2> QED
    BY <2>3 DEF Valid, p
<1>11. Sequence!Replace(LensAndOnes(t), LensAndOnes(u), i, m, lens)
  <2>1. Len(lens) = Len(w) /\ \A j \in 1 .. Len(w) : lens[j] = w[j].len
    BY <1>2, <1>3
  <2> QED
    BY <1>1, <1>8, <1>9, <2>1, ImplementsPut DEF p, q
<1> QED
  BY <1>10, <1>11 DEF lens

(* The list of blocks, and where it ends.                                  *)
LEMMA BlocksAre ==
  ASSUME IInv
  PROVE  /\ Blocks \in Seq(BlockRecord) /\ Len(Blocks) = Len(Sq(tree))
         /\ \A j \in 1 .. Len(Sq(tree)) : /\ Blocks[j].len = Sq(tree)[j].len
                                          /\ Blocks[j].ones = Sq(tree)[j].ones
                                          /\ Blocks[j].start = Sq(tree)[j].start
<1> DEFINE q == Sq(tree)
<1>1. tree \in Trees /\ q \in Seq(Item) /\ Len(q) \in Nat
  BY ValidIs DEF IInv
<1>2. ListAt(tree, 0) /\ Blocks = InOrderFrom(tree, 0)
  BY <1>1, InOrderItems DEF Blocks, InOrder
<1>3. ASSUME NEW j \in 1 .. Len(q)
      PROVE  Blocks[j].len = q[j].len /\ Blocks[j].ones = q[j].ones /\ Blocks[j].start = q[j].start
  <2>1. q[j] \in Item
    BY <1>1, ElementOfSeq
  <2>2. q[j].start + 0 = q[j].start
    BY <2>1 DEF Item
  <2> QED
    BY <1>2, <2>2 DEF ListAt
<1> QED
  BY <1>2, <1>3 DEF ListAt

(* The vector ends where its last block does.                              *)
LEMMA TotalIs ==
  ASSUME IInv
  PROVE  /\ Total = IF Len(Sq(tree)) = 0 THEN 0 ELSE EndOf(Sq(tree)[Len(Sq(tree))])
         /\ Total \in Int
<1> DEFINE q == Sq(tree)
           bs == Blocks
<1>1. q \in Seq(Item) /\ Good(q)
  BY ValidIs DEF IInv
<1>2. bs \in Seq(BlockRecord) /\ Len(bs) = Len(q)
      /\ \A j \in 1 .. Len(q) : bs[j].len = q[j].len /\ bs[j].start = q[j].start
  BY BlocksAre
<1>3. Len(q) \in Nat /\ \A j \in 1 .. Len(q) : EndOf(q[j]) \in Int
  BY <1>1, GoodItems
<1>4. bs = <<>> <=> Len(q) = 0
  <2> HIDE DEF bs, q
  <2> QED
    BY <1>2, EmptySeq
<1>5. Total = IF bs = <<>> THEN 0 ELSE bs[Len(bs)].start + CHAR_BIT * bs[Len(bs)].len
  BY DEF Total
<1> HIDE DEF bs, q
<1>6. CASE Len(q) = 0
  BY <1>4, <1>5, <1>6 DEF q
<1>7. CASE Len(q) # 0
  <2>1. Len(q) \in 1 .. Len(q)
    BY <1>3, <1>7
  <2> QED
    BY <1>2, <1>3, <1>4, <1>5, <1>7, <2>1 DEF EndOf, q
<1> QED
  BY <1>6, <1>7

(* What find returns for a block.                                          *)
IsBlock(b, x) == b.start = x.start /\ b.node.len = x.len /\ b.node.numOnes = x.ones

(* find with the position of a block gives that block.                     *)
LEMMA FoundIs ==
  ASSUME IInv, NEW i \in 1 .. Len(Sq(tree))
  PROVE  /\ At(Sq(tree), Sq(tree)[i].start, i)
         /\ IsBlock(Find(tree, Sq(tree)[i].start), Sq(tree)[i])
<1> DEFINE q == Sq(tree)
           s == q[i].start
<1>1. tree \in Trees /\ q \in Seq(Item) /\ Good(q) /\ Len(q) \in Nat
  BY ValidIs DEF IInv
<1>2. s \in Int /\ q[i].len \in Int /\ q[i].len >= 4
  BY <1>1, GoodItems
<1>3. At(q, s, i)
  <2>1. 0 \in 0 .. CHAR_BIT * q[i].len - 1 /\ s + 0 = s
    BY <1>2 DEF CHAR_BIT
  <2> HIDE DEF s
  <2>2. At(q, s + 0, i)
    BY <1>1, <2>1, GoodAt DEF s
  <2> QED
    BY <2>1, <2>2
<1>4. At(q, s - 0, i) /\ s + 0 = s /\ i \in Nat
  BY <1>1, <1>2, <1>3
<1> HIDE DEF s
<1>5. FindFrom(tree, s, 0).start = s + 0 /\ FindFrom(tree, s, 0).node.len = q[i].len
      /\ FindFrom(tree, s, 0).node.numOnes = q[i].ones
  <2>1. Finds(tree) /\ 0 \in Int /\ s \in Int
    BY <1>1, <1>2, FindWalk
  <2> QED
    BY <1>4, <2>1 DEF Finds, s
<1> QED
  BY <1>3, <1>4, <1>5 DEF IsBlock, Find, s

(* Where good blocks start and end.                                        *)
LEMMA Neighbours ==
  ASSUME NEW q \in Seq(Item), Good(q), NEW i \in 1 .. Len(q)
  PROVE  /\ q[i].start = IF i = 1 THEN 0 ELSE EndOf(q[i - 1])
         /\ i + 1 <= Len(q) => q[i + 1].start = EndOf(q[i])
         /\ \A j \in i + 1 .. Len(q) : q[j].start >= EndOf(q[i])
         /\ \A j \in 1 .. i - 1 : q[j].start < q[i].start
<1>1. Len(q) \in Nat /\ \A j \in 1 .. Len(q) : q[j].start \in Int /\ EndOf(q[j]) \in Int /\ EndOf(q[j]) > q[j].start
  BY GoodItems
<1>2. q[i].start = IF i = 1 THEN 0 ELSE EndOf(q[i - 1])
  BY DEF Good
<1>3. ASSUME i + 1 <= Len(q) PROVE q[i + 1].start = EndOf(q[i])
  <2>1. i + 1 \in 1 .. Len(q) /\ i + 1 # 1 /\ (i + 1) - 1 = i
    BY <1>1, <1>3
  <2> QED
    BY <2>1 DEF Good
<1>4. ASSUME NEW j \in i + 1 .. Len(q) PROVE q[j].start >= EndOf(q[i])
  <2>1. j \in 1 .. Len(q) /\ i < j
    BY <1>1
  <2>2. EndOf(q[i]) <= q[j].start
    BY <2>1, Ordered
  <2> QED
    BY <1>1, <2>1, <2>2
<1>5. ASSUME NEW j \in 1 .. i - 1 PROVE q[j].start < q[i].start
  <2>1. j \in 1 .. Len(q) /\ j < i
    BY <1>1
  <2>2. EndOf(q[j]) <= q[i].start
    BY <2>1, Ordered
  <2> QED
    BY <1>1, <2>1, <2>2
<1> QED
  BY <1>2, <1>3, <1>4, <1>5

(* The bit behind a block belongs to the next one.                         *)
LEMMA AfterIs ==
  ASSUME IInv, NEW i \in 1 .. Len(Sq(tree)), i + 1 \in 1 .. Len(Sq(tree)),
         NEW b, IsBlock(b, Sq(tree)[i])
  PROVE  IsBlock(After(b), Sq(tree)[i + 1])
<1> DEFINE q == Sq(tree)
<1>1. q \in Seq(Item) /\ Good(q) /\ Len(q) \in Nat
  BY ValidIs DEF IInv
<1>2. q[i + 1].start = EndOf(q[i])
  <2>1. i + 1 <= Len(q)
    BY <1>1
  <2> QED
    BY <1>1, <2>1, Neighbours
<1>3. b.start + CHAR_BIT * b.node.len = q[i + 1].start
  BY <1>2 DEF IsBlock, EndOf
<1> QED
  BY <1>3, FoundIs DEF After

(* The lengths and numbers of ones of blocks are integers.                 *)
LEMMA Numbers ==
  /\ \A l \in Lens : l \in Int /\ l > 0 /\ l % 4 = 0
  /\ \A o \in Ones : o \in Int
BY LensAssumption, OnesAssumption

(* The sequence the tree implements has those lengths.                     *)
LEMMA LenIs ==
  ASSUME IInv, NEW i \in 1 .. Len(Sq(tree))
  PROVE  Len(LensAndOnes(tree)) = Len(Sq(tree)) /\ LensAndOnes(tree)[i].len = Sq(tree)[i].len
<1>1. tree \in Trees
  BY ValidIs DEF IInv
<1>2. LensAndOnes(tree)[i] = [len |-> Sq(tree)[i].len, ones |-> Sq(tree)[i].ones]
  BY <1>1, LensAndOnesItems
<1> QED
  BY <1>1, <1>2, LensAndOnesItems

(* addBlock puts a block behind the last.                                  *)
LEMMA AddBlockStep ==
  ASSUME IInv, NEW len \in Lens, NEW ones \in Ones, AddBlock(len, ones)
  PROVE  Valid(tree') /\ Sequence!Add(LensAndOnes(tree), LensAndOnes(tree'))
<1> DEFINE q == Sq(tree)
           n == Len(q)
           u == tree'
           x == [len |-> len, ones |-> ones, start |-> Total]
<1>1. tree \in AllTrees /\ tree \in Summed /\ tree \in Trees /\ q \in Seq(Item) /\ Good(q) /\ n \in Nat
      /\ n <= MaxBlocks /\ Valid(tree)
  BY ValidIs DEF IInv
<1>2. Total \in Int /\ Total = IF n = 0 THEN 0 ELSE EndOf(q[n])
  BY TotalIs
<1>3. u = Insert(tree, 0, Total, ones, len) /\ Len(Blocks) < MaxBlocks
  BY DEF AddBlock
<1>4. Len(Blocks) = n
  BY BlocksAre
<1>5. n + 1 <= MaxBlocks
  BY <1>1, <1>3, <1>4, BlocksAssumption
<1>6. Before(q, Total, n + 1)
  <2>1. \A j \in 1 .. n : q[j].start < Total
    <3> TAKE j \in 1 .. n
    <3>1. n \in 1 .. n /\ Total = EndOf(q[n]) /\ (j # n => j < n)
      BY <1>1, <1>2
    <3>2. q[j].start \in Int /\ q[n].start \in Int /\ EndOf(q[j]) \in Int /\ EndOf(q[n]) \in Int
          /\ EndOf(q[j]) > q[j].start /\ EndOf(q[n]) > q[n].start
      BY <1>1, <3>1, GoodItems
    <3>3. j < n => EndOf(q[j]) <= q[n].start
      BY <1>1, <3>1, Ordered
    <3> QED
      BY <3>1, <3>2, <3>3
  <2>2. (n + 1) - 1 = n /\ n + 1 \in 1 .. n + 1
    BY <1>1
  <2>3. \A j \in n + 1 .. n : FALSE
    BY <1>1
  <2> HIDE DEF q
  <2> QED
    BY <2>1, <2>2, <2>3 DEF Before
<1>7. len \in Int /\ ones \in Int
  BY Numbers
<1> HIDE DEF u, q, n
<1>8. /\ u \in AllTrees /\ u \in Summed /\ Len(Sq(u)) = n + 1
      /\ \A j \in 1 .. (n + 1) - 1 : Sq(u)[j] = q[j]
      /\ Sq(u)[n + 1] = x
  <2>1. n + 1 \in Nat
    BY <1>1
  <2> DEFINE k == n + 1
  <2> HIDE DEF k
  <2>2. k \in Nat /\ Before(q, Total, k)
    BY <1>6, <2>1 DEF k
  <2>3. InsertedAt(u, tree, k, x)
    BY <1>1, <1>2, <1>3, <1>7, <2>2, Inserted DEF q, n
  <2> QED
    BY <2>3 DEF InsertedAt, k, n, q
<1>9. Len(LensAndOnes(tree)) = n
  BY <1>1, LensAndOnesItems DEF n, q
<1> DEFINE k == n + 1
           m == 0
<1>10. /\ x \in Item /\ k \in 1 .. Len(Sq(tree)) + 1 - m /\ m \in Nat /\ 0 \in Int
       /\ Len(Sq(u)) <= MaxBlocks /\ Len(Sq(u)) = Len(Sq(tree)) - m + 1
       /\ ~(k + m <= Len(Sq(tree)))
  BY <1>1, <1>2, <1>5, <1>7, <1>8 DEF Item, n, q
<1>11. x.start = IF k = 1 THEN 0 ELSE EndOf(Sq(tree)[k - 1])
  <2>1. (n + 1 = 1 <=> n = 0) /\ (n + 1) - 1 = n
    BY <1>1
  <2> QED
    BY <1>2, <2>1 DEF q
<1>12. \A j \in k + m .. Len(Sq(tree)) : FALSE
  BY <1>1 DEF n, q
<1>13. x.len \in Lens /\ x.ones \in Ones /\ x.len = len
  OBVIOUS
<1>14. (\A j \in 1 .. k - 1 : Sq(u)[j] = Sq(tree)[j]) /\ Sq(u)[k] = x
  BY <1>8 DEF q
<1> HIDE DEF k, m, x
<1>15. Valid(u) /\ Sequence!Replace(LensAndOnes(tree), LensAndOnes(u), k, m, <<x.len>>)
  BY <1>1, <1>8, <1>10, <1>11, <1>12, <1>13, <1>14, ReplacedByOne
<1> QED
  BY <1>9, <1>13, <1>15 DEF Sequence!Add, u, k, m

(* modify keeps the length of a block.                                     *)
LEMMA ModifyStep ==
  ASSUME IInv, NEW i \in 1 .. Len(Sq(tree)), NEW b, IsBlock(b, Sq(tree)[i]),
         NEW ones \in Ones, Modify(b, ones)
  PROVE  Valid(tree') /\ Sequence!Change(LensAndOnes(tree), LensAndOnes(tree'), i)
<1> DEFINE q == Sq(tree)
           u == tree'
           s == q[i].start
           o == ones - q[i].ones
           x == [len |-> q[i].len, ones |-> ones, start |-> s]
<1>1. tree \in AllTrees /\ tree \in Summed /\ tree \in Trees /\ q \in Seq(Item) /\ Good(q) /\ Len(q) \in Nat
      /\ Len(q) <= MaxBlocks /\ Valid(tree)
  BY ValidIs DEF IInv
<1>2. q[i] \in Item /\ s \in Int /\ q[i].len \in Int /\ q[i].ones \in Int /\ q[i].len \in Lens
      /\ EndOf(q[i]) = s + 8 * q[i].len
  BY <1>1, GoodItems
<1>3. ones \in Int /\ o \in Int /\ q[i].ones + o = ones
  BY <1>2, Numbers
<1>4. u = UpdatePath2(tree, s, o, 0)
  BY DEF Modify, IsBlock
<1>5. At(q, s, i) /\ i \in Nat
  BY <1>1, FoundIs
<1> HIDE DEF u, q, s, o
<1>6. u \in AllTrees /\ u \in Summed /\ Sq(u) = Put(q, i, 1, <<OnesPlus(q[i], o)>>, 0)
  <2>1. Updates(tree, o, 0)
    BY <1>1, <1>3, UpdateWalk
  <2> QED
    BY <1>1, <1>2, <1>4, <1>5, <2>1 DEF Updates, q
<1>7. OnesPlus(q[i], o) = x /\ x \in Item
  BY <1>2, <1>3 DEF OnesPlus, Item, s
<1>8. i \in 1 .. Len(q)
  BY DEF q
<1> DEFINE p == Put(q, i, 1, <<x>>, 0)
<1>9. x.len = q[i].len /\ x.ones = ones /\ x.start = s
  OBVIOUS
<1> HIDE DEF x
<1>10. p \in Seq(Item) /\ Len(p) = Len(q)
  BY <1>1, <1>7, <1>8, ChangedIs
<1>11. \A j \in 1 .. i - 1 : p[j] = q[j]
  BY <1>1, <1>7, <1>8, ChangedIs
<1>12. p[i] = x
  BY <1>1, <1>7, <1>8, ChangedIs
<1>13. \A j \in i + 1 .. Len(q) : p[j] = Moved(q[j], 0)
  BY <1>1, <1>7, <1>8, ChangedIs
<1>14. Sq(u) = p
  BY <1>6, <1>7
<1> HIDE DEF p
<1> DEFINE m == 1
<1>15. /\ m \in Nat /\ i \in 1 .. Len(Sq(tree)) + 1 - m /\ 0 \in Int
       /\ Len(Sq(u)) <= MaxBlocks /\ Len(Sq(u)) = Len(Sq(tree)) - m + 1
  BY <1>1, <1>8, <1>10, <1>14 DEF q
<1>16. \A j \in i + m .. Len(Sq(tree)) : Sq(u)[j - m + 1] = Moved(Sq(tree)[j], 0)
  <2> TAKE j \in i + m .. Len(Sq(tree))
  <2>1. j - m + 1 = j
    BY <1>1 DEF q
  <2> QED
    BY <1>13, <1>14, <2>1 DEF q
<1>17. /\ x.start = IF i = 1 THEN 0 ELSE EndOf(Sq(tree)[i - 1])
       /\ i + m <= Len(Sq(tree)) => EndOf(x) = Sq(tree)[i + m].start + 0
  <2>1. /\ s = IF i = 1 THEN 0 ELSE EndOf(q[i - 1])
        /\ i + 1 <= Len(q) => q[i + 1].start = EndOf(q[i])
    BY <1>1, <1>8, Neighbours DEF s
  <2>2. EndOf(x) = EndOf(q[i]) /\ EndOf(x) \in Int
    BY <1>2, <1>9 DEF EndOf, CHAR_BIT, s
  <2> QED
    BY <1>9, <2>1, <2>2 DEF q
<1>18. x.len \in Lens /\ x.ones \in Ones
  BY <1>2, <1>9
<1>19. (\A j \in 1 .. i - 1 : Sq(u)[j] = Sq(tree)[j]) /\ Sq(u)[i] = x
  BY <1>11, <1>12, <1>14 DEF q
<1> HIDE DEF m
<1>20. Valid(u) /\ Sequence!Replace(LensAndOnes(tree), LensAndOnes(u), i, m, <<x.len>>)
  BY <1>1, <1>6, <1>7, <1>15, <1>16, <1>17, <1>18, <1>19, ReplacedByOne
<1>21. x.len = LensAndOnes(tree)[i].len + 0
  <2>1. LensAndOnes(tree)[i].len = q[i].len
    BY LenIs DEF q
  <2> QED
    BY <1>2, <1>9, <2>1
<1> QED
  BY <1>20, <1>21 DEF Sequence!Change, u, m

(* A block gets a length and ones, and those behind it move.               *)
LEMMA ResizeStep ==
  ASSUME IInv, NEW i \in 1 .. Len(Sq(tree)), NEW b, IsBlock(b, Sq(tree)[i]),
         NEW ones \in Ones, NEW len \in Lens, len \in {b.node.len - WORD, b.node.len + WORD},
         Resize(b, len, ones)
  PROVE  Valid(tree') /\ Sequence!Change(LensAndOnes(tree), LensAndOnes(tree'), i)
<1> DEFINE q == Sq(tree)
           u == tree'
           s == q[i].start
           o == ones - q[i].ones
           d == 8 * (len - q[i].len)
           x == [len |-> len, ones |-> q[i].ones + o, start |-> s]
<1>1. tree \in AllTrees /\ tree \in Summed /\ tree \in Trees /\ q \in Seq(Item) /\ Good(q) /\ Len(q) \in Nat
      /\ Len(q) <= MaxBlocks /\ Valid(tree)
  BY ValidIs DEF IInv
<1>2. q[i] \in Item /\ s \in Int /\ q[i].len \in Int /\ q[i].ones \in Int /\ q[i].len \in Lens
      /\ EndOf(q[i]) = s + 8 * q[i].len
  BY <1>1, GoodItems
<1>3. ones \in Int /\ o \in Int /\ q[i].ones + o = ones /\ len \in Int /\ len > 0 /\ d \in Int
  BY <1>2, Numbers
<1>4. u = UpdatePath2(SetLenAt(tree, s, len), s, o, d)
  BY DEF Resize, IsBlock, CHAR_BIT
<1>5. At(q, s, i) /\ i \in Nat
  BY <1>1, FoundIs
<1>6. x.len = len /\ x.ones = ones /\ x.start = s /\ x \in Item
  BY <1>2, <1>3 DEF Item
<1>7. q[i].start = s
  OBVIOUS
<1>8. d = 8 * (len - q[i].len)
  OBVIOUS
<1> HIDE DEF u, q, s, o, d
<1>9. /\ u \in AllTrees /\ u \in Summed /\ Len(Sq(u)) = Len(q)
      /\ \A j \in 1 .. i - 1 : Sq(u)[j] = q[j]
      /\ Sq(u)[i] = x
      /\ \A j \in i + 1 .. Len(q) : Sq(u)[j] = Moved(q[j], d)
  <2>1. ChangedAt(u, tree, i, x, d)
    BY <1>1, <1>2, <1>3, <1>4, <1>5, <1>7, SetAndUpdate DEF q
  <2> QED
    BY <2>1 DEF ChangedAt, q
<1>10. i \in 1 .. Len(q)
  BY DEF q
<1> HIDE DEF x
<1> DEFINE m == 1
<1>15. /\ m \in Nat /\ i \in 1 .. Len(Sq(tree)) + 1 - m
       /\ Len(Sq(u)) <= MaxBlocks /\ Len(Sq(u)) = Len(Sq(tree)) - m + 1
  BY <1>1, <1>9, <1>10 DEF q
<1>16. \A j \in i + m .. Len(Sq(tree)) : Sq(u)[j - m + 1] = Moved(Sq(tree)[j], d)
  <2> TAKE j \in i + m .. Len(Sq(tree))
  <2>1. j - m + 1 = j
    BY <1>1 DEF q
  <2> QED
    BY <1>9, <2>1 DEF q
<1>17. /\ x.start = IF i = 1 THEN 0 ELSE EndOf(Sq(tree)[i - 1])
       /\ i + m <= Len(Sq(tree)) => EndOf(x) = Sq(tree)[i + m].start + d
  <2>1. /\ s = IF i = 1 THEN 0 ELSE EndOf(q[i - 1])
        /\ i + 1 <= Len(q) => q[i + 1].start = EndOf(q[i])
    BY <1>1, <1>7, <1>10, Neighbours
  <2>2. EndOf(x) = s + 8 * len
    BY <1>6 DEF EndOf, CHAR_BIT
  <2>3. EndOf(x) = EndOf(q[i]) + d
    BY <1>2, <1>3, <1>8, <2>2
  <2> QED
    BY <1>6, <2>1, <2>3 DEF q
<1>18. x.len \in Lens /\ x.ones \in Ones
  BY <1>6
<1>19. (\A j \in 1 .. i - 1 : Sq(u)[j] = Sq(tree)[j]) /\ Sq(u)[i] = x
  BY <1>9 DEF q
<1> HIDE DEF m
<1>20. Valid(u) /\ Sequence!Replace(LensAndOnes(tree), LensAndOnes(u), i, m, <<x.len>>)
  BY <1>1, <1>3, <1>6, <1>9, <1>15, <1>16, <1>17, <1>18, <1>19, ReplacedByOne
<1>21. \E k \in {-WORD, 0, WORD} : x.len = LensAndOnes(tree)[i].len + k
  <2>1. LensAndOnes(tree)[i].len = q[i].len
    BY LenIs DEF q
  <2>2. len = q[i].len - 4 \/ len = q[i].len + 4
    BY DEF IsBlock, WORD, q
  <2>3. x.len = q[i].len + -4 \/ x.len = q[i].len + 4
    BY <1>2, <1>6, <2>2
  <2> QED
    BY <2>1, <2>3 DEF WORD
<1> QED
  BY <1>20, <1>21 DEF Sequence!Change, u, m

(* The bytes of a block with one word more are an even number.             *)
LEMMA EvenHalves ==
  ASSUME NEW l \in Int, l % 4 = 0
  PROVE  (l + 4) - ((l + 4) \div 2) = (l + 4) \div 2
OBVIOUS

(* Where the halves of a block of l bytes at s with one word more end.     *)
LEMMA HalfNumbers ==
  ASSUME NEW s \in Int, NEW l \in Int, NEW h \in Int, h > 0, (l + 4) - h = h
  PROVE  /\ s + 8 * h > s
         /\ (s + 8 * l) + 32 > s + 8 * h
         /\ (s + 8 * h) + 8 * h = (s + 8 * l) + 32
OBVIOUS

(* A split leaves the first half of the words in the block and inserts the *)
(* second half behind it.                                                  *)
LEMMA SplitStep ==
  ASSUME IInv, NEW i \in 1 .. Len(Sq(tree)), NEW b, IsBlock(b, Sq(tree)[i]),
         NEW ones1 \in Ones, NEW ones2 \in Ones, Split(b, ones1, ones2)
  PROVE  Valid(tree') /\ Sequence!Split(LensAndOnes(tree), LensAndOnes(tree'), i)
<1> DEFINE q == Sq(tree)
           u == tree'
           s == q[i].start
           len == q[i].len + 4
           half == len \div 2
           o == ones1 - q[i].ones
           v == UpdatePath2(SetLenAt(tree, s, half), s, o, 32)
           e == s + 8 * half
           x == [len |-> half, ones |-> q[i].ones + o, start |-> s]
           y == [len |-> len - half, ones |-> ones2, start |-> e]
<1>1. tree \in AllTrees /\ tree \in Summed /\ tree \in Trees /\ q \in Seq(Item) /\ Good(q) /\ Len(q) \in Nat
      /\ Len(q) <= MaxBlocks /\ Valid(tree)
  BY ValidIs DEF IInv
<1>2. q[i] \in Item /\ s \in Int /\ q[i].len \in Int /\ q[i].ones \in Int /\ q[i].len \in Lens
      /\ EndOf(q[i]) = s + 8 * q[i].len /\ q[i].len % 4 = 0 /\ q[i].len >= 4
  BY <1>1, GoodItems
<1>3. u = Insert(v, 0, e, ones2, len - half) /\ half \in Lens /\ Len(Blocks) < MaxBlocks
  BY DEF Split, IsBlock, CHAR_BIT, WORD
<1>4. /\ ones1 \in Int /\ ones2 \in Int /\ o \in Int /\ q[i].ones + o = ones1 /\ half \in Int /\ half > 0
      /\ len - half = half /\ e \in Int /\ len \in Int
  <2>1. ones1 \in Int /\ ones2 \in Int /\ half \in Int /\ half > 0
    BY <1>3, Numbers
  <2>2. len - half = half
    <3> DEFINE z == q[i].len
    <3>1. z \in Int /\ z % 4 = 0
      BY <1>2
    <3> HIDE DEF z
    <3>2. (z + 4) - ((z + 4) \div 2) = (z + 4) \div 2
      BY <3>1, EvenHalves
    <3> QED
      BY <3>2 DEF z
  <2>3. s \in Int /\ len \in Int /\ q[i].ones \in Int
    BY <1>2
  <2> HIDE DEF s, half, len, q
  <2> QED
    BY <2>1, <2>2, <2>3
<1>5. At(q, s, i) /\ i \in Nat /\ i \in 1 .. Len(q)
  BY <1>1, FoundIs
<1>6. Len(q) + 1 <= MaxBlocks
  <2>1. Len(Blocks) = Len(q)
    BY BlocksAre
  <2> QED
    BY <1>1, <1>3, <2>1, BlocksAssumption
<1>7. x.len = half /\ x.ones = ones1 /\ x.start = s /\ x \in Item
  BY <1>2, <1>4 DEF Item
<1>8. y.len = len - half /\ y.ones = ones2 /\ y.start = e /\ y \in Item
  BY <1>2, <1>4 DEF Item
<1>9. q[i].start = s /\ e = s + 8 * half /\ len = q[i].len + 4
  OBVIOUS
<1> HIDE DEF u, q, s, len, half, o, e
<1>24. /\ s \in Int /\ e \in Int /\ len - half = half /\ half \in Int /\ e > s
       /\ EndOf(q[i]) \in Int /\ EndOf(q[i]) + 32 > e /\ e + 8 * half = EndOf(q[i]) + 32
  <2>1. /\ s \in Int /\ e \in Int /\ len \in Int /\ half \in Int /\ q[i].len \in Int
        /\ len - half = half /\ half > 0 /\ EndOf(q[i]) = s + 8 * q[i].len
    BY <1>2, <1>4
  <2>2. /\ s + 8 * half > s
        /\ (s + 8 * q[i].len) + 32 > s + 8 * half
        /\ (s + 8 * half) + 8 * half = (s + 8 * q[i].len) + 32
    <3>1. (q[i].len + 4) - half = half
      BY <1>9, <2>1
    <3> DEFINE l == q[i].len
    <3> HIDE DEF l
    <3>2. s \in Int /\ l \in Int /\ half \in Int /\ half > 0 /\ (l + 4) - half = half
      BY <2>1, <3>1 DEF l
    <3> QED
      BY <3>2, HalfNumbers DEF l
  <2>3. EndOf(q[i]) \in Int
    BY <2>1
  <2> QED
    BY <1>9, <2>1, <2>2, <2>3
<1>10. ChangedAt(v, tree, i, x, 32)
  <2>1. 32 \in Int
    OBVIOUS
  <2> QED
    BY <1>1, <1>2, <1>4, <1>5, <1>9, <2>1, SetAndUpdate DEF q
<1> HIDE DEF v, x
<1>11. /\ v \in AllTrees /\ v \in Summed /\ Len(Sq(v)) = Len(q)
       /\ \A j \in 1 .. i - 1 : Sq(v)[j] = q[j]
       /\ Sq(v)[i] = x
       /\ \A j \in i + 1 .. Len(q) : Sq(v)[j] = Moved(q[j], 32)
  BY <1>10 DEF ChangedAt, q
<1> DEFINE k == i + 1
<1>12. Before(Sq(v), e, k)
  <2>1. \A j \in 1 .. k - 1 : Sq(v)[j].start < e
    <3> TAKE j \in 1 .. k - 1
    <3>1. CASE j = i
      BY <1>7, <1>11, <1>24, <3>1
    <3>2. CASE j # i
      <4>1. j \in 1 .. i - 1 /\ j \in 1 .. Len(q)
        BY <1>1, <1>5, <3>2
      <4>2. q[j].start < s /\ q[j].start \in Int
        BY <1>1, <1>5, <1>9, <4>1, Neighbours, GoodItems
      <4>3. Sq(v)[j].start = q[j].start
        BY <1>11, <4>1
      <4> QED
        BY <1>24, <4>2, <4>3
    <3> QED
      BY <3>1, <3>2
  <2>2. \A j \in k .. Len(Sq(v)) : e < Sq(v)[j].start
    <3> TAKE j \in k .. Len(Sq(v))
    <3>1. j \in i + 1 .. Len(q) /\ j \in 1 .. Len(q)
      BY <1>1, <1>5, <1>11
    <3>2. q[j].start >= EndOf(q[i]) /\ q[j].start \in Int
      BY <1>1, <1>5, <3>1, Neighbours, GoodItems
    <3>3. Sq(v)[j] = Moved(q[j], 32)
      BY <1>11, <3>1
    <3>4. Sq(v)[j].start = q[j].start + 32
      BY <3>3 DEF Moved
    <3> QED
      BY <1>24, <3>2, <3>4
  <2>3. k \in 1 .. Len(Sq(v)) + 1
    BY <1>1, <1>5, <1>11
  <2> QED
    BY <2>1, <2>2, <2>3 DEF Before
<1>13. k \in Nat /\ Len(Sq(v)) <= MaxBlocks /\ len - half \in Int
  BY <1>1, <1>4, <1>5, <1>11
<1> HIDE DEF k
<1>14. InsertedAt(u, v, k, y)
  BY <1>3, <1>4, <1>11, <1>12, <1>13, Inserted
<1> HIDE DEF y
<1>15. /\ u \in AllTrees /\ u \in Summed /\ Len(Sq(u)) = Len(q) + 1
       /\ \A j \in 1 .. k - 1 : Sq(u)[j] = Sq(v)[j]
       /\ Sq(u)[k] = y
       /\ \A j \in k .. Len(q) : Sq(u)[j + 1] = Sq(v)[j]
  BY <1>11, <1>14 DEF InsertedAt
<1>16. (\A j \in 1 .. i - 1 : Sq(u)[j] = q[j]) /\ Sq(u)[i] = x /\ Sq(u)[i + 1] = y
  <2>1. ASSUME NEW j \in 1 .. i - 1 PROVE Sq(u)[j] = q[j]
    <3>1. j \in 1 .. k - 1
      BY <1>5 DEF k
    <3> QED
      BY <1>11, <1>15, <3>1
  <2>2. i \in 1 .. k - 1
    BY <1>5 DEF k
  <2>3. Sq(u)[i] = x
    BY <1>11, <1>15, <2>2
  <2> QED
    BY <1>15, <2>1, <2>3 DEF k
<1> DEFINE m == 1
           d == 32
<1>17. \A j \in i + m .. Len(Sq(tree)) : Sq(u)[j - m + 2] = Moved(Sq(tree)[j], d)
  <2> TAKE j \in i + m .. Len(Sq(tree))
  <2>1. j - m + 2 = j + 1 /\ j \in k .. Len(q) /\ j \in i + 1 .. Len(q)
    BY <1>5 DEF k, q
  <2>2. Sq(u)[j + 1] = Moved(q[j], 32)
    BY <1>11, <1>15, <2>1
  <2> QED
    BY <2>1, <2>2 DEF q
<1>18. /\ m \in Nat /\ i \in 1 .. Len(Sq(tree)) + 1 - m /\ d \in Int
       /\ Len(Sq(u)) <= MaxBlocks /\ Len(Sq(u)) = Len(Sq(tree)) - m + 2
  BY <1>1, <1>5, <1>6, <1>15 DEF q
<1>19. /\ x.start = IF i = 1 THEN 0 ELSE EndOf(Sq(tree)[i - 1])
       /\ y.start = EndOf(x)
       /\ i + m <= Len(Sq(tree)) => EndOf(y) = Sq(tree)[i + m].start + d
  <2>1. /\ s = IF i = 1 THEN 0 ELSE EndOf(q[i - 1])
        /\ i + 1 <= Len(q) => q[i + 1].start = EndOf(q[i])
    BY <1>1, <1>5, <1>9, Neighbours
  <2>2. EndOf(x) = s + 8 * half /\ EndOf(y) = e + 8 * (len - half)
    BY <1>7, <1>8 DEF EndOf, CHAR_BIT
  <2>3. EndOf(y) = EndOf(q[i]) + 32
    BY <1>24, <2>2
  <2> QED
    BY <1>7, <1>8, <1>9, <2>1, <2>2, <2>3 DEF q
<1>20. x.len \in Lens /\ x.ones \in Ones /\ y.len \in Lens /\ y.ones \in Ones
  BY <1>3, <1>4, <1>7, <1>8
<1>21. (\A j \in 1 .. i - 1 : Sq(u)[j] = Sq(tree)[j]) /\ Sq(u)[i] = x /\ Sq(u)[i + 1] = y
  BY <1>16 DEF q
<1> HIDE DEF m, d
<1>22. Valid(u) /\ Sequence!Replace(LensAndOnes(tree), LensAndOnes(u), i, m, <<x.len, y.len>>)
  BY <1>1, <1>7, <1>8, <1>15, <1>17, <1>18, <1>19, <1>20, <1>21, ReplacedByTwo, ZenonT(40)
<1>23. LensAndOnes(tree)[i].len + WORD = len
  <2>1. LensAndOnes(tree)[i].len = q[i].len
    BY LenIs DEF q
  <2> QED
    BY <1>9, <2>1 DEF WORD
<1> QED
  BY <1>7, <1>8, <1>22, <1>23 DEF Sequence!Split, u, m, half

(* The right one of two neighbours taken out.                              *)
LEMMA WithoutRightIs ==
  ASSUME IInv, NEW i \in 1 .. Len(Sq(tree)), i + 1 \in 1 .. Len(Sq(tree)),
         NEW r, IsBlock(r, Sq(tree)[i + 1]), r.node.len > WORD
  PROVE  /\ WithoutRight(r) \in AllTrees /\ WithoutRight(r) \in Summed
         /\ Len(Sq(WithoutRight(r))) = Len(Sq(tree)) - 1
         /\ \A j \in 1 .. i : Sq(WithoutRight(r))[j] = Sq(tree)[j]
         /\ \A j \in i + 1 .. Len(Sq(tree)) - 1 : Sq(WithoutRight(r))[j] = Moved(Sq(tree)[j + 1], -32)
<1> DEFINE q == Sq(tree)
           k == i + 1
           f == q[k].start
           o == -q[k].ones
           v == UpdatePath2(tree, f, o, -32)
           u == WithoutRight(r)
           x == OnesPlus(q[k], o)
<1>1. tree \in AllTrees /\ tree \in Summed /\ tree \in Trees /\ q \in Seq(Item) /\ Good(q) /\ Len(q) \in Nat
      /\ Len(q) <= MaxBlocks /\ Valid(tree)
  BY ValidIs DEF IInv
<1>2. k \in 1 .. Len(q) /\ k \in Nat /\ k - 1 = i
  BY <1>1
<1>3. u = DeleteElem(v, f)
  BY DEF WithoutRight, IsBlock, CHAR_BIT, WORD
<1>4. q[k] \in Item /\ f \in Int /\ q[k].len \in Int /\ q[k].ones \in Int
      /\ EndOf(q[k]) = f + 8 * q[k].len
  BY <1>1, <1>2, GoodItems
<1>5. q[k].len > 4 /\ q[k].start = f
  BY DEF IsBlock, WORD
<1>6. At(q, f, k)
  BY <1>2, FoundIs
<1>7. o \in Int /\ q[k].ones + o = 0
  BY <1>4
<1> HIDE DEF q, k, f, o, u
<1>8. v \in AllTrees /\ v \in Summed /\ Sq(v) = Put(q, k, 1, <<x>>, -32)
  <2>1. Updates(tree, o, -32)
    BY <1>1, <1>7, UpdateWalk
  <2> QED
    BY <1>1, <1>2, <1>4, <1>6, <2>1 DEF Updates, q
<1>9. x \in Item /\ x.len = q[k].len /\ x.ones = 0 /\ x.start = f
  <2>1. x \in Item
    BY <1>4, <1>7, ChangedItems
  <2> QED
    BY <1>5, <1>7, <2>1 DEF OnesPlus
<1> HIDE DEF v, x
<1> DEFINE p == Put(q, k, 1, <<x>>, -32)
           d == -32
<1>10. d \in Int
  OBVIOUS
<1>11. p = Put(q, k, 1, <<x>>, d)
  OBVIOUS
<1> HIDE DEF p, d
<1>12. p \in Seq(Item) /\ Len(p) = Len(q)
  BY <1>1, <1>2, <1>9, <1>10, <1>11, ChangedIs
<1>13. \A j \in 1 .. k - 1 : p[j] = q[j]
  BY <1>1, <1>2, <1>9, <1>10, <1>11, ChangedIs
<1>14. p[k] = x
  BY <1>1, <1>2, <1>9, <1>10, <1>11, ChangedIs
<1>15. \A j \in k + 1 .. Len(q) : p[j] = Moved(q[j], d)
  BY <1>1, <1>2, <1>9, <1>10, <1>11, ChangedIs
<1>16. Sq(v) = p
  BY <1>8 DEF p
<1>17. At(p, f, k)
  <2>1. k <= Len(p) /\ p[k].start = q[k].start /\ p[k].len \in Int /\ p[k].len > 0
    BY <1>1, <1>2, <1>4, <1>5, <1>9, <1>12, <1>14
  <2>2. \A j \in k + 1 .. Len(p) : q[k].start < p[j].start
    <3> TAKE j \in k + 1 .. Len(p)
    <3>1. j \in k + 1 .. Len(q) /\ j \in 1 .. Len(q)
      BY <1>1, <1>2, <1>12
    <3>2. q[j].start >= EndOf(q[k]) /\ q[j].start \in Int
      BY <1>1, <1>2, <3>1, Neighbours, GoodItems
    <3>4. p[j] = Moved(q[j], d)
      BY <1>15, <3>1
    <3>3. p[j].start = q[j].start - 32
      BY <3>2, <3>4 DEF Moved, d
    <3> QED
      BY <1>4, <1>5, <3>2, <3>3, SMTT(30)
  <2>3. At(p, q[k].start, k)
    BY <1>1, <1>2, <1>12, <1>13, <2>1, <2>2, StillAt
  <2> QED
    BY <1>5, <2>3
<1>18. v \in Trees
  <2>1. Len(Sq(v)) <= MaxBlocks
    BY <1>1, <1>12, <1>16
  <2> QED
    BY <1>8, <2>1, InTrees
<1>19. u \in AllTrees /\ u \in Summed /\ Sq(u) = Put(p, k, 1, <<>>, 0)
  <2>1. Sq(v)[k].ones = 0
    BY <1>9, <1>14, <1>16
  <2>2. At(Sq(v), f, k)
    BY <1>16, <1>17
  <2> QED
    BY <1>2, <1>3, <1>4, <1>8, <1>16, <1>18, <2>1, <2>2, DeleteElemIs
<1>20. k \in 1 .. Len(p)
  BY <1>2, <1>12
<1>21. /\ Len(Sq(u)) = Len(p) - 1
       /\ \A j \in 1 .. Len(p) - 1 : Sq(u)[j] = IF j < k THEN p[j] ELSE p[j + 1]
  BY <1>12, <1>19, <1>20, DropIs, SMTT(30)
<1>22. ASSUME NEW j \in 1 .. i PROVE Sq(u)[j] = q[j]
  <2>1. j \in 1 .. Len(p) - 1 /\ j < k /\ j \in 1 .. k - 1
    BY <1>1, <1>2, <1>12
  <2> QED
    BY <1>13, <1>21, <2>1
<1>23. ASSUME NEW j \in i + 1 .. Len(q) - 1 PROVE Sq(u)[j] = Moved(q[j + 1], -32)
  <2>1. j \in 1 .. Len(p) - 1 /\ ~(j < k) /\ j + 1 \in k + 1 .. Len(q)
    BY <1>1, <1>2, <1>12
  <2> QED
    BY <1>15, <1>21, <2>1 DEF d
<1> QED
  BY <1>12, <1>19, <1>21, <1>22, <1>23 DEF u, q

(* Two neighbours give way to one block of length n at the place of the    *)
(* left one, and the blocks behind them move down by a word.               *)
MergedAt(v, i, n, ones) ==
  /\ v \in AllTrees /\ v \in Summed /\ Len(Sq(v)) = Len(Sq(tree)) - 1
  /\ \A j \in 1 .. i - 1 : Sq(v)[j] = Sq(tree)[j]
  /\ Sq(v)[i] = [len |-> n, ones |-> ones, start |-> Sq(tree)[i].start]
  /\ \A j \in i + 1 .. Len(Sq(tree)) - 1 : Sq(v)[j] = Moved(Sq(tree)[j + 1], -32)

(* Where a block of a bytes at s and one of b behind it end, a word less.  *)
LEMMA MergeNumbers ==
  ASSUME NEW s \in Int, NEW a \in Int, NEW f \in Int, NEW b \in Int, b >= 4
  PROVE  /\ (f + 8 * b) - 32 >= f
         /\ f = s + 8 * a => (f + 8 * b) - 32 = s + 8 * (a + b - 4)
         /\ f + 8 * b \in Int
OBVIOUS

(* The right neighbour out, length and ones of the left one set: that is   *)
(* it.                                                                     *)
LEMMA MergedIs ==
  ASSUME IInv, NEW i \in 1 .. Len(Sq(tree)), i + 1 \in 1 .. Len(Sq(tree)),
         NEW l, IsBlock(l, Sq(tree)[i]),
         NEW r, IsBlock(r, Sq(tree)[i + 1]), r.node.len > WORD,
         NEW n \in Lens, NEW ones \in Ones
  PROVE  MergedAt(UpdatePath2(SetLenAt(WithoutRight(r), l.start, n), l.start, ones - l.node.numOnes, 0),
                  i, n, ones)
<1> DEFINE q == Sq(tree)
           u == WithoutRight(r)
           p == Sq(u)
           s == q[i].start
           o == ones - q[i].ones
           d == -32
           v == UpdatePath2(SetLenAt(u, s, n), s, o, 0)
           x == [len |-> n, ones |-> p[i].ones + o, start |-> s]
<1>1. q \in Seq(Item) /\ Good(q) /\ Len(q) \in Nat /\ Len(q) <= MaxBlocks /\ MaxBlocks \in Nat
  BY ValidIs, BlocksAssumption DEF IInv
<1>2. s \in Int /\ q[i].len \in Int /\ q[i].ones \in Int /\ q[i].len >= 4
      /\ EndOf(q[i]) = s + 8 * q[i].len
  BY <1>1, GoodItems
<1>3. ones \in Int /\ o \in Int /\ q[i].ones + o = ones /\ n \in Int /\ n > 0
  BY <1>2, Numbers
<1>4. /\ u \in AllTrees /\ u \in Summed /\ Len(p) = Len(q) - 1
      /\ \A j \in 1 .. i : p[j] = q[j]
      /\ \A j \in i + 1 .. Len(q) - 1 : p[j] = Moved(q[j + 1], d)
  BY WithoutRightIs
<1>5. UpdatePath2(SetLenAt(WithoutRight(r), l.start, n), l.start, ones - l.node.numOnes, 0) = v
  BY DEF IsBlock
<1>6. i \in 1 .. Len(q) /\ i + 1 \in 1 .. Len(q) /\ q[i].start = s /\ i \in Nat
  BY <1>1
<1>7. d = -32 /\ d \in Int
  OBVIOUS
<1> HIDE DEF q, u, s, o, d
<1>8. p \in Seq(Item) /\ Len(p) \in Nat /\ Len(p) <= MaxBlocks
  <2>1. p \in Seq(Item) /\ Len(p) \in Nat
    BY <1>4, SqType
  <2>2. Len(p) = Len(q) - 1
    BY <1>4
  <2> HIDE DEF p
  <2> QED
    BY <1>1, <2>1, <2>2
<1>9. p[i] = q[i] /\ i <= Len(p)
  <2>1. i \in 1 .. i
    BY <1>6
  <2> QED
    BY <1>1, <1>4, <1>6, <2>1
<1> HIDE DEF p
<1>10. At(p, s, i)
  <2>1. \A j \in 1 .. i - 1 : p[j] = q[j]
    <3> TAKE j \in 1 .. i - 1
    <3>1. j \in 1 .. i
      BY <1>6
    <3> QED
      BY <1>4, <3>1
  <2>2. \A j \in i + 1 .. Len(p) : q[i].start < p[j].start
    <3> TAKE j \in i + 1 .. Len(p)
    <3> DEFINE k == i + 1
    <3>1. /\ j \in i + 1 .. Len(q) - 1 /\ j + 1 \in k + 1 .. Len(q) /\ j + 1 \in 1 .. Len(q)
          /\ k \in 1 .. Len(q) /\ k \in i + 1 .. Len(q)
      BY <1>1, <1>4, <1>6
    <3> HIDE DEF k
    <3>2. q[j + 1].start >= EndOf(q[k]) /\ q[j + 1].start \in Int
      BY <1>1, <3>1, Neighbours, GoodItems
    <3>3. q[k].start >= EndOf(q[i]) /\ EndOf(q[k]) = q[k].start + 8 * q[k].len /\ q[k].len >= 4
          /\ q[k].start \in Int /\ q[k].len \in Int
      BY <1>1, <1>6, <3>1, Neighbours, GoodItems
    <3>4. p[j] = Moved(q[j + 1], d)
      BY <1>4, <3>1
    <3>5. p[j].start = q[j + 1].start - 32
      BY <1>7, <3>2, <3>4 DEF Moved
    <3>6. EndOf(q[i]) > s
      BY <1>2
    <3>7. EndOf(q[k]) - 32 >= q[k].start /\ EndOf(q[k]) \in Int
      <4> DEFINE f == q[k].start
                 b == q[k].len
      <4>1. f \in Int /\ b \in Int /\ b >= 4 /\ EndOf(q[k]) = f + 8 * b
        BY <3>3
      <4> HIDE DEF f, b
      <4>2. (f + 8 * b) - 32 >= f /\ f + 8 * b \in Int
        BY <4>1, MergeNumbers
      <4> QED
        BY <4>1, <4>2 DEF f
    <3>8. EndOf(q[i]) \in Int
      BY <1>2
    <3> QED
      <4>1. q[k].start > s /\ q[k].start \in Int
        BY <1>2, <3>3, <3>6, <3>8, SMTT(30)
      <4>2. q[j + 1].start - 32 >= q[k].start
        BY <3>2, <3>7, <4>1
      <4>3. p[j].start >= q[k].start /\ p[j].start \in Int
        <5>1. p[j].start \in Int
          BY <3>2, <3>5
        <5> QED
          BY <3>5, <4>2, <5>1
      <4>4. s \in Int
        BY <1>2
      <4>5. s < p[j].start
        BY <4>1, <4>3, <4>4
      <4> QED
        BY <1>6, <4>5
  <2>3. p[i].start = q[i].start /\ p[i].len \in Int /\ p[i].len > 0
    BY <1>2, <1>9
  <2>4. At(p, q[i].start, i)
    BY <1>1, <1>6, <1>8, <1>9, <2>1, <2>2, <2>3, StillAt
  <2> QED
    BY <1>6, <2>4
<1>11. ChangedAt(v, u, i, x, 0)
  <2>1. p[i].start = s /\ 0 \in Int
    BY <1>6, <1>9
  <2> QED
    BY <1>2, <1>3, <1>4, <1>6, <1>8, <1>10, <2>1, SetAndUpdate DEF p
<1>12. x = [len |-> n, ones |-> ones, start |-> s]
  BY <1>3, <1>9
<1> HIDE DEF v, x
<1>13. /\ v \in AllTrees /\ v \in Summed /\ Len(Sq(v)) = Len(p)
       /\ \A j \in 1 .. i - 1 : Sq(v)[j] = p[j]
       /\ Sq(v)[i] = x
       /\ \A j \in i + 1 .. Len(p) : Sq(v)[j] = Moved(p[j], 0)
  BY <1>11 DEF ChangedAt, p
<1>14. ASSUME NEW j \in 1 .. i - 1 PROVE Sq(v)[j] = q[j]
  <2>1. j \in 1 .. i
    BY <1>6
  <2> QED
    BY <1>4, <1>13, <2>1
<1>15. ASSUME NEW j \in i + 1 .. Len(q) - 1 PROVE Sq(v)[j] = Moved(q[j + 1], -32)
  <2>1. j \in i + 1 .. Len(p) /\ j \in 1 .. Len(p)
    BY <1>1, <1>4, <1>6
  <2>2. p[j] \in Item
    BY <1>8, <2>1, ElementOfSeq
  <2>3. Moved(p[j], 0) = p[j]
    BY <2>2, MovedTwice
  <2> QED
    BY <1>4, <1>7, <1>13, <2>1, <2>3
<1> QED
  BY <1>4, <1>5, <1>12, <1>13, <1>14, <1>15 DEF MergedAt, q, s

(* Both neighbours in the left block.                                      *)
LEMMA MergeStep ==
  ASSUME IInv, NEW i \in 1 .. Len(Sq(tree)), i + 1 \in 1 .. Len(Sq(tree)),
         NEW l, IsBlock(l, Sq(tree)[i]), NEW r, IsBlock(r, Sq(tree)[i + 1]),
         NEW ones \in Ones, Merge(l, r, ones)
  PROVE  Valid(tree') /\ Sequence!Merge(LensAndOnes(tree), LensAndOnes(tree'), i)
<1> DEFINE q == Sq(tree)
           u == tree'
           k == i + 1
           s == q[i].start
           len == q[i].len + q[k].len - 4
           x == [len |-> len, ones |-> ones, start |-> s]
           m == 2
           d == -32
<1>1. q \in Seq(Item) /\ Good(q) /\ Len(q) \in Nat /\ Len(q) <= MaxBlocks /\ Valid(tree)
  BY ValidIs DEF IInv
<1>2. k \in 1 .. Len(q) /\ i \in 1 .. Len(q) /\ k <= Len(q)
  BY <1>1
<1>3. /\ s \in Int /\ q[i].len \in Int /\ EndOf(q[i]) = s + 8 * q[i].len
      /\ q[k].start \in Int /\ q[k].len \in Int /\ q[k].len >= 4 /\ EndOf(q[k]) = q[k].start + 8 * q[k].len
  BY <1>1, <1>2, GoodItems
<1>4. q[k].start = EndOf(q[i]) /\ (k + 1 <= Len(q) => q[k + 1].start = EndOf(q[k]))
      /\ q[i].start = IF i = 1 THEN 0 ELSE EndOf(q[i - 1])
  BY <1>1, <1>2, Neighbours
<1>5. /\ r.node.len > WORD /\ len \in Lens
      /\ u = UpdatePath2(SetLenAt(WithoutRight(r), l.start, len), l.start, ones - l.node.numOnes, 0)
  BY DEF Merge, IsBlock, WORD
<1>6. len \in Int /\ ones \in Int
  BY <1>5, Numbers
<1> HIDE DEF u, q, len
<1>7. MergedAt(u, i, len, ones)
  BY <1>1, <1>2, <1>5, MergedIs DEF q
<1>8. x.len = len /\ x.ones = ones /\ x.start = s /\ x \in Item
  BY <1>3, <1>6 DEF Item
<1> HIDE DEF x
<1>9. /\ u \in AllTrees /\ u \in Summed /\ Len(Sq(u)) = Len(q) - 1
      /\ \A j \in 1 .. i - 1 : Sq(u)[j] = q[j]
      /\ Sq(u)[i] = x
      /\ \A j \in i + 1 .. Len(q) - 1 : Sq(u)[j] = Moved(q[j + 1], -32)
  BY <1>7 DEF MergedAt, q, x, s
<1>10. /\ m \in Nat /\ i \in 1 .. Len(Sq(tree)) + 1 - m /\ d \in Int
       /\ Len(Sq(u)) <= MaxBlocks /\ Len(Sq(u)) = Len(Sq(tree)) - m + 1
  <2>1. MaxBlocks \in Nat
    BY BlocksAssumption
  <2> QED
    BY <1>1, <1>2, <1>9, <2>1 DEF q
<1>11. \A j \in i + m .. Len(Sq(tree)) : Sq(u)[j - m + 1] = Moved(Sq(tree)[j], d)
  <2> TAKE j \in i + m .. Len(Sq(tree))
  <2>1. j - m + 1 = j - 1 /\ j - 1 \in i + 1 .. Len(q) - 1 /\ (j - 1) + 1 = j
    BY <1>1, <1>2 DEF q
  <2>2. Sq(u)[j - 1] = Moved(q[(j - 1) + 1], -32)
    BY <1>9, <2>1
  <2> QED
    BY <2>1, <2>2 DEF q
<1>12. /\ x.start = IF i = 1 THEN 0 ELSE EndOf(Sq(tree)[i - 1])
       /\ i + m <= Len(Sq(tree)) => EndOf(x) = Sq(tree)[i + m].start + d
  <2>1. EndOf(x) = s + 8 * len
    BY <1>8 DEF EndOf, CHAR_BIT
  <2>2. s + 8 * len = EndOf(q[k]) - 32
    <3>1. len = q[i].len + q[k].len - 4
      BY DEF len
    <3> QED
      <4> DEFINE a == q[i].len
                 b == q[k].len
                 f == q[k].start
      <4>1. s \in Int /\ a \in Int /\ f \in Int /\ b \in Int /\ b >= 4 /\ f = s + 8 * a
            /\ EndOf(q[k]) = f + 8 * b /\ len = a + b - 4
        BY <1>3, <1>4, <3>1
      <4> HIDE DEF a, b, f, s
      <4>2. (f + 8 * b) - 32 = s + 8 * (a + b - 4) /\ f + 8 * b \in Int
        BY <4>1, MergeNumbers
      <4> QED
        BY <4>1, <4>2
  <2>3. i + m = k + 1 /\ EndOf(q[k]) \in Int
    BY <1>2, <1>3
  <2>4. k + 1 <= Len(q) => EndOf(x) = q[k + 1].start + d
    BY <1>4, <2>1, <2>2, <2>3
  <2> QED
    BY <1>4, <1>8, <2>3, <2>4 DEF q
<1>13. x.len \in Lens /\ x.ones \in Ones
  BY <1>5, <1>8
<1>14. (\A j \in 1 .. i - 1 : Sq(u)[j] = Sq(tree)[j]) /\ Sq(u)[i] = x
  BY <1>9 DEF q
<1> HIDE DEF m, d
<1>15. Valid(u) /\ Sequence!Replace(LensAndOnes(tree), LensAndOnes(u), i, m, <<x.len>>)
  BY <1>1, <1>8, <1>9, <1>10, <1>11, <1>12, <1>13, <1>14, ReplacedByOne
<1>16. i < Len(LensAndOnes(tree)) /\ len = LensAndOnes(tree)[i].len + LensAndOnes(tree)[i + 1].len - WORD
  <2>1. LensAndOnes(tree)[i].len = q[i].len /\ LensAndOnes(tree)[k].len = q[k].len
        /\ Len(LensAndOnes(tree)) = Len(q)
    BY <1>2, LenIs DEF q
  <2> QED
    BY <1>2, <2>1 DEF len, WORD
<1> QED
  BY <1>8, <1>15, <1>16 DEF Sequence!Merge, u, m

(* The words shared out among the neighbours.                              *)
LEMMA RedistributeStep ==
  ASSUME IInv, NEW i \in 1 .. Len(Sq(tree)), i + 1 \in 1 .. Len(Sq(tree)),
         NEW l, IsBlock(l, Sq(tree)[i]), NEW r, IsBlock(r, Sq(tree)[i + 1]),
         NEW ones1 \in Ones, NEW ones2 \in Ones, Redistribute(l, r, ones1, ones2)
  PROVE  Valid(tree') /\ Sequence!Merge(LensAndOnes(tree), LensAndOnes(tree'), i)
<1> DEFINE q == Sq(tree)
           u == tree'
           k == i + 1
           s == q[i].start
           len == q[i].len + q[k].len - 4
           len1 == ((len \div 2) \div WORD) * WORD
           len2 == len - len1
           e == s + 8 * len1
           v == UpdatePath2(SetLenAt(WithoutRight(r), l.start, len1), l.start, ones1 - l.node.numOnes, 0)
           x == [len |-> len1, ones |-> ones1, start |-> s]
           y == [len |-> len2, ones |-> ones2, start |-> e]
           m == 2
           d == -32
<1>1. q \in Seq(Item) /\ Good(q) /\ Len(q) \in Nat /\ Len(q) <= MaxBlocks /\ Valid(tree) /\ MaxBlocks \in Nat
  BY ValidIs, BlocksAssumption DEF IInv
<1>2. k \in 1 .. Len(q) /\ i \in 1 .. Len(q) /\ k <= Len(q) /\ k \in Nat
  BY <1>1
<1>3. /\ s \in Int /\ q[i].len \in Int /\ EndOf(q[i]) = s + 8 * q[i].len
      /\ q[k].start \in Int /\ q[k].len \in Int /\ q[k].len >= 4 /\ EndOf(q[k]) = q[k].start + 8 * q[k].len
  BY <1>1, <1>2, GoodItems
<1>4. q[k].start = EndOf(q[i]) /\ (k + 1 <= Len(q) => q[k + 1].start = EndOf(q[k]))
      /\ q[i].start = IF i = 1 THEN 0 ELSE EndOf(q[i - 1])
  BY <1>1, <1>2, Neighbours
<1>5. r.node.len > WORD /\ len1 \in Lens /\ len2 \in Lens /\ u = Insert(v, 0, e, ones2, len2)
  BY DEF Redistribute, IsBlock, WORD, CHAR_BIT
<1>6. len1 \in Int /\ len1 > 0 /\ len2 \in Int /\ len2 > 0 /\ ones1 \in Int /\ ones2 \in Int
  BY <1>5, Numbers
<1>7. /\ len = q[i].len + q[k].len - 4 /\ len1 = ((len \div 2) \div WORD) * WORD /\ len2 = len - len1
      /\ e = s + 8 * len1
  OBVIOUS
<1> HIDE DEF u, q, len, len1, len2, e
<1>8. MergedAt(v, i, len1, ones1)
  BY <1>1, <1>2, <1>5, MergedIs DEF q
<1> HIDE DEF v
<1>9. /\ e \in Int /\ e > s /\ EndOf(q[k]) \in Int /\ EndOf(q[k]) - 32 > e /\ e + 8 * len2 = EndOf(q[k]) - 32
  <2>1. EndOf(q[k]) - 32 = s + 8 * len /\ EndOf(q[k]) \in Int
    <3> QED
      <4> DEFINE a == q[i].len
                 b == q[k].len
                 f == q[k].start
      <4>1. s \in Int /\ a \in Int /\ f \in Int /\ b \in Int /\ b >= 4 /\ f = s + 8 * a
            /\ EndOf(q[k]) = f + 8 * b /\ len = a + b - 4
        BY <1>3, <1>4, <1>7
      <4> HIDE DEF a, b, f, s
      <4>2. (f + 8 * b) - 32 = s + 8 * (a + b - 4) /\ f + 8 * b \in Int
        BY <4>1, MergeNumbers
      <4> QED
        BY <4>1, <4>2
  <2>2. len \in Int
    BY <1>3, <1>7
  <2>3. s + 8 * len1 > s /\ s + 8 * len > s + 8 * len1 /\ (s + 8 * len1) + 8 * (len - len1) = s + 8 * len
    <3>1. len - len1 > 0
      BY <1>6, <1>7
    <3>2. s \in Int /\ len1 \in Int /\ len1 > 0
      BY <1>3, <1>6
    <3> HIDE DEF s
    <3> QED
      BY <2>2, <3>1, <3>2
  <2>4. s + 8 * len1 \in Int
    BY <1>3, <1>6
  <2> QED
    BY <1>7, <2>1, <2>3, <2>4
<1>10. x.len = len1 /\ x.ones = ones1 /\ x.start = s /\ x \in Item
  BY <1>3, <1>6 DEF Item
<1>11. y.len = len2 /\ y.ones = ones2 /\ y.start = e /\ y \in Item
  BY <1>6, <1>9 DEF Item
<1> HIDE DEF x
<1>12. /\ v \in AllTrees /\ v \in Summed /\ Len(Sq(v)) = Len(q) - 1
       /\ \A j \in 1 .. i - 1 : Sq(v)[j] = q[j]
       /\ Sq(v)[i] = x
       /\ \A j \in i + 1 .. Len(q) - 1 : Sq(v)[j] = Moved(q[j + 1], -32)
  BY <1>8 DEF MergedAt, q, x, s
<1>13. Before(Sq(v), e, k)
  <2>1. \A j \in 1 .. k - 1 : Sq(v)[j].start < e
    <3> TAKE j \in 1 .. k - 1
    <3>1. CASE j = i
      BY <1>9, <1>10, <1>12, <3>1
    <3>2. CASE j # i
      <4>1. j \in 1 .. i - 1 /\ j \in 1 .. Len(q)
        BY <1>1, <1>2, <3>2
      <4>2. q[j].start < s /\ q[j].start \in Int
        BY <1>1, <1>2, <4>1, Neighbours, GoodItems
      <4>3. Sq(v)[j].start = q[j].start
        BY <1>12, <4>1
      <4> QED
        BY <1>3, <1>9, <4>2, <4>3
    <3> QED
      BY <3>1, <3>2
  <2>2. \A j \in k .. Len(Sq(v)) : e < Sq(v)[j].start
    <3> TAKE j \in k .. Len(Sq(v))
    <3>1. j + 1 \in k + 1 .. Len(q) /\ j + 1 \in 1 .. Len(q) /\ j \in i + 1 .. Len(q) - 1
      BY <1>1, <1>2, <1>12
    <3>2. q[j + 1].start >= EndOf(q[k]) /\ q[j + 1].start \in Int
      BY <1>1, <1>2, <3>1, Neighbours, GoodItems
    <3>3. Sq(v)[j] = Moved(q[j + 1], -32)
      BY <1>12, <3>1
    <3>4. Sq(v)[j].start = q[j + 1].start - 32
      BY <3>2, <3>3 DEF Moved
    <3> QED
      BY <1>9, <3>2, <3>4
  <2>3. k \in 1 .. Len(Sq(v)) + 1
    BY <1>1, <1>2, <1>12
  <2> QED
    BY <2>1, <2>2, <2>3 DEF Before
<1>14. Len(Sq(v)) <= MaxBlocks
  BY <1>1, <1>12
<1>15. InsertedAt(u, v, k, y)
  <2> HIDE DEF k
  <2> QED
    BY <1>2, <1>5, <1>6, <1>9, <1>12, <1>13, <1>14, Inserted
<1> HIDE DEF y
<1>16. /\ u \in AllTrees /\ u \in Summed /\ Len(Sq(u)) = Len(Sq(v)) + 1
       /\ \A j \in 1 .. k - 1 : Sq(u)[j] = Sq(v)[j]
       /\ Sq(u)[k] = y
       /\ \A j \in k .. Len(Sq(v)) : Sq(u)[j + 1] = Sq(v)[j]
  BY <1>15 DEF InsertedAt
<1>17. (\A j \in 1 .. i - 1 : Sq(u)[j] = Sq(tree)[j]) /\ Sq(u)[i] = x /\ Sq(u)[i + 1] = y
  <2>1. ASSUME NEW j \in 1 .. i - 1 PROVE Sq(u)[j] = q[j]
    <3>1. j \in 1 .. k - 1
      BY <1>2
    <3> QED
      BY <1>12, <1>16, <3>1
  <2>2. i \in 1 .. k - 1
    BY <1>2
  <2>3. Sq(u)[i] = x
    BY <1>12, <1>16, <2>2
  <2> QED
    BY <1>16, <2>1, <2>3 DEF q
<1>18. \A j \in i + m .. Len(Sq(tree)) : Sq(u)[j - m + 2] = Moved(Sq(tree)[j], d)
  <2> TAKE j \in i + m .. Len(Sq(tree))
  <2>1. /\ j - m + 2 = (j - 1) + 1 /\ j - 1 \in i + 1 .. Len(q) - 1 /\ (j - 1) + 1 = j
        /\ j - 1 \in k .. Len(Sq(v))
    BY <1>1, <1>2, <1>12 DEF q
  <2>2. Sq(v)[j - 1] = Moved(q[(j - 1) + 1], -32)
    BY <1>12, <2>1
  <2>3. Sq(u)[(j - 1) + 1] = Sq(v)[j - 1]
    BY <1>16, <2>1
  <2> QED
    BY <2>1, <2>2, <2>3 DEF q
<1>19. /\ m \in Nat /\ i \in 1 .. Len(Sq(tree)) + 1 - m /\ d \in Int
       /\ Len(Sq(u)) <= MaxBlocks /\ Len(Sq(u)) = Len(Sq(tree)) - m + 2
  BY <1>1, <1>2, <1>12, <1>16 DEF q
<1>20. /\ x.start = IF i = 1 THEN 0 ELSE EndOf(Sq(tree)[i - 1])
       /\ y.start = EndOf(x)
       /\ i + m <= Len(Sq(tree)) => EndOf(y) = Sq(tree)[i + m].start + d
  <2>1. EndOf(x) = s + 8 * len1 /\ EndOf(y) = e + 8 * len2
    BY <1>10, <1>11 DEF EndOf, CHAR_BIT
  <2>2. i + m = k + 1
    BY <1>2
  <2>3. k + 1 <= Len(q) => EndOf(y) = q[k + 1].start + d
    BY <1>4, <1>9, <2>1
  <2> QED
    BY <1>4, <1>7, <1>10, <1>11, <2>1, <2>2, <2>3 DEF q
<1>21. x.len \in Lens /\ x.ones \in Ones /\ y.len \in Lens /\ y.ones \in Ones
  BY <1>5, <1>10, <1>11
<1> HIDE DEF m, d
<1>24. u \in AllTrees /\ u \in Summed
  BY <1>16
<1>22. Valid(u) /\ Sequence!Replace(LensAndOnes(tree), LensAndOnes(u), i, m, <<x.len, y.len>>)
  BY <1>1, <1>10, <1>11, <1>24, <1>17, <1>18, <1>19, <1>20, <1>21, ReplacedByTwo, ZenonT(40)
<1>23. i < Len(LensAndOnes(tree)) /\ len = LensAndOnes(tree)[i].len + LensAndOnes(tree)[i + 1].len - WORD
  <2>1. LensAndOnes(tree)[i].len = q[i].len /\ LensAndOnes(tree)[k].len = q[k].len
        /\ Len(LensAndOnes(tree)) = Len(q)
    BY <1>2, LenIs DEF q
  <2> QED
    BY <1>2, <2>1 DEF len, WORD
<1> QED
  BY <1>7, <1>10, <1>11, <1>22, <1>23 DEF Sequence!Merge, u, m

(* The invariant holds of the empty tree.                                  *)
LEMMA Initial == Init => IInv
<1> SUFFICES ASSUME Init PROVE IInv
  OBVIOUS
<1>1. tree = Nil
  BY DEF Init
<1>2. Sq(Nil) = <<>> /\ Nil \in AllTrees /\ Nil \in Summed
  BY SqIs, SummedIs, AllTreesAre
<1>3. Good(<<>>)
  BY BlocksAssumption DEF Good
<1> QED
  BY <1>1, <1>2, <1>3 DEF IInv, Valid

(* An operation keeps it and is one of the sequence of blocks.             *)
LEMMA Stepped ==
  ASSUME IInv, Operation
  PROVE  Valid(tree') /\ Sequence!Operation(LensAndOnes(tree), LensAndOnes(tree'))
<1> DEFINE q == Sq(tree)
           G == Valid(tree') /\ Sequence!Operation(LensAndOnes(tree), LensAndOnes(tree'))
<1>1. Len(Blocks) = Len(q) /\ \A j \in 1 .. Len(q) : Blocks[j].start = q[j].start
  BY BlocksAre
<1>2. Len(q) \in Nat
  BY ValidIs DEF IInv
<1>3. ASSUME NEW len \in Lens, NEW ones \in Ones, AddBlock(len, ones) PROVE G
  BY <1>3, AddBlockStep DEF Sequence!Operation
<1>4. ASSUME NEW i \in 1 .. Len(q), NEW b, b = Find(tree, Blocks[i].start),
             \/ \E ones \in Ones : Modify(b, ones)
             \/ \E ones \in Ones, len \in {b.node.len - WORD, b.node.len + WORD} \cap Lens :
                  Resize(b, len, ones)
             \/ \E ones1, ones2 \in Ones : Split(b, ones1, ones2)
             \/ /\ i < Len(q)
                /\ \E ones1, ones2 \in Ones : \/ Merge(b, After(b), ones1)
                                              \/ Redistribute(b, After(b), ones1, ones2)
      PROVE  G
  <2>1. IsBlock(b, q[i])
    BY <1>1, <1>4, FoundIs
  <2>2. Len(LensAndOnes(tree)) = Len(q)
    BY LenIs
  <2>3. ASSUME NEW ones \in Ones, Modify(b, ones) PROVE G
    BY <2>1, <2>2, <2>3, ModifyStep DEF Sequence!Operation
  <2>4. ASSUME NEW ones \in Ones, NEW len \in {b.node.len - WORD, b.node.len + WORD} \cap Lens,
               Resize(b, len, ones)
        PROVE  G
    <3>1. len \in Lens /\ len \in {b.node.len - WORD, b.node.len + WORD}
      BY <2>4
    <3> QED
      BY <2>1, <2>2, <2>4, <3>1, ResizeStep DEF Sequence!Operation
  <2>5. ASSUME NEW ones1 \in Ones, NEW ones2 \in Ones, Split(b, ones1, ones2) PROVE G
    BY <2>1, <2>2, <2>5, SplitStep DEF Sequence!Operation
  <2>6. ASSUME i < Len(q) PROVE i + 1 \in 1 .. Len(q) /\ IsBlock(After(b), q[i + 1])
    <3>1. i + 1 \in 1 .. Len(q)
      BY <1>2, <2>6
    <3> QED
      BY <2>1, <3>1, AfterIs
  <2>7. ASSUME i < Len(q), NEW ones \in Ones, Merge(b, After(b), ones) PROVE G
    BY <2>1, <2>2, <2>6, <2>7, MergeStep DEF Sequence!Operation
  <2>8. ASSUME i < Len(q), NEW ones1 \in Ones, NEW ones2 \in Ones, Redistribute(b, After(b), ones1, ones2)
        PROVE  G
    BY <2>1, <2>2, <2>6, <2>8, RedistributeStep DEF Sequence!Operation
  <2> HIDE DEF G, q
  <2> QED
    BY <1>4, <2>3, <2>4, <2>5, <2>7, <2>8
<1> SUFFICES G
  OBVIOUS
<1> HIDE DEF G, q
<1>5. CASE \E len \in Lens, ones \in Ones : AddBlock(len, ones)
  BY <1>3, <1>5
<1>6. CASE \E i \in 1 .. Len(q) : LET b == Find(tree, Blocks[i].start) IN
       \/ \E ones \in Ones : Modify(b, ones)
       \/ \E ones \in Ones, len \in {b.node.len - WORD, b.node.len + WORD} \cap Lens :
            Resize(b, len, ones)
       \/ \E ones1, ones2 \in Ones : Split(b, ones1, ones2)
       \/ /\ i < Len(q)
          /\ \E ones1, ones2 \in Ones : \/ Merge(b, After(b), ones1)
                                        \/ Redistribute(b, After(b), ones1, ones2)
  BY <1>4, <1>6
<1> QED
  BY <1>1, <1>5, <1>6 DEF Operation

(* Every step keeps the invariant.                                         *)
LEMMA Inductive == IInv /\ [Next]_tree => IInv'
<1> SUFFICES ASSUME IInv, [Next]_tree PROVE IInv'
  OBVIOUS
<1>1. CASE Next
  <2>1. Valid(tree')
    BY <1>1, Stepped DEF Next
  <2> QED
    BY <2>1 DEF IInv, Valid, Good, EndOf
<1>2. CASE UNCHANGED tree
  BY <1>2 DEF IInv, Valid, Good, EndOf
<1> QED
  BY <1>1, <1>2

(* It always holds.                                                        *)
THEOREM Safety == Spec => []IInv
BY Initial, Inductive, PTL DEF Spec

(* The blocks follow one another without a gap: whatever walks have moved  *)
(* a block, the shifts above it place it where the one before it ends.     *)
THEOREM ContiguousCorrect == Spec => []Contiguous
<1>1. IInv => Contiguous
  <2> SUFFICES ASSUME IInv, NEW i \in 1 .. Len(Blocks)
      PROVE  Blocks[i].start = IF i = 1 THEN 0 ELSE Blocks[i - 1].start + CHAR_BIT * Blocks[i - 1].len
    BY DEF Contiguous
  <2> DEFINE q == Sq(tree)
             bs == Blocks
  <2>1. Len(bs) = Len(q) /\ \A j \in 1 .. Len(q) : bs[j].len = q[j].len /\ bs[j].start = q[j].start
    BY BlocksAre
  <2>2. Len(q) \in Nat /\ Good(q)
    BY ValidIs DEF IInv
  <2> HIDE DEF q, bs
  <2>3. i \in 1 .. Len(q)
    BY <2>1 DEF bs
  <2>4. q[i].start = IF i = 1 THEN 0 ELSE EndOf(q[i - 1])
    BY <2>2, <2>3 DEF Good
  <2>5. i # 1 => i - 1 \in 1 .. Len(q)
    BY <2>2, <2>3
  <2> QED
    BY <2>1, <2>3, <2>4, <2>5 DEF EndOf, bs
<1> QED
  BY <1>1, Safety, PTL

(* find gives for every bit the block that holds it and where that starts, *)
(* and nothing for the bit behind the last block.                          *)
THEOREM FindsEveryBitCorrect == Spec => []FindsEveryBit
<1>1. IInv => FindsEveryBit
  <2> SUFFICES ASSUME IInv PROVE FindsEveryBit
    OBVIOUS
  <2> DEFINE q == Sq(tree)
             bs == Blocks
  <2>1. Len(bs) = Len(q) /\ \A j \in 1 .. Len(q) : /\ bs[j].len = q[j].len /\ bs[j].ones = q[j].ones
                                                    /\ bs[j].start = q[j].start
    BY BlocksAre
  <2>2. Len(q) \in Nat /\ Good(q) /\ q \in Seq(Item) /\ tree \in Trees
    BY ValidIs DEF IInv
  <2>3. ASSUME NEW i \in 1 .. Len(bs), NEW d \in 0 .. CHAR_BIT * bs[i].len - 1
        PROVE  LET f == Find(tree, bs[i].start + d)
               IN  /\ f.node # Nil
                   /\ f.start = bs[i].start
                   /\ f.node.len = bs[i].len /\ f.node.numOnes = bs[i].ones
    <3>1. i \in 1 .. Len(q) /\ d \in 0 .. CHAR_BIT * q[i].len - 1 /\ i \in Nat
      BY <2>1, <2>2, <2>3
    <3>2. At(q, q[i].start + d, i)
      BY <2>2, <3>1, GoodAt
    <3> DEFINE E == q[i].start + d
    <3>3. E \in Int /\ E - 0 = E /\ q[i].start + 0 = q[i].start
      <4>1. q[i].start \in Int /\ q[i].len \in Int
        BY <2>2, <3>1, GoodItems
      <4> QED
        BY <3>1, <4>1 DEF CHAR_BIT
    <3> HIDE DEF E
    <3>4. Finds(tree) /\ At(q, E - 0, i) /\ 0 \in Int
      BY <2>2, <3>2, <3>3, FindWalk DEF E
    <3>5. /\ FindFrom(tree, E, 0).node # Nil /\ FindFrom(tree, E, 0).start = q[i].start + 0
          /\ FindFrom(tree, E, 0).node.len = q[i].len /\ FindFrom(tree, E, 0).node.numOnes = q[i].ones
      BY <3>1, <3>3, <3>4 DEF Finds
    <3>6. bs[i].start + d = E
      BY <2>1, <3>1 DEF E
    <3> QED
      BY <2>1, <3>1, <3>3, <3>5, <3>6 DEF Find
  <2>4. Find(tree, Total).node = Nil
    <3>1. Total \in Int /\ Total = IF Len(q) = 0 THEN 0 ELSE EndOf(q[Len(q)])
      BY TotalIs
    <3>2. \A j \in 1 .. Len(q) : q[j].start < Total /\ q[j].start + q[j].len * CHAR_BIT <= Total
      <4> TAKE j \in 1 .. Len(q)
      <4>1. Len(q) \in 1 .. Len(q) /\ Total = EndOf(q[Len(q)]) /\ (j # Len(q) => j < Len(q))
        BY <2>2, <3>1
      <4>2. /\ q[j].start \in Int /\ q[j].len \in Int /\ EndOf(q[j]) = q[j].start + 8 * q[j].len
            /\ EndOf(q[j]) > q[j].start /\ EndOf(q[j]) \in Int
            /\ q[Len(q)].start \in Int /\ EndOf(q[Len(q)]) > q[Len(q)].start /\ EndOf(q[Len(q)]) \in Int
        BY <2>2, <4>1, GoodItems
      <4>3. j < Len(q) => EndOf(q[j]) <= q[Len(q)].start
        BY <2>2, <4>1, Ordered
      <4>4. EndOf(q[j]) <= Total
        BY <4>1, <4>2, <4>3
      <4>5. q[j].start + q[j].len * CHAR_BIT = EndOf(q[j])
        BY <4>2 DEF CHAR_BIT
      <4> QED
        BY <3>1, <4>2, <4>4, <4>5
    <3>3. Past(q, Total - 0)
      <4>1. Total - 0 = Total
        BY <3>1
      <4> QED
        BY <3>2, <4>1 DEF Past
    <3> QED
      BY <2>2, <3>1, <3>3, FindNone DEF Find
  <2> QED
    BY <2>3, <2>4 DEF FindsEveryBit
<1> QED
  BY <1>1, Safety, PTL

(* rank counts the ones of all the blocks before a bit, and of the bit's   *)
(* own block if the bit is its last: mysize is the sum at every node.      *)
THEOREM RankCountsCorrect == Spec => []RankCounts
<1>1. IInv => RankCounts
  <2> SUFFICES ASSUME IInv PROVE RankCounts
    OBVIOUS
  <2> DEFINE q == Sq(tree)
             bs == Blocks
  <2>1. /\ bs \in Seq(BlockRecord) /\ Len(bs) = Len(q)
        /\ \A j \in 1 .. Len(q) : /\ bs[j].len = q[j].len /\ bs[j].ones = q[j].ones
                                  /\ bs[j].start = q[j].start
    BY BlocksAre
  <2>2. Len(q) \in Nat /\ Good(q) /\ q \in Seq(Item) /\ tree \in Trees /\ tree \in Summed
    BY ValidIs DEF IInv
  <2>3. Ranks(tree)
    BY <2>2, RankWalk
  <2>4. \A k \in 0 .. Len(q) : SumTo(q, k) = SumTo(bs, k)
    <3> DEFINE z == 0
               n == Len(q)
    <3>1. \A j \in 1 .. Len(bs) : bs[j].ones \in Int
      BY <2>1, <2>2, GoodItems
    <3>2. \A j \in 1 .. n : q[z + j].ones = bs[j].ones
      <4> TAKE j \in 1 .. n
      <4>1. z + j = j
        BY <2>2
      <4> QED
        BY <2>1, <4>1
    <3>3. z \in Nat /\ n \in Nat /\ n <= Len(bs) /\ z + n <= Len(q)
      BY <2>1, <2>2
    <3>4. SumTo(q, z) = 0 /\ \A k \in 0 .. n : z + k = k
      BY <2>2, SumItems
    <3>5. \A k \in 0 .. n : SumTo(bs, k) \in Int
      BY <2>1, <3>1, SumToIs
    <3> HIDE DEF q, bs, z, n
    <3>6. \A k \in 0 .. n : SumTo(q, z + k) = SumTo(q, z) + SumTo(bs, k)
      BY <2>1, <2>2, <3>1, <3>2, <3>3, SumSame
    <3>7. \A k \in 0 .. n : SumTo(q, k) = 0 + SumTo(bs, k)
      BY <3>4, <3>6
    <3>8. \A k \in 0 .. n : SumTo(q, k) = SumTo(bs, k)
      BY <3>5, <3>7
    <3> QED
      BY <3>8 DEF n
  <2>5. ASSUME NEW i \in 1 .. Len(bs), NEW d \in 0 .. CHAR_BIT * q[i].len - 1
        PROVE  LET r == Rank(tree, bs[i].start + d)
               IN  /\ d = CHAR_BIT * q[i].len - 1 => r.node = Nil /\ r.elements = SumTo(bs, i)
                   /\ d # CHAR_BIT * q[i].len - 1 =>
                        /\ r.elements = SumTo(bs, i - 1)
                        /\ r.node # Nil /\ r.node.len = bs[i].len /\ r.num = d
    <3>1. i \in 1 .. Len(q) /\ i \in Nat /\ i \in 0 .. Len(q) /\ i - 1 \in 0 .. Len(q)
      BY <2>1, <2>2
    <3> DEFINE e == q[i].start + d
    <3>2. At(q, e, i)
      BY <2>2, <3>1, GoodAt
    <3>3. e \in Int /\ e - q[i].start = d /\ q[i].len * CHAR_BIT = CHAR_BIT * q[i].len
      <4>1. q[i].start \in Int /\ q[i].len \in Int
        BY <2>2, <3>1, GoodItems
      <4> QED
        BY <4>1 DEF CHAR_BIT
    <3>4. bs[i].start + d = e
      BY <2>1, <3>1
    <3> HIDE DEF e
    <3>5. /\ e - q[i].start = q[i].len * CHAR_BIT - 1 => Rank(tree, e).node = Nil /\ Rank(tree, e).elements = SumTo(q, i)
          /\ e - q[i].start # q[i].len * CHAR_BIT - 1 =>
                /\ Rank(tree, e).elements = SumTo(q, i - 1)
                /\ Rank(tree, e).node # Nil /\ Rank(tree, e).node.len = q[i].len /\ Rank(tree, e).num = e - q[i].start
      BY <2>3, <3>1, <3>2, <3>3 DEF Ranks
    <3> QED
      BY <2>1, <2>4, <3>1, <3>3, <3>4, <3>5
  <2>6. ASSUME NEW i \in 1 .. Len(bs)
        PROVE  /\ bs[i].len = q[i].len
               /\ 0 \in 0 .. CHAR_BIT * q[i].len - 1 /\ 0 # CHAR_BIT * q[i].len - 1
               /\ CHAR_BIT * q[i].len - 2 \in 0 .. CHAR_BIT * q[i].len - 1
               /\ CHAR_BIT * q[i].len - 2 # CHAR_BIT * q[i].len - 1
               /\ CHAR_BIT * q[i].len - 1 \in 0 .. CHAR_BIT * q[i].len - 1
               /\ bs[i].start + (CHAR_BIT * q[i].len - 1) = bs[i].start + CHAR_BIT * q[i].len - 1
    <3>1. i \in 1 .. Len(q)
      BY <2>1
    <3>2. q[i].len \in Int /\ q[i].len >= 4 /\ bs[i].len = q[i].len /\ bs[i].start \in Int
      BY <2>1, <2>2, <3>1, GoodItems
    <3> QED
      BY <3>2 DEF CHAR_BIT
  <2> HIDE DEF q, bs
  <2>7. ASSUME NEW i \in 1 .. Len(bs), NEW d \in {0, CHAR_BIT * bs[i].len - 2}
        PROVE  LET r == Rank(tree, bs[i].start + d)
               IN  /\ r.elements = SumTo(bs, i - 1)
                   /\ r.node # Nil /\ r.node.len = bs[i].len /\ r.num = d
    <3>1. d \in 0 .. CHAR_BIT * q[i].len - 1 /\ d # CHAR_BIT * q[i].len - 1
      BY <2>6
    <3> QED
      BY <2>5, <3>1
  <2>8. ASSUME NEW i \in 1 .. Len(bs)
        PROVE  LET r == Rank(tree, bs[i].start + CHAR_BIT * bs[i].len - 1)
               IN  r.node = Nil /\ r.elements = SumTo(bs, i)
    <3> DEFINE d == CHAR_BIT * q[i].len - 1
    <3>1. d \in 0 .. CHAR_BIT * q[i].len - 1 /\ bs[i].start + d = bs[i].start + CHAR_BIT * bs[i].len - 1
      BY <2>6
    <3> QED
      BY <2>5, <3>1
  <2> QED
    BY <2>7, <2>8 DEF RankCounts, bs
<1> QED
  BY <1>1, Safety, PTL

(* The tree implements the sequence of blocks: an operation changes the    *)
(* block, or the two neighbours, it is about and leaves all others.        *)
THEOREM Refinement == Spec => ImplementsSequence
<1>1. Init => Sequence!Init
  <2> SUFFICES ASSUME Init PROVE LensAndOnes(tree) = <<>>
    BY DEF Sequence!Init
  <2>1. tree = Nil /\ Nil \in Trees /\ Sq(Nil) = <<>>
    BY SqIs, TreesAre DEF Init
  <2>2. LensAndOnes(Nil) \in Seq(LenOnes) /\ Len(LensAndOnes(Nil)) = 0
    BY <2>1, LensAndOnesItems
  <2> QED
    BY <2>1, <2>2, EmptySeq
<1>2. IInv /\ [Next]_tree => [Sequence!Next]_(LensAndOnes(tree))
  <2> SUFFICES ASSUME IInv, [Next]_tree PROVE [Sequence!Next]_(LensAndOnes(tree))
    OBVIOUS
  <2>1. CASE Next
    BY <2>1, Stepped DEF Next, Sequence!Next
  <2>2. CASE UNCHANGED tree
    BY <2>2
  <2> QED
    BY <2>1, <2>2
<1> QED
  BY <1>1, <1>2, Safety, PTL DEF Spec, ImplementsSequence, Sequence!Spec
================================================================================
