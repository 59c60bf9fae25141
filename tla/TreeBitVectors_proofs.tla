----------------------- MODULE TreeBitVectors_proofs -----------------------
(***************************************************************************)
(* Proofs about the bit vectors on plain AVL trees (TreeBitVectors). First *)
(* that each walk is what it calls itself on the subtrees, by induction    *)
(* over the trees up to a height; then what the walks and rotations do to  *)
(* the set of entries of a search tree; then the invariant, in which each  *)
(* of the three trees is its entries; and last that rank and select count  *)
(* the ones.                                                               *)
(***************************************************************************)
EXTENDS TreeBitVectors, SetInduction, FiniteSetTheorems, TLAPS
-----------------------------------------------------------------------------
(* The trees of any height.                                                *)
Node(S) == [elem : Int, item : Item, ones : Int, height : Int, mysize : Int,
            left : S, right : S]

(* A tree is an empty one, or a node with smaller trees on both sides.     *)
LEMMA TreesUpToIs ==
  TreesUpTo = [n \in Nat |-> IF n = 0 THEN {Nil} ELSE {Nil} \cup Node(TreesUpTo[n - 1])]
<1> DEFINE B(f, n) == IF n = 0 THEN {Nil} ELSE {Nil} \cup Node(f[n - 1])
           P(f, m) == f = [n \in 0 .. m |-> B(f, n)]
           T == {m \in Nat : \E f : P(f, m)}
           A(m) == CHOOSE f : P(f, m)
           F == [n \in Nat |-> A(n)[n]]
<1>1. 0 \in T
  <2> DEFINE f == [n \in 0 .. 0 |-> {Nil}]
  <2>1. P(f, 0)
    OBVIOUS
  <2> HIDE DEF f
  <2>2. \E h : P(h, 0)
    BY <2>1
  <2> HIDE DEF P
  <2> QED
    BY <2>2
<1>2. ASSUME NEW m \in Nat, m \in T PROVE m + 1 \in T
  <2>1. PICK f : P(f, m)
    BY <1>2
  <2> DEFINE g == [n \in 0 .. m + 1 |-> B(f, n)]
  <2>2. ASSUME NEW n \in 0 .. m + 1 PROVE g[n] = B(g, n)
    <3>1. CASE n = 0
      BY <3>1
    <3>2. CASE n # 0
      <4>1. n - 1 \in 0 .. m /\ n - 1 \in 0 .. m + 1
        BY <3>2
      <4>2. f[n - 1] = B(f, n - 1)
        <5> HIDE DEF B
        <5> QED
          BY <2>1, <4>1
      <4>3. g[n - 1] = B(f, n - 1)
        <5> HIDE DEF B
        <5> QED
          BY <4>1
      <4>4. g[n] = {Nil} \cup Node(f[n - 1])
        BY <3>2
      <4> HIDE DEF g
      <4> QED
        BY <3>2, <4>2, <4>3, <4>4
    <3> QED
      BY <3>1, <3>2
  <2>3. g = [n \in 0 .. m + 1 |-> g[n]]
    OBVIOUS
  <2> HIDE DEF g, B
  <2>4. P(g, m + 1)
    BY <2>2, <2>3
  <2>5. \E h : P(h, m + 1)
    BY <2>4
  <2> HIDE DEF P
  <2> QED
    BY <2>5
<1>3. \A m \in Nat : P(A(m), m)
  <2>1. \A m \in Nat : m \in T
    <3> HIDE DEF T
    <3> QED
      BY <1>1, <1>2, AllOfNat
  <2> TAKE m \in Nat
  <2>2. \E f : P(f, m)
    BY <2>1
  <2> HIDE DEF P
  <2> QED
    BY <2>2
<1>4. ASSUME NEW f, NEW g, NEW m \in Nat, NEW k \in 0 .. m, P(f, m), P(g, k)
      PROVE  f[k] = g[k]
  <2> DEFINE S == {n \in 0 .. k : f[n] = g[n]}
  <2>1. ASSUME NEW n \in 0 .. k PROVE f[n] = B(f, n) /\ g[n] = B(g, n)
    <3>1. n \in 0 .. m
      OBVIOUS
    <3> HIDE DEF B
    <3> QED
      BY <1>4, <3>1
  <2>2. 0 \in S
    <3>1. 0 \in 0 .. k
      OBVIOUS
    <3> QED
      BY <2>1, <3>1
  <2>3. ASSUME NEW n \in 0 .. k - 1, n \in S PROVE n + 1 \in S
    <3>1. n + 1 \in 0 .. k /\ n + 1 # 0 /\ (n + 1) - 1 = n
      OBVIOUS
    <3> QED
      BY <2>1, <2>3, <3>1
  <2>4. \A n \in 0 .. k : n \in S
    <3> HIDE DEF S
    <3> QED
      BY <2>2, <2>3, UpTo
  <2> QED
    BY <2>4
<1>5. ASSUME NEW n \in Nat PROVE F[n] = B(F, n)
  <2>1. P(A(n), n)
    BY <1>3
  <2>2. A(n)[n] = B(A(n), n)
    <3> HIDE DEF A, B
    <3> QED
      BY <2>1
  <2>3. F[n] = A(n)[n]
    <3> HIDE DEF A
    <3> QED
      OBVIOUS
  <2>4. n # 0 => A(n)[n - 1] = F[n - 1]
    <3> SUFFICES ASSUME n # 0 PROVE A(n)[n - 1] = F[n - 1]
      OBVIOUS
    <3>1. n - 1 \in 0 .. n /\ n - 1 \in Nat
      OBVIOUS
    <3>2. P(A(n), n) /\ P(A(n - 1), n - 1)
      <4> HIDE DEF P, A
      <4> QED
        BY <1>3, <3>1
    <3>3. F[n - 1] = A(n - 1)[n - 1]
      <4> HIDE DEF A
      <4> QED
        BY <3>1
    <3> HIDE DEF A, F, P
    <3> QED
      BY <1>4, <3>1, <3>2, <3>3
  <2> HIDE DEF A, F
  <2> QED
    BY <2>2, <2>3, <2>4
<1>6. F = [n \in Nat |-> B(F, n)]
  <2>1. F = [n \in Nat |-> F[n]]
    OBVIOUS
  <2> HIDE DEF F, B
  <2> QED
    BY <1>5, <2>1
<1>7. \E f : f = [n \in Nat |-> B(f, n)]
  <2> HIDE DEF F, B
  <2> QED
    BY <1>6
<1>8. TreesUpTo = CHOOSE f : f = [n \in Nat |-> B(f, n)]
  BY DEF TreesUpTo, Node
<1> HIDE DEF B
<1>9. TreesUpTo = [n \in Nat |-> B(TreesUpTo, n)]
  BY <1>7, <1>8
<1> QED
  BY <1>9 DEF B

(* A node is not the empty tree.                                           *)
LEMMA NilIsNoNode ==
  ASSUME NEW S, NEW t \in Node(S)
  PROVE  t # Nil
<1>1. DOMAIN t = {"elem", "item", "ones", "height", "mysize", "left", "right"}
  BY DEF Node
<1>2. DOMAIN Nil = {"null"}
  BY DEF Nil
<1> QED
  BY <1>1, <1>2

(* The first of them, and each by the one before.                          *)
LEMMA UpToNode ==
  /\ TreesUpTo[0] = {Nil}
  /\ \A n \in Nat : TreesUpTo[n + 1] = {Nil} \cup Node(TreesUpTo[n])
<1>1. TreesUpTo[0] = {Nil}
  BY TreesUpToIs
<1>2. ASSUME NEW n \in Nat PROVE TreesUpTo[n + 1] = {Nil} \cup Node(TreesUpTo[n])
  <2>1. n + 1 \in Nat /\ n + 1 # 0 /\ (n + 1) - 1 = n
    OBVIOUS
  <2> QED
    BY <2>1, TreesUpToIs
<1> QED
  BY <1>1, <1>2

(* More trees make more nodes.                                             *)
LEMMA NodeMono ==
  ASSUME NEW S, NEW R, S \subseteq R
  PROVE  Node(S) \subseteq Node(R)
<1> QED
  BY DEF Node

(* Lower trees are among the higher.                                       *)
LEMMA UpToMono ==
  ASSUME NEW m \in Nat, NEW n \in Nat, m <= n
  PROVE  TreesUpTo[m] \subseteq TreesUpTo[n]
<1> DEFINE S == {k \in Nat : TreesUpTo[k] \subseteq TreesUpTo[k + 1]}
<1>1. 0 \in S
  <2>1. TreesUpTo[0 + 1] = {Nil} \cup Node(TreesUpTo[0])
    BY UpToNode
  <2> QED
    BY <2>1, UpToNode
<1>2. ASSUME NEW k \in Nat, k \in S PROVE k + 1 \in S
  <2>1. TreesUpTo[(k + 1) + 1] = {Nil} \cup Node(TreesUpTo[k + 1]) /\ k + 1 \in Nat
    BY UpToNode
  <2>2. TreesUpTo[k + 1] = {Nil} \cup Node(TreesUpTo[k])
    BY UpToNode
  <2>3. Node(TreesUpTo[k]) \subseteq Node(TreesUpTo[k + 1])
    BY <1>2, NodeMono
  <2> QED
    BY <2>1, <2>2, <2>3
<1>3. \A k \in Nat : k \in S
  <2> HIDE DEF S
  <2> QED
    BY <1>1, <1>2, AllOfNat
<1> DEFINE U == {k \in 0 .. n - m : TreesUpTo[m] \subseteq TreesUpTo[m + k]}
<1>4. 0 \in U
  OBVIOUS
<1>5. ASSUME NEW k \in 0 .. (n - m) - 1, k \in U PROVE k + 1 \in U
  <2>1. m + k \in Nat /\ (m + k) + 1 = m + (k + 1) /\ k + 1 \in 0 .. n - m
    OBVIOUS
  <2>2. TreesUpTo[m + k] \subseteq TreesUpTo[(m + k) + 1]
    BY <1>3, <2>1
  <2> QED
    BY <1>5, <2>1, <2>2
<1>6. n - m \in U
  <2>1. \A k \in 0 .. n - m : k \in U
    <3> HIDE DEF U
    <3> QED
      BY <1>4, <1>5, UpTo
  <2> QED
    BY <2>1
<1>7. m + (n - m) = n
  OBVIOUS
<1> QED
  BY <1>6, <1>7

(* The subtrees of a tree are lower than it.                               *)
LEMMA UpToStep ==
  ASSUME NEW n \in Nat
  PROVE  /\ TreesUpTo[n] \subseteq TreesUpTo[n + 1]
         /\ \A u \in TreesUpTo[n + 1] : u # Nil => u.left \in TreesUpTo[n] /\ u.right \in TreesUpTo[n]
<1>1. TreesUpTo[n + 1] = {Nil} \cup Node(TreesUpTo[n])
  BY UpToNode
<1>2. TreesUpTo[n] \subseteq TreesUpTo[n + 1]
  <2>1. n + 1 \in Nat /\ n <= n + 1
    OBVIOUS
  <2> QED
    BY <2>1, UpToMono
<1> QED
  BY <1>1, <1>2 DEF Node

AllTrees == UNION {TreesUpTo[n] : n \in Nat}

(* Trees of any height are made of trees of any height.                    *)
LEMMA AllTreesAre == AllTrees = {Nil} \cup Node(AllTrees)
<1>1. Nil \in AllTrees
  BY UpToNode DEF AllTrees
<1>2. ASSUME NEW t \in Node(AllTrees) PROVE t \in AllTrees
  <2>1. t.left \in AllTrees /\ t.right \in AllTrees
    BY DEF Node
  <2>2. PICK m \in Nat : t.left \in TreesUpTo[m]
    BY <2>1 DEF AllTrees
  <2>3. PICK k \in Nat : t.right \in TreesUpTo[k]
    BY <2>1 DEF AllTrees
  <2>4. m <= m + k /\ k <= m + k /\ m + k \in Nat /\ (m + k) + 1 \in Nat
    OBVIOUS
  <2>5. t.left \in TreesUpTo[m + k] /\ t.right \in TreesUpTo[m + k]
    BY <2>2, <2>3, <2>4, UpToMono
  <2>6. t \in Node(TreesUpTo[m + k])
    BY <2>5 DEF Node
  <2> QED
    BY <2>4, <2>6, UpToNode DEF AllTrees
<1>3. ASSUME NEW t \in AllTrees, t # Nil PROVE t \in Node(AllTrees)
  <2>1. PICK n \in Nat : t \in TreesUpTo[n]
    BY DEF AllTrees
  <2>2. n # 0
    BY <1>3, <2>1, UpToNode
  <2>3. n - 1 \in Nat /\ (n - 1) + 1 = n
    BY <2>2
  <2>4. t \in Node(TreesUpTo[n - 1])
    BY <1>3, <2>1, <2>3, UpToNode
  <2>5. TreesUpTo[n - 1] \subseteq AllTrees
    BY <2>3 DEF AllTrees
  <2> QED
    BY <2>4, <2>5, NodeMono
<1> QED
  BY <1>1, <1>2, <1>3

(* Induction over trees.                                                   *)
LEMMA TreeInduction ==
  ASSUME NEW S, Nil \in S, \A t \in Node(AllTrees) : t.left \in S /\ t.right \in S => t \in S
  PROVE  AllTrees \subseteq S
<1> DEFINE T == {n \in Nat : TreesUpTo[n] \subseteq S}
<1>1. 0 \in T
  BY UpToNode
<1>2. ASSUME NEW n \in Nat, n \in T PROVE n + 1 \in T
  <2>1. ASSUME NEW t \in TreesUpTo[n + 1] PROVE t \in S
    <3>1. t = Nil \/ t \in Node(TreesUpTo[n])
      BY UpToNode
    <3>2. ASSUME t \in Node(TreesUpTo[n]) PROVE t \in S
      <4>1. t.left \in S /\ t.right \in S
        BY <1>2, <3>2 DEF Node
      <4>2. TreesUpTo[n] \subseteq AllTrees
        BY DEF AllTrees
      <4>3. t \in Node(AllTrees)
        BY <3>2, <4>2, NodeMono
      <4> QED
        BY <4>1, <4>3
    <3> QED
      BY <3>1, <3>2
  <2> QED
    BY <2>1
<1>3. \A n \in Nat : n \in T
  <2> HIDE DEF T
  <2> QED
    BY <1>1, <1>2, AllOfNat
<1> QED
  BY <1>3 DEF AllTrees

(* The trees on which the recursive functions of AVLTree are defined.      *)
LEMMA TreesAre ==
  /\ Trees \subseteq AllTrees /\ Nil \in Trees
  /\ \A t \in Trees : t # Nil => t \in Node(Trees) /\ t \in Node(AllTrees)
<1>0. MaxHeight \in Nat
  BY HeightAssumption
<1>1. Trees \subseteq AllTrees
  BY <1>0 DEF Trees, AllTrees
<1>2. ASSUME NEW t \in Trees, t # Nil PROVE t \in Node(Trees)
  <2>1. MaxHeight # 0
    BY <1>2, UpToNode DEF Trees
  <2>2. MaxHeight - 1 \in Nat /\ (MaxHeight - 1) + 1 = MaxHeight /\ MaxHeight - 1 <= MaxHeight
    BY <1>0, <2>1
  <2>3. t \in Node(TreesUpTo[MaxHeight - 1])
    BY <1>2, <2>2, UpToNode DEF Trees
  <2>4. TreesUpTo[MaxHeight - 1] \subseteq Trees
    BY <1>0, <2>2, UpToMono DEF Trees
  <2> QED
    BY <2>3, <2>4, NodeMono
<1>3. Nil \in Trees
  <2>1. 0 <= MaxHeight /\ 0 \in Nat
    BY <1>0
  <2>2. TreesUpTo[0] \subseteq Trees
    BY <1>0, <2>1, UpToMono DEF Trees
  <2> QED
    BY <2>2, UpToNode
<1> QED
  BY <1>1, <1>2, <1>3, NodeMono

(* Induction on trees: what holds of the empty tree, and of a node when it *)
(* holds of its subtrees, holds of every tree.                             *)
LEMMA TreesInduction ==
  ASSUME NEW S, Nil \in S, \A t \in Node(Trees) : t \in Trees /\ t.left \in S /\ t.right \in S => t \in S
  PROVE  Trees \subseteq S
<1> DEFINE R == {t \in AllTrees : t \in Trees => t \in S}
<1>1. Nil \in R
  BY AllTreesAre
<1>2. ASSUME NEW t \in Node(AllTrees), t.left \in R, t.right \in R PROVE t \in R
  <2>1. t # Nil /\ t \in AllTrees
    BY NilIsNoNode, AllTreesAre
  <2>2. ASSUME t \in Trees PROVE t \in S
    <3>1. t \in Node(Trees)
      BY <2>1, <2>2, TreesAre
    <3>2. t.left \in Trees /\ t.right \in Trees
      BY <3>1 DEF Node
    <3> QED
      BY <1>2, <2>2, <3>1, <3>2
  <2> QED
    BY <2>1, <2>2
<1>3. AllTrees \subseteq R
  <2> HIDE DEF R
  <2> QED
    BY <1>1, <1>2, TreeInduction
<1> QED
  BY <1>3, TreesAre
-----------------------------------------------------------------------------
(* Recursion over trees: what each recursive function is.                  *)
LEMMA FindIs ==
  ASSUME NEW elem, NEW t \in Trees
  PROVE  Find(t, elem) = (t # Nil /\ \/ elem = t.elem
                                     \/ elem < t.elem /\ Find(t.left, elem)
                                     \/ elem > t.elem /\ Find(t.right, elem))
<1> DEFINE B(f, u) == u # Nil /\ \/ elem = u.elem
                                 \/ elem < u.elem /\ f[u.left]
                                 \/ elem > u.elem /\ f[u.right]
           P(f, n) == f = [u \in TreesUpTo[n] |-> B(f, u)]
           T == {n \in Nat : \E f : P(f, n)}
           F == CHOOSE f : f = [u \in Trees |-> B(f, u)]
<1>1. \A f, g, u : (u # Nil => f[u.left] = g[u.left] /\ f[u.right] = g[u.right]) => B(f, u) = B(g, u)
  OBVIOUS
<1> HIDE DEF B
<1>2. 0 \in T
  <2> DEFINE f == [u \in TreesUpTo[0] |-> B(<<>>, u)]
  <2>1. P(f, 0)
    BY <1>1, UpToNode
  <2> HIDE DEF f
  <2> QED
    BY <2>1
<1>3. ASSUME NEW n \in Nat, n \in T PROVE n + 1 \in T
  <2>1. PICK f : P(f, n)
    BY <1>3
  <2> DEFINE g == [u \in TreesUpTo[n + 1] |-> B(f, u)]
  <2>2. P(g, n + 1)
    BY <1>1, <2>1, UpToStep
  <2> HIDE DEF g
  <2> QED
    BY <2>2
<1>4. F = [u \in Trees |-> B(F, u)]
  <2>1. MaxHeight \in T
    <3> HIDE DEF T
    <3> QED
      BY <1>2, <1>3, AllOfNat, HeightAssumption
  <2> QED
    BY <2>1 DEF Trees
<1>5. \A u : Find(u, elem) = F[u]
  BY DEF Find, B
<1> HIDE DEF F
<1>6. F[t] = B(F, t)
  BY <1>4
<1> QED
  BY <1>5, <1>6 DEF B

(* The walk of insert.                                                     *)
LEMMA InsertNewIs ==
  ASSUME NEW elem, NEW item, NEW ones, NEW t \in Trees
  PROVE  InsertNew(t, elem, item, ones)
           = IF t = Nil THEN NewNode(elem, item, ones)
             ELSE Rebalance(IF elem < t.elem
                            THEN [t EXCEPT !.left = InsertNew(t.left, elem, item, ones)]
                            ELSE [t EXCEPT !.right = InsertNew(t.right, elem, item, ones)])
<1> DEFINE B(f, u) == IF u = Nil THEN NewNode(elem, item, ones)
                      ELSE Rebalance(IF elem < u.elem THEN [u EXCEPT !.left = f[@]]
                                     ELSE [u EXCEPT !.right = f[@]])
           P(f, n) == f = [u \in TreesUpTo[n] |-> B(f, u)]
           T == {n \in Nat : \E f : P(f, n)}
           F == CHOOSE f : f = [u \in Trees |-> B(f, u)]
<1>1. \A f, g, u : (u # Nil => f[u.left] = g[u.left] /\ f[u.right] = g[u.right]) => B(f, u) = B(g, u)
  OBVIOUS
<1> HIDE DEF B
<1>2. 0 \in T
  <2> DEFINE f == [u \in TreesUpTo[0] |-> B(<<>>, u)]
  <2>1. P(f, 0)
    BY <1>1, UpToNode
  <2> HIDE DEF f
  <2> QED
    BY <2>1
<1>3. ASSUME NEW n \in Nat, n \in T PROVE n + 1 \in T
  <2>1. PICK f : P(f, n)
    BY <1>3
  <2> DEFINE g == [u \in TreesUpTo[n + 1] |-> B(f, u)]
  <2>2. P(g, n + 1)
    BY <1>1, <2>1, UpToStep
  <2> HIDE DEF g
  <2> QED
    BY <2>2
<1>4. F = [u \in Trees |-> B(F, u)]
  <2>1. MaxHeight \in T
    <3> HIDE DEF T
    <3> QED
      BY <1>2, <1>3, AllOfNat, HeightAssumption
  <2> QED
    BY <2>1 DEF Trees
<1>5. \A u : InsertNew(u, elem, item, ones) = F[u]
  BY DEF InsertNew, B
<1> HIDE DEF F
<1>6. F[t] = B(F, t)
  BY <1>4
<1> QED
  BY <1>5, <1>6 DEF B

(* The walk to the smallest element.                                       *)
LEMMA MinIs ==
  ASSUME NEW t \in Trees, t # Nil
  PROVE  Min(t) = IF t.left = Nil THEN t.elem ELSE Min(t.left)
<1> DEFINE B(f, u) == IF u.left = Nil THEN u.elem ELSE f[u.left]
           P(f, n) == f = [u \in TreesUpTo[n] \ {Nil} |-> B(f, u)]
           T == {n \in Nat : \E f : P(f, n)}
           F == CHOOSE f : f = [u \in Trees \ {Nil} |-> B(f, u)]
<1>1. \A f, g, u : (u.left # Nil => f[u.left] = g[u.left]) => B(f, u) = B(g, u)
  OBVIOUS
<1> HIDE DEF B
<1>2. 0 \in T
  <2> DEFINE f == [u \in TreesUpTo[0] \ {Nil} |-> B(<<>>, u)]
  <2>1. P(f, 0)
    BY <1>1, UpToNode
  <2> HIDE DEF f
  <2> QED
    BY <2>1
<1>3. ASSUME NEW n \in Nat, n \in T PROVE n + 1 \in T
  <2>1. PICK f : P(f, n)
    BY <1>3
  <2> DEFINE g == [u \in TreesUpTo[n + 1] \ {Nil} |-> B(f, u)]
  <2>2. P(g, n + 1)
    <3>1. ASSUME NEW u \in TreesUpTo[n + 1] \ {Nil} PROVE B(f, u) = B(g, u)
      <4>1. ASSUME u.left # Nil PROVE f[u.left] = g[u.left]
        <5>1. u.left \in TreesUpTo[n] \ {Nil} /\ u.left \in TreesUpTo[n + 1] \ {Nil}
          BY <4>1, UpToStep
        <5>2. f[u.left] = B(f, u.left)
          BY <2>1, <5>1
        <5>3. g[u.left] = B(f, u.left)
          BY <5>1
        <5> QED
          BY <5>2, <5>3
      <4> HIDE DEF g
      <4> QED
        BY <1>1, <4>1
    <3> QED
      BY <3>1
  <2> HIDE DEF g
  <2> QED
    BY <2>2
<1>4. F = [u \in Trees \ {Nil} |-> B(F, u)]
  <2>1. MaxHeight \in T
    <3> HIDE DEF T
    <3> QED
      BY <1>2, <1>3, AllOfNat, HeightAssumption
  <2> QED
    BY <2>1 DEF Trees
<1>5. \A u : Min(u) = F[u]
  BY DEF Min, B
<1> HIDE DEF F
<1>6. F[t] = B(F, t)
  BY <1>4
<1> QED
  BY <1>5, <1>6 DEF B

(* The walk of deleteMin.                                                  *)
LEMMA DeleteMinIs ==
  ASSUME NEW t \in Trees, t # Nil
  PROVE  DeleteMin(t) = IF t.left = Nil THEN t.right
                        ELSE Rebalance([t EXCEPT !.left = DeleteMin(t.left)])
<1> DEFINE B(f, u) == IF u.left = Nil THEN u.right ELSE Rebalance([u EXCEPT !.left = f[@]])
           P(f, n) == f = [u \in TreesUpTo[n] \ {Nil} |-> B(f, u)]
           T == {n \in Nat : \E f : P(f, n)}
           F == CHOOSE f : f = [u \in Trees \ {Nil} |-> B(f, u)]
<1>1. \A f, g, u : (u.left # Nil => f[u.left] = g[u.left]) => B(f, u) = B(g, u)
  OBVIOUS
<1> HIDE DEF B
<1>2. 0 \in T
  <2> DEFINE f == [u \in TreesUpTo[0] \ {Nil} |-> B(<<>>, u)]
  <2>1. P(f, 0)
    BY <1>1, UpToNode
  <2> HIDE DEF f
  <2> QED
    BY <2>1
<1>3. ASSUME NEW n \in Nat, n \in T PROVE n + 1 \in T
  <2>1. PICK f : P(f, n)
    BY <1>3
  <2> DEFINE g == [u \in TreesUpTo[n + 1] \ {Nil} |-> B(f, u)]
  <2>2. P(g, n + 1)
    <3>1. ASSUME NEW u \in TreesUpTo[n + 1] \ {Nil} PROVE B(f, u) = B(g, u)
      <4>1. ASSUME u.left # Nil PROVE f[u.left] = g[u.left]
        <5>1. u.left \in TreesUpTo[n] \ {Nil} /\ u.left \in TreesUpTo[n + 1] \ {Nil}
          BY <4>1, UpToStep
        <5>2. f[u.left] = B(f, u.left)
          BY <2>1, <5>1
        <5>3. g[u.left] = B(f, u.left)
          BY <5>1
        <5> QED
          BY <5>2, <5>3
      <4> HIDE DEF g
      <4> QED
        BY <1>1, <4>1
    <3> QED
      BY <3>1
  <2> HIDE DEF g
  <2> QED
    BY <2>2
<1>4. F = [u \in Trees \ {Nil} |-> B(F, u)]
  <2>1. MaxHeight \in T
    <3> HIDE DEF T
    <3> QED
      BY <1>2, <1>3, AllOfNat, HeightAssumption
  <2> QED
    BY <2>1 DEF Trees
<1>5. \A u : DeleteMin(u) = F[u]
  BY DEF DeleteMin, B
<1> HIDE DEF F
<1>6. F[t] = B(F, t)
  BY <1>4
<1> QED
  BY <1>5, <1>6 DEF B

(* The walk of deleteElem.                                                 *)
LEMMA DeleteFromIs ==
  ASSUME NEW elem, NEW t \in Trees
  PROVE  DeleteFrom(t, elem)
           = IF t = Nil THEN Nil
             ELSE IF elem = t.elem THEN DeleteNode(t)
             ELSE Rebalance(IF elem < t.elem THEN [t EXCEPT !.left = DeleteFrom(t.left, elem)]
                            ELSE [t EXCEPT !.right = DeleteFrom(t.right, elem)])
<1> DEFINE B(f, u) == IF u = Nil THEN Nil
                      ELSE IF elem = u.elem THEN DeleteNode(u)
                      ELSE Rebalance(IF elem < u.elem THEN [u EXCEPT !.left = f[@]]
                                     ELSE [u EXCEPT !.right = f[@]])
           P(f, n) == f = [u \in TreesUpTo[n] |-> B(f, u)]
           T == {n \in Nat : \E f : P(f, n)}
           F == CHOOSE f : f = [u \in Trees |-> B(f, u)]
<1>1. \A f, g, u : (u # Nil => f[u.left] = g[u.left] /\ f[u.right] = g[u.right]) => B(f, u) = B(g, u)
  OBVIOUS
<1> HIDE DEF B
<1>2. 0 \in T
  <2> DEFINE f == [u \in TreesUpTo[0] |-> B(<<>>, u)]
  <2>1. P(f, 0)
    BY <1>1, UpToNode
  <2> HIDE DEF f
  <2> QED
    BY <2>1
<1>3. ASSUME NEW n \in Nat, n \in T PROVE n + 1 \in T
  <2>1. PICK f : P(f, n)
    BY <1>3
  <2> DEFINE g == [u \in TreesUpTo[n + 1] |-> B(f, u)]
  <2>2. P(g, n + 1)
    BY <1>1, <2>1, UpToStep
  <2> HIDE DEF g
  <2> QED
    BY <2>2
<1>4. F = [u \in Trees |-> B(F, u)]
  <2>1. MaxHeight \in T
    <3> HIDE DEF T
    <3> QED
      BY <1>2, <1>3, AllOfNat, HeightAssumption
  <2> QED
    BY <2>1 DEF Trees
<1>5. \A u : DeleteFrom(u, elem) = F[u]
  BY DEF DeleteFrom, B
<1> HIDE DEF F
<1>6. F[t] = B(F, t)
  BY <1>4
<1> QED
  BY <1>5, <1>6 DEF B

(* The walk of rank, on the tree of SetBitVector.                          *)
LEMMA RankIs ==
  ASSUME NEW elem, NEW t \in Trees
  PROVE  Rank(t, elem) = IF t = Nil THEN 0
                         ELSE IF elem < t.elem THEN Rank(t.left, elem)
                         ELSE 1 + MySize(t.left) + Rank(t.right, elem)
<1> DEFINE B(f, u) == IF u = Nil THEN 0
                      ELSE IF elem < u.elem THEN f[u.left]
                      ELSE 1 + MySize(u.left) + f[u.right]
           P(f, n) == f = [u \in TreesUpTo[n] |-> B(f, u)]
           T == {n \in Nat : \E f : P(f, n)}
           F == CHOOSE f : f = [u \in Trees |-> B(f, u)]
<1>1. \A f, g, u : (u # Nil => f[u.left] = g[u.left] /\ f[u.right] = g[u.right]) => B(f, u) = B(g, u)
  OBVIOUS
<1> HIDE DEF B
<1>2. 0 \in T
  <2> DEFINE f == [u \in TreesUpTo[0] |-> B(<<>>, u)]
  <2>1. P(f, 0)
    BY <1>1, UpToNode
  <2> HIDE DEF f
  <2> QED
    BY <2>1
<1>3. ASSUME NEW n \in Nat, n \in T PROVE n + 1 \in T
  <2>1. PICK f : P(f, n)
    BY <1>3
  <2> DEFINE g == [u \in TreesUpTo[n + 1] |-> B(f, u)]
  <2>2. P(g, n + 1)
    BY <1>1, <2>1, UpToStep
  <2> HIDE DEF g
  <2> QED
    BY <2>2
<1>4. F = [u \in Trees |-> B(F, u)]
  <2>1. MaxHeight \in T
    <3> HIDE DEF T
    <3> QED
      BY <1>2, <1>3, AllOfNat, HeightAssumption
  <2> QED
    BY <2>1 DEF Trees
<1>5. \A u : Rank(u, elem) = F[u]
  BY DEF Rank, B
<1> HIDE DEF F
<1>6. F[t] = B(F, t)
  BY <1>4
<1> QED
  BY <1>5, <1>6 DEF B

(* The walk of select, on the tree of SetBitVector.                        *)
LEMMA SelectFromIs ==
  ASSUME NEW t \in Trees
  PROVE  \A s \in Int :
           SelectFrom(t, s) = IF t = Nil THEN -1
                              ELSE IF s <= MySize(t.left) THEN SelectFrom(t.left, s)
                              ELSE IF s = MySize(t.left) + 1 THEN t.elem
                              ELSE SelectFrom(t.right, s - (MySize(t.left) + 1))
<1> DEFINE B(f, u) == [s \in Int |->
                         IF u = Nil THEN -1
                         ELSE IF s <= MySize(u.left) THEN f[u.left][s]
                         ELSE IF s = MySize(u.left) + 1 THEN u.elem
                         ELSE f[u.right][s - (MySize(u.left) + 1)]]
           P(f, n) == f = [u \in TreesUpTo[n] |-> B(f, u)]
           T == {n \in Nat : \E f : P(f, n)}
           F == CHOOSE f : f = [u \in Trees |-> B(f, u)]
<1>1. \A f, g, u : (u # Nil => f[u.left] = g[u.left] /\ f[u.right] = g[u.right]) => B(f, u) = B(g, u)
  OBVIOUS
<1> HIDE DEF B
<1>2. 0 \in T
  <2> DEFINE f == [u \in TreesUpTo[0] |-> B(<<>>, u)]
  <2>1. P(f, 0)
    BY <1>1, UpToNode
  <2> HIDE DEF f
  <2> QED
    BY <2>1
<1>3. ASSUME NEW n \in Nat, n \in T PROVE n + 1 \in T
  <2>1. PICK f : P(f, n)
    BY <1>3
  <2> DEFINE g == [u \in TreesUpTo[n + 1] |-> B(f, u)]
  <2>2. P(g, n + 1)
    BY <1>1, <2>1, UpToStep
  <2> HIDE DEF g
  <2> QED
    BY <2>2
<1>4. F = [u \in Trees |-> B(F, u)]
  <2>1. MaxHeight \in T
    <3> HIDE DEF T
    <3> QED
      BY <1>2, <1>3, AllOfNat, HeightAssumption
  <2> QED
    BY <2>1 DEF Trees
<1>5. \A u, s : SelectFrom(u, s) = F[u][s]
  BY DEF SelectFrom, B
<1> HIDE DEF F
<1>6. F[t] = B(F, t)
  BY <1>4
<1> SUFFICES ASSUME NEW s \in Int
             PROVE  SelectFrom(t, s) = IF t = Nil THEN -1
                                  ELSE IF s <= MySize(t.left) THEN SelectFrom(t.left, s)
                                  ELSE IF s = MySize(t.left) + 1 THEN t.elem
                                  ELSE SelectFrom(t.right, s - (MySize(t.left) + 1))
  OBVIOUS
<1>7. B(F, t)[s] = IF t = Nil THEN -1
                ELSE IF s <= MySize(t.left) THEN F[t.left][s]
                ELSE IF s = MySize(t.left) + 1 THEN t.elem
                ELSE F[t.right][s - (MySize(t.left) + 1)]
  BY DEF B
<1> QED
  BY <1>5, <1>6, <1>7

(* The nodes of a tree, by those of its subtrees.                          *)
LEMMA NodesIs ==
  ASSUME NEW t \in Trees
  PROVE  Nodes(t) = IF t = Nil THEN {} ELSE {t} \cup Nodes(t.left) \cup Nodes(t.right)
<1> DEFINE B(f, u) == IF u = Nil THEN {} ELSE {u} \cup f[u.left] \cup f[u.right]
           P(f, n) == f = [u \in TreesUpTo[n] |-> B(f, u)]
           T == {n \in Nat : \E f : P(f, n)}
           F == CHOOSE f : f = [u \in Trees |-> B(f, u)]
<1>1. \A f, g, u : (u # Nil => f[u.left] = g[u.left] /\ f[u.right] = g[u.right]) => B(f, u) = B(g, u)
  OBVIOUS
<1> HIDE DEF B
<1>2. 0 \in T
  <2> DEFINE f == [u \in TreesUpTo[0] |-> B(<<>>, u)]
  <2>1. P(f, 0)
    BY <1>1, UpToNode
  <2> HIDE DEF f
  <2> QED
    BY <2>1
<1>3. ASSUME NEW n \in Nat, n \in T PROVE n + 1 \in T
  <2>1. PICK f : P(f, n)
    BY <1>3
  <2> DEFINE g == [u \in TreesUpTo[n + 1] |-> B(f, u)]
  <2>2. P(g, n + 1)
    BY <1>1, <2>1, UpToStep
  <2> HIDE DEF g
  <2> QED
    BY <2>2
<1>4. F = [u \in Trees |-> B(F, u)]
  <2>1. MaxHeight \in T
    <3> HIDE DEF T
    <3> QED
      BY <1>2, <1>3, AllOfNat, HeightAssumption
  <2> QED
    BY <2>1 DEF Trees
<1>5. \A u : Nodes(u) = F[u]
  BY DEF Nodes, B
<1> HIDE DEF F
<1>6. F[t] = B(F, t)
  BY <1>4
<1> QED
  BY <1>5, <1>6 DEF B

(* The height of a tree, by those of its subtrees.                         *)
LEMMA RealHeightIs ==
  ASSUME NEW t \in Trees
  PROVE  RealHeight(t) = IF t = Nil THEN -1
                         ELSE 1 + Greater(RealHeight(t.left), RealHeight(t.right))
<1> DEFINE B(f, u) == IF u = Nil THEN -1 ELSE 1 + Greater(f[u.left], f[u.right])
           P(f, n) == f = [u \in TreesUpTo[n] |-> B(f, u)]
           T == {n \in Nat : \E f : P(f, n)}
           F == CHOOSE f : f = [u \in Trees |-> B(f, u)]
<1>1. \A f, g, u : (u # Nil => f[u.left] = g[u.left] /\ f[u.right] = g[u.right]) => B(f, u) = B(g, u)
  OBVIOUS
<1> HIDE DEF B
<1>2. 0 \in T
  <2> DEFINE f == [u \in TreesUpTo[0] |-> B(<<>>, u)]
  <2>1. P(f, 0)
    BY <1>1, UpToNode
  <2> HIDE DEF f
  <2> QED
    BY <2>1
<1>3. ASSUME NEW n \in Nat, n \in T PROVE n + 1 \in T
  <2>1. PICK f : P(f, n)
    BY <1>3
  <2> DEFINE g == [u \in TreesUpTo[n + 1] |-> B(f, u)]
  <2>2. P(g, n + 1)
    BY <1>1, <2>1, UpToStep
  <2> HIDE DEF g
  <2> QED
    BY <2>2
<1>4. F = [u \in Trees |-> B(F, u)]
  <2>1. MaxHeight \in T
    <3> HIDE DEF T
    <3> QED
      BY <1>2, <1>3, AllOfNat, HeightAssumption
  <2> QED
    BY <2>1 DEF Trees
<1>5. \A u : RealHeight(u) = F[u]
  BY DEF RealHeight, B
<1> HIDE DEF F
<1>6. F[t] = B(F, t)
  BY <1>4
<1> QED
  BY <1>5, <1>6 DEF B

(* The walk of find, on the tree of words.                                 *)
LEMMA FindBitIs ==
  ASSUME NEW elem, NEW t \in Trees
  PROVE  FindBit(t, elem)
           = (t # Nil /\ \/ elem < t.elem /\ FindBit(t.left, elem)
                         \/ elem \in t.elem .. t.elem + IntBit - 1 /\ elem - t.elem \in t.item.data
                         \/ elem > t.elem + IntBit - 1 /\ FindBit(t.right, elem))
<1> DEFINE B(f, u) == u # Nil /\ \/ elem < u.elem /\ f[u.left]
                                 \/ elem \in u.elem .. u.elem + IntBit - 1 /\ elem - u.elem \in u.item.data
                                 \/ elem > u.elem + IntBit - 1 /\ f[u.right]
           P(f, n) == f = [u \in TreesUpTo[n] |-> B(f, u)]
           T == {n \in Nat : \E f : P(f, n)}
           F == CHOOSE f : f = [u \in Trees |-> B(f, u)]
<1>1. \A f, g, u : (u # Nil => f[u.left] = g[u.left] /\ f[u.right] = g[u.right]) => B(f, u) = B(g, u)
  OBVIOUS
<1> HIDE DEF B
<1>2. 0 \in T
  <2> DEFINE f == [u \in TreesUpTo[0] |-> B(<<>>, u)]
  <2>1. P(f, 0)
    BY <1>1, UpToNode
  <2> HIDE DEF f
  <2> QED
    BY <2>1
<1>3. ASSUME NEW n \in Nat, n \in T PROVE n + 1 \in T
  <2>1. PICK f : P(f, n)
    BY <1>3
  <2> DEFINE g == [u \in TreesUpTo[n + 1] |-> B(f, u)]
  <2>2. P(g, n + 1)
    BY <1>1, <2>1, UpToStep
  <2> HIDE DEF g
  <2> QED
    BY <2>2
<1>4. F = [u \in Trees |-> B(F, u)]
  <2>1. MaxHeight \in T
    <3> HIDE DEF T
    <3> QED
      BY <1>2, <1>3, AllOfNat, HeightAssumption
  <2> QED
    BY <2>1 DEF Trees
<1>5. \A u : FindBit(u, elem) = F[u]
  BY DEF FindBit, B
<1> HIDE DEF F
<1>6. F[t] = B(F, t)
  BY <1>4
<1> QED
  BY <1>5, <1>6 DEF B

(* The walk of rank, on the tree of words.                                 *)
LEMMA RankBitsIs ==
  ASSUME NEW elem, NEW t \in Trees
  PROVE  RankBits(t, elem)
           = IF t = Nil THEN 0
             ELSE IF elem < t.elem THEN RankBits(t.left, elem)
             ELSE GetOnes2(t.item.data, elem - t.elem) + MySize(t.left) + RankBits(t.right, elem)
<1> DEFINE B(f, u) == IF u = Nil THEN 0
                      ELSE IF elem < u.elem THEN f[u.left]
                      ELSE GetOnes2(u.item.data, elem - u.elem) + MySize(u.left) + f[u.right]
           P(f, n) == f = [u \in TreesUpTo[n] |-> B(f, u)]
           T == {n \in Nat : \E f : P(f, n)}
           F == CHOOSE f : f = [u \in Trees |-> B(f, u)]
<1>1. \A f, g, u : (u # Nil => f[u.left] = g[u.left] /\ f[u.right] = g[u.right]) => B(f, u) = B(g, u)
  OBVIOUS
<1> HIDE DEF B
<1>2. 0 \in T
  <2> DEFINE f == [u \in TreesUpTo[0] |-> B(<<>>, u)]
  <2>1. P(f, 0)
    BY <1>1, UpToNode
  <2> HIDE DEF f
  <2> QED
    BY <2>1
<1>3. ASSUME NEW n \in Nat, n \in T PROVE n + 1 \in T
  <2>1. PICK f : P(f, n)
    BY <1>3
  <2> DEFINE g == [u \in TreesUpTo[n + 1] |-> B(f, u)]
  <2>2. P(g, n + 1)
    BY <1>1, <2>1, UpToStep
  <2> HIDE DEF g
  <2> QED
    BY <2>2
<1>4. F = [u \in Trees |-> B(F, u)]
  <2>1. MaxHeight \in T
    <3> HIDE DEF T
    <3> QED
      BY <1>2, <1>3, AllOfNat, HeightAssumption
  <2> QED
    BY <2>1 DEF Trees
<1>5. \A u : RankBits(u, elem) = F[u]
  BY DEF RankBits, B
<1> HIDE DEF F
<1>6. F[t] = B(F, t)
  BY <1>4
<1> QED
  BY <1>5, <1>6 DEF B

(* The walk of select, on the tree of words.                               *)
LEMMA SelectBitsFromIs ==
  ASSUME NEW t \in Trees
  PROVE  \A s \in Int :
           SelectBitsFrom(t, s)
             = IF t = Nil THEN -1
               ELSE IF s <= MySize(t.left) THEN SelectBitsFrom(t.left, s)
               ELSE IF s <= MySize(t.left) + GetOnes(t.item.data)
               THEN t.elem + GetXOnePos(t.item.data, s - MySize(t.left))
               ELSE SelectBitsFrom(t.right, s - (MySize(t.left) + GetOnes(t.item.data)))
<1> DEFINE B(f, u) == [s \in Int |->
                         IF u = Nil THEN -1
                         ELSE IF s <= MySize(u.left) THEN f[u.left][s]
                         ELSE IF s <= MySize(u.left) + GetOnes(u.item.data)
                         THEN u.elem + GetXOnePos(u.item.data, s - MySize(u.left))
                         ELSE f[u.right][s - (MySize(u.left) + GetOnes(u.item.data))]]
           P(f, n) == f = [u \in TreesUpTo[n] |-> B(f, u)]
           T == {n \in Nat : \E f : P(f, n)}
           F == CHOOSE f : f = [u \in Trees |-> B(f, u)]
<1>1. \A f, g, u : (u # Nil => f[u.left] = g[u.left] /\ f[u.right] = g[u.right]) => B(f, u) = B(g, u)
  OBVIOUS
<1> HIDE DEF B
<1>2. 0 \in T
  <2> DEFINE f == [u \in TreesUpTo[0] |-> B(<<>>, u)]
  <2>1. P(f, 0)
    BY <1>1, UpToNode
  <2> HIDE DEF f
  <2> QED
    BY <2>1
<1>3. ASSUME NEW n \in Nat, n \in T PROVE n + 1 \in T
  <2>1. PICK f : P(f, n)
    BY <1>3
  <2> DEFINE g == [u \in TreesUpTo[n + 1] |-> B(f, u)]
  <2>2. P(g, n + 1)
    BY <1>1, <2>1, UpToStep
  <2> HIDE DEF g
  <2> QED
    BY <2>2
<1>4. F = [u \in Trees |-> B(F, u)]
  <2>1. MaxHeight \in T
    <3> HIDE DEF T
    <3> QED
      BY <1>2, <1>3, AllOfNat, HeightAssumption
  <2> QED
    BY <2>1 DEF Trees
<1>5. \A u, s : SelectBitsFrom(u, s) = F[u][s]
  BY DEF SelectBitsFrom, B
<1> HIDE DEF F
<1>6. F[t] = B(F, t)
  BY <1>4
<1> SUFFICES ASSUME NEW s \in Int
             PROVE  SelectBitsFrom(t, s)
                 = IF t = Nil THEN -1
                   ELSE IF s <= MySize(t.left) THEN SelectBitsFrom(t.left, s)
                   ELSE IF s <= MySize(t.left) + GetOnes(t.item.data)
                   THEN t.elem + GetXOnePos(t.item.data, s - MySize(t.left))
                   ELSE SelectBitsFrom(t.right, s - (MySize(t.left) + GetOnes(t.item.data)))
  OBVIOUS
<1>7. B(F, t)[s] = IF t = Nil THEN -1
                ELSE IF s <= MySize(t.left) THEN F[t.left][s]
                ELSE IF s <= MySize(t.left) + GetOnes(t.item.data)
                THEN t.elem + GetXOnePos(t.item.data, s - MySize(t.left))
                ELSE F[t.right][s - (MySize(t.left) + GetOnes(t.item.data))]
  BY DEF B
<1> QED
  BY <1>5, <1>6, <1>7

(* The walk of modify, on the tree of words.                               *)
LEMMA ModifyBitIs ==
  ASSUME NEW elem, NEW val, NEW t \in Trees
  PROVE  ModifyBit(t, elem, val)
           = IF t = Nil THEN Nil
             ELSE WithMySize(
                    IF elem < t.elem THEN [t EXCEPT !.left = ModifyBit(t.left, elem, val)]
                    ELSE IF elem <= t.elem + IntBit - 1
                    THEN SetData(t, IF val = 1 THEN t.item.data \cup {elem - t.elem}
                                    ELSE t.item.data \ {elem - t.elem})
                    ELSE [t EXCEPT !.right = ModifyBit(t.right, elem, val)])
<1> DEFINE B(f, u) == IF u = Nil THEN Nil
                      ELSE WithMySize(
                             IF elem < u.elem THEN [u EXCEPT !.left = f[@]]
                             ELSE IF elem <= u.elem + IntBit - 1
                             THEN SetData(u, IF val = 1 THEN u.item.data \cup {elem - u.elem}
                                             ELSE u.item.data \ {elem - u.elem})
                             ELSE [u EXCEPT !.right = f[@]])
           P(f, n) == f = [u \in TreesUpTo[n] |-> B(f, u)]
           T == {n \in Nat : \E f : P(f, n)}
           F == CHOOSE f : f = [u \in Trees |-> B(f, u)]
<1>1. \A f, g, u : (u # Nil => f[u.left] = g[u.left] /\ f[u.right] = g[u.right]) => B(f, u) = B(g, u)
  OBVIOUS
<1> HIDE DEF B
<1>2. 0 \in T
  <2> DEFINE f == [u \in TreesUpTo[0] |-> B(<<>>, u)]
  <2>1. P(f, 0)
    BY <1>1, UpToNode
  <2> HIDE DEF f
  <2> QED
    BY <2>1
<1>3. ASSUME NEW n \in Nat, n \in T PROVE n + 1 \in T
  <2>1. PICK f : P(f, n)
    BY <1>3
  <2> DEFINE g == [u \in TreesUpTo[n + 1] |-> B(f, u)]
  <2>2. P(g, n + 1)
    BY <1>1, <2>1, UpToStep
  <2> HIDE DEF g
  <2> QED
    BY <2>2
<1>4. F = [u \in Trees |-> B(F, u)]
  <2>1. MaxHeight \in T
    <3> HIDE DEF T
    <3> QED
      BY <1>2, <1>3, AllOfNat, HeightAssumption
  <2> QED
    BY <2>1 DEF Trees
<1>5. \A u : ModifyBit(u, elem, val) = F[u]
  BY DEF ModifyBit, B
<1> HIDE DEF F
<1>6. F[t] = B(F, t)
  BY <1>4
<1> QED
  BY <1>5, <1>6 DEF B

(* The walk of find, on the tree of blocks.                                *)
LEMMA FindBlockIs ==
  ASSUME NEW elem, NEW t \in Trees
  PROVE  FindBlock(t, elem) = IF t = Nil \/ Holds(t, elem) THEN t
                              ELSE FindBlock(IF elem < t.elem THEN t.left ELSE t.right, elem)
<1> DEFINE B(f, u) == IF u = Nil \/ Holds(u, elem) THEN u
                      ELSE f[IF elem < u.elem THEN u.left ELSE u.right]
           P(f, n) == f = [u \in TreesUpTo[n] |-> B(f, u)]
           T == {n \in Nat : \E f : P(f, n)}
           F == CHOOSE f : f = [u \in Trees |-> B(f, u)]
<1>1. \A f, g, u : (u # Nil => f[u.left] = g[u.left] /\ f[u.right] = g[u.right]) => B(f, u) = B(g, u)
  OBVIOUS
<1> HIDE DEF B
<1>2. 0 \in T
  <2> DEFINE f == [u \in TreesUpTo[0] |-> B(<<>>, u)]
  <2>1. P(f, 0)
    BY <1>1, UpToNode
  <2> HIDE DEF f
  <2> QED
    BY <2>1
<1>3. ASSUME NEW n \in Nat, n \in T PROVE n + 1 \in T
  <2>1. PICK f : P(f, n)
    BY <1>3
  <2> DEFINE g == [u \in TreesUpTo[n + 1] |-> B(f, u)]
  <2>2. P(g, n + 1)
    BY <1>1, <2>1, UpToStep
  <2> HIDE DEF g
  <2> QED
    BY <2>2
<1>4. F = [u \in Trees |-> B(F, u)]
  <2>1. MaxHeight \in T
    <3> HIDE DEF T
    <3> QED
      BY <1>2, <1>3, AllOfNat, HeightAssumption
  <2> QED
    BY <2>1 DEF Trees
<1>5. \A u : FindBlock(u, elem) = F[u]
  BY DEF FindBlock, B
<1> HIDE DEF F
<1>6. F[t] = B(F, t)
  BY <1>4
<1> QED
  BY <1>5, <1>6 DEF B

(* The walk of updatePath, on the tree of blocks.                          *)
LEMMA UpdatePathIs ==
  ASSUME NEW elem, NEW add, NEW t \in Trees
  PROVE  UpdatePath(t, elem, add)
           = IF t = Nil THEN Nil
             ELSE IF Holds(t, elem) THEN [t EXCEPT !.mysize = @ + add]
             ELSE IF elem < t.elem
             THEN [t EXCEPT !.mysize = @ + add, !.left = UpdatePath(t.left, elem, add)]
             ELSE [t EXCEPT !.mysize = @ + add, !.right = UpdatePath(t.right, elem, add)]
<1> DEFINE B(f, u) == IF u = Nil THEN Nil
                      ELSE IF Holds(u, elem) THEN [u EXCEPT !.mysize = @ + add]
                      ELSE IF elem < u.elem THEN [u EXCEPT !.mysize = @ + add, !.left = f[@]]
                      ELSE [u EXCEPT !.mysize = @ + add, !.right = f[@]]
           P(f, n) == f = [u \in TreesUpTo[n] |-> B(f, u)]
           T == {n \in Nat : \E f : P(f, n)}
           F == CHOOSE f : f = [u \in Trees |-> B(f, u)]
<1>1. \A f, g, u : (u # Nil => f[u.left] = g[u.left] /\ f[u.right] = g[u.right]) => B(f, u) = B(g, u)
  OBVIOUS
<1> HIDE DEF B
<1>2. 0 \in T
  <2> DEFINE f == [u \in TreesUpTo[0] |-> B(<<>>, u)]
  <2>1. P(f, 0)
    BY <1>1, UpToNode
  <2> HIDE DEF f
  <2> QED
    BY <2>1
<1>3. ASSUME NEW n \in Nat, n \in T PROVE n + 1 \in T
  <2>1. PICK f : P(f, n)
    BY <1>3
  <2> DEFINE g == [u \in TreesUpTo[n + 1] |-> B(f, u)]
  <2>2. P(g, n + 1)
    BY <1>1, <2>1, UpToStep
  <2> HIDE DEF g
  <2> QED
    BY <2>2
<1>4. F = [u \in Trees |-> B(F, u)]
  <2>1. MaxHeight \in T
    <3> HIDE DEF T
    <3> QED
      BY <1>2, <1>3, AllOfNat, HeightAssumption
  <2> QED
    BY <2>1 DEF Trees
<1>5. \A u : UpdatePath(u, elem, add) = F[u]
  BY DEF UpdatePath, B
<1> HIDE DEF F
<1>6. F[t] = B(F, t)
  BY <1>4
<1>7. B(F, t) = IF t = Nil THEN Nil
                ELSE IF Holds(t, elem) THEN [t EXCEPT !.mysize = @ + add]
                ELSE IF elem < t.elem
                THEN [t EXCEPT !.mysize = @ + add, !.left = F[t.left]]
                ELSE [t EXCEPT !.mysize = @ + add, !.right = F[t.right]]
  <2>1. CASE t = Nil
    BY <2>1 DEF B
  <2>2. CASE t # Nil
    BY <2>2, TreesAre DEF B, Node
  <2> QED
    BY <2>1, <2>2
<1>8. /\ UpdatePath(t, elem, add) = F[t] /\ UpdatePath(t.left, elem, add) = F[t.left]
      /\ UpdatePath(t.right, elem, add) = F[t.right]
  BY <1>5
<1>9. UpdatePath(t, elem, add) = B(F, t)
  BY <1>6, <1>8
<1> QED
  BY <1>7, <1>8, <1>9

(* The pointer of one node changes.                                        *)
LEMMA SetPtrIs ==
  ASSUME NEW elem, NEW ptr, NEW t \in Trees
  PROVE  SetPtr(t, elem, ptr)
           = IF t = Nil THEN Nil
             ELSE IF elem = t.elem THEN [t EXCEPT !.item.ptr = ptr]
             ELSE IF elem < t.elem THEN [t EXCEPT !.left = SetPtr(t.left, elem, ptr)]
             ELSE [t EXCEPT !.right = SetPtr(t.right, elem, ptr)]
<1> DEFINE B(f, u) == IF u = Nil THEN Nil
                      ELSE IF elem = u.elem THEN [u EXCEPT !.item.ptr = ptr]
                      ELSE IF elem < u.elem THEN [u EXCEPT !.left = f[@]]
                      ELSE [u EXCEPT !.right = f[@]]
           P(f, n) == f = [u \in TreesUpTo[n] |-> B(f, u)]
           T == {n \in Nat : \E f : P(f, n)}
           F == CHOOSE f : f = [u \in Trees |-> B(f, u)]
<1>1. \A f, g, u : (u # Nil => f[u.left] = g[u.left] /\ f[u.right] = g[u.right]) => B(f, u) = B(g, u)
  OBVIOUS
<1> HIDE DEF B
<1>2. 0 \in T
  <2> DEFINE f == [u \in TreesUpTo[0] |-> B(<<>>, u)]
  <2>1. P(f, 0)
    BY <1>1, UpToNode
  <2> HIDE DEF f
  <2> QED
    BY <2>1
<1>3. ASSUME NEW n \in Nat, n \in T PROVE n + 1 \in T
  <2>1. PICK f : P(f, n)
    BY <1>3
  <2> DEFINE g == [u \in TreesUpTo[n + 1] |-> B(f, u)]
  <2>2. P(g, n + 1)
    BY <1>1, <2>1, UpToStep
  <2> HIDE DEF g
  <2> QED
    BY <2>2
<1>4. F = [u \in Trees |-> B(F, u)]
  <2>1. MaxHeight \in T
    <3> HIDE DEF T
    <3> QED
      BY <1>2, <1>3, AllOfNat, HeightAssumption
  <2> QED
    BY <2>1 DEF Trees
<1>5. \A u : SetPtr(u, elem, ptr) = F[u]
  BY DEF SetPtr, B
<1> HIDE DEF F
<1>6. F[t] = B(F, t)
  BY <1>4
<1> QED
  BY <1>5, <1>6 DEF B

(* The walk of rank, on the tree of blocks.                                *)
LEMMA RankBlocksIs ==
  ASSUME NEW elem, NEW t \in Trees
  PROVE  RankBlocks(t, elem)
           = IF t = Nil THEN [elements |-> 0, node |-> Nil]
             ELSE IF elem < t.elem THEN RankBlocks(t.left, elem)
             ELSE IF elem - t.elem >= t.item.bits - 1
             THEN [RankBlocks(t.right, elem) EXCEPT !.elements = @ + MySize(t.left) + OwnOnes(t)]
             ELSE [elements |-> MySize(t.left), node |-> t]
<1> DEFINE B(f, u) == IF u = Nil THEN [elements |-> 0, node |-> Nil]
                      ELSE IF elem < u.elem THEN f[u.left]
                      ELSE IF elem - u.elem >= u.item.bits - 1
                      THEN [f[u.right] EXCEPT !.elements = @ + MySize(u.left) + OwnOnes(u)]
                      ELSE [elements |-> MySize(u.left), node |-> u]
           P(f, n) == f = [u \in TreesUpTo[n] |-> B(f, u)]
           T == {n \in Nat : \E f : P(f, n)}
           F == CHOOSE f : f = [u \in Trees |-> B(f, u)]
<1>1. \A f, g, u : (u # Nil => f[u.left] = g[u.left] /\ f[u.right] = g[u.right]) => B(f, u) = B(g, u)
  OBVIOUS
<1> HIDE DEF B
<1>2. 0 \in T
  <2> DEFINE f == [u \in TreesUpTo[0] |-> B(<<>>, u)]
  <2>1. P(f, 0)
    BY <1>1, UpToNode
  <2> HIDE DEF f
  <2> QED
    BY <2>1
<1>3. ASSUME NEW n \in Nat, n \in T PROVE n + 1 \in T
  <2>1. PICK f : P(f, n)
    BY <1>3
  <2> DEFINE g == [u \in TreesUpTo[n + 1] |-> B(f, u)]
  <2>2. P(g, n + 1)
    BY <1>1, <2>1, UpToStep
  <2> HIDE DEF g
  <2> QED
    BY <2>2
<1>4. F = [u \in Trees |-> B(F, u)]
  <2>1. MaxHeight \in T
    <3> HIDE DEF T
    <3> QED
      BY <1>2, <1>3, AllOfNat, HeightAssumption
  <2> QED
    BY <2>1 DEF Trees
<1>5. \A u : RankBlocks(u, elem) = F[u]
  BY DEF RankBlocks, B
<1> HIDE DEF F
<1>6. F[t] = B(F, t)
  BY <1>4
<1> QED
  BY <1>5, <1>6 DEF B

(* The walk of select, on the tree of blocks.                              *)
LEMMA SelectBlockFromIs ==
  ASSUME NEW t \in Trees
  PROVE  \A s \in Int :
           SelectBlockFrom(t, s)
             = IF t = Nil THEN [ones |-> -1, node |-> Nil]
               ELSE IF s <= MySize(t.left) THEN SelectBlockFrom(t.left, s)
               ELSE IF s <= MySize(t.left) + OwnOnes(t) THEN [ones |-> s - MySize(t.left), node |-> t]
               ELSE SelectBlockFrom(t.right, s - (MySize(t.left) + OwnOnes(t)))
<1> DEFINE B(f, u) == [s \in Int |->
                         IF u = Nil THEN [ones |-> -1, node |-> Nil]
                         ELSE IF s <= MySize(u.left) THEN f[u.left][s]
                         ELSE IF s <= MySize(u.left) + OwnOnes(u) THEN [ones |-> s - MySize(u.left), node |-> u]
                         ELSE f[u.right][s - (MySize(u.left) + OwnOnes(u))]]
           P(f, n) == f = [u \in TreesUpTo[n] |-> B(f, u)]
           T == {n \in Nat : \E f : P(f, n)}
           F == CHOOSE f : f = [u \in Trees |-> B(f, u)]
<1>1. \A f, g, u : (u # Nil => f[u.left] = g[u.left] /\ f[u.right] = g[u.right]) => B(f, u) = B(g, u)
  OBVIOUS
<1> HIDE DEF B
<1>2. 0 \in T
  <2> DEFINE f == [u \in TreesUpTo[0] |-> B(<<>>, u)]
  <2>1. P(f, 0)
    BY <1>1, UpToNode
  <2> HIDE DEF f
  <2> QED
    BY <2>1
<1>3. ASSUME NEW n \in Nat, n \in T PROVE n + 1 \in T
  <2>1. PICK f : P(f, n)
    BY <1>3
  <2> DEFINE g == [u \in TreesUpTo[n + 1] |-> B(f, u)]
  <2>2. P(g, n + 1)
    BY <1>1, <2>1, UpToStep
  <2> HIDE DEF g
  <2> QED
    BY <2>2
<1>4. F = [u \in Trees |-> B(F, u)]
  <2>1. MaxHeight \in T
    <3> HIDE DEF T
    <3> QED
      BY <1>2, <1>3, AllOfNat, HeightAssumption
  <2> QED
    BY <2>1 DEF Trees
<1>5. \A u, s : SelectBlockFrom(u, s) = F[u][s]
  BY DEF SelectBlockFrom, B
<1> HIDE DEF F
<1>6. F[t] = B(F, t)
  BY <1>4
<1> SUFFICES ASSUME NEW s \in Int
             PROVE  SelectBlockFrom(t, s)
                 = IF t = Nil THEN [ones |-> -1, node |-> Nil]
                   ELSE IF s <= MySize(t.left) THEN SelectBlockFrom(t.left, s)
                   ELSE IF s <= MySize(t.left) + OwnOnes(t) THEN [ones |-> s - MySize(t.left), node |-> t]
                   ELSE SelectBlockFrom(t.right, s - (MySize(t.left) + OwnOnes(t)))
  OBVIOUS
<1>7. B(F, t)[s] = IF t = Nil THEN [ones |-> -1, node |-> Nil]
                ELSE IF s <= MySize(t.left) THEN F[t.left][s]
                ELSE IF s <= MySize(t.left) + OwnOnes(t) THEN [ones |-> s - MySize(t.left), node |-> t]
                ELSE F[t.right][s - (MySize(t.left) + OwnOnes(t))]
  BY DEF B
<1> QED
  BY <1>5, <1>6, <1>7

-----------------------------------------------------------------------------
(* The nodes of a tree of any height, as the least set that has the tree   *)
(* and the subtrees of its members; the model's Nodes is the same on Trees.*)
Closed(S) == \A u \in S : u # Nil => u.left \in S /\ u.right \in S
NodesOf(t) == {n \in Node(AllTrees) : \A S \in SUBSET AllTrees : Closed(S) /\ t \in S => n \in S}

(* What a node of trees is made of.                                        *)
LEMMA NodeFields ==
  ASSUME NEW t \in Node(AllTrees)
  PROVE  /\ t # Nil /\ t \in AllTrees /\ t.left \in AllTrees /\ t.right \in AllTrees
         /\ t.elem \in Int /\ t.item \in Item /\ t.ones \in Int /\ t.height \in Int
         /\ t.mysize \in Int
<1>1. t # Nil /\ t \in AllTrees
  BY NilIsNoNode, AllTreesAre
<1> QED
  BY <1>1 DEF Node

(* The empty tree has no nodes.                                            *)
LEMMA NodesOfNil == NodesOf(Nil) = {}
<1>1. Closed({Nil}) /\ {Nil} \in SUBSET AllTrees
  BY AllTreesAre DEF Closed
<1>2. \A n \in NodesOf(Nil) : n \in {Nil}
  BY <1>1 DEF NodesOf
<1>3. \A n \in NodesOf(Nil) : n # Nil
  BY NodeFields DEF NodesOf
<1> QED
  BY <1>2, <1>3

(* The nodes of a tree are its root and those of its subtrees.             *)
LEMMA NodesOfNode ==
  ASSUME NEW t \in Node(AllTrees)
  PROVE  NodesOf(t) = {t} \cup NodesOf(t.left) \cup NodesOf(t.right)
<1>0. t # Nil /\ t \in AllTrees /\ t.left \in AllTrees /\ t.right \in AllTrees
  BY NodeFields
<1> DEFINE R == {t} \cup NodesOf(t.left) \cup NodesOf(t.right) \cup {Nil}
<1>1. R \in SUBSET AllTrees
  BY <1>0, AllTreesAre DEF NodesOf
<1>2. ASSUME NEW s \in AllTrees, NEW u \in NodesOf(s)
      PROVE  u.left \in NodesOf(s) \cup {Nil} /\ u.right \in NodesOf(s) \cup {Nil}
  <2>1. u \in Node(AllTrees) /\ \A S \in SUBSET AllTrees : Closed(S) /\ s \in S => u \in S
    BY <1>2 DEF NodesOf
  <2>2. u # Nil /\ u.left \in AllTrees /\ u.right \in AllTrees
    BY <2>1, NodeFields
  <2>3. \A S \in SUBSET AllTrees : Closed(S) /\ s \in S => u.left \in S /\ u.right \in S
    BY <2>1, <2>2 DEF Closed
  <2> QED
    BY <2>2, <2>3, AllTreesAre DEF NodesOf
<1>3. ASSUME NEW s \in AllTrees, s # Nil PROVE s \in NodesOf(s)
  <2>1. s \in Node(AllTrees)
    BY <1>3, AllTreesAre
  <2> QED
    BY <2>1 DEF NodesOf
<1>4. Closed(R)
  <2>1. ASSUME NEW u \in R, u # Nil PROVE u.left \in R /\ u.right \in R
    <3>1. CASE u = t
      BY <1>0, <1>3, <3>1
    <3>2. CASE u \in NodesOf(t.left)
      BY <1>0, <1>2, <3>2
    <3>3. CASE u \in NodesOf(t.right)
      BY <1>0, <1>2, <3>3
    <3> QED
      BY <2>1, <3>1, <3>2, <3>3
  <2> HIDE DEF R
  <2> QED
    BY <2>1 DEF Closed
<1>5. \A n \in NodesOf(t) : n \in R /\ n # Nil
  <2> TAKE n \in NodesOf(t)
  <2>1. t \in R
    OBVIOUS
  <2> HIDE DEF R
  <2> QED
    BY <1>1, <1>4, <2>1, NodeFields DEF NodesOf
<1>6. NodesOf(t.left) \subseteq NodesOf(t) /\ NodesOf(t.right) \subseteq NodesOf(t)
  BY <1>0 DEF NodesOf, Closed
<1> QED
  BY <1>0, <1>3, <1>5, <1>6

(* On the trees that the walks work on, the model's nodes are these.       *)
LEMMA NodesAreNodesOf ==
  ASSUME NEW t \in Trees
  PROVE  Nodes(t) = NodesOf(t)
<1> DEFINE S == {u \in Trees : Nodes(u) = NodesOf(u)}
<1>1. Nil \in S
  BY NodesIs, NodesOfNil, TreesAre
<1>2. ASSUME NEW u \in Node(Trees), u \in Trees, u.left \in S, u.right \in S PROVE u \in S
  <2>1. u \in Node(AllTrees)
    BY TreesAre, NodeMono
  <2>2. u # Nil
    BY <2>1, NodeFields
  <2> QED
    BY <1>2, <2>1, <2>2, NodesIs, NodesOfNode
<1>3. Trees \subseteq S
  <2> HIDE DEF S
  <2> QED
    BY <1>1, <1>2, TreesInduction
<1> QED
  BY <1>3
-----------------------------------------------------------------------------
(* A tree is spoken of by its entries: what its nodes hold, and the ones   *)
(* that mysize adds up there (own). The payload of BlockAVLTree may have   *)
(* other ones than when it was inserted.                                   *)
Entry(n) == [elem |-> n.elem, item |-> n.item, ones |-> n.ones, own |-> OwnOnes(n)]
EntrySet == [elem : Int, item : Item, ones : Int, own : Int]
Entries(t) == {Entry(n) : n \in NodesOf(t)}

Below(E, e) == \A x \in E : x.elem < e
Above(E, e) == \A x \in E : e < x.elem

(* A search tree, with the heights that rebalance relies on.               *)
InOrder(n) == Below(Entries(n.left), n.elem) /\ Above(Entries(n.right), n.elem)
HeightRight(n) == n.height = 1 + Greater(Height(n.left), Height(n.right))
SearchTree(t) == t \in AllTrees /\ \A n \in NodesOf(t) : InOrder(n) /\ HeightRight(n)

(* The numbers in a tree are integers.                                     *)
LEMMA TreeNumbers ==
  ASSUME NEW t \in AllTrees
  PROVE  Height(t) \in Int /\ MySize(t) \in Int /\ (t # Nil => OwnOnes(t) \in Int)
<1>1. \A u \in AllTrees : Height(u) \in Int /\ MySize(u) \in Int
  BY AllTreesAre, NodeFields DEF Height, MySize
<1>2. ASSUME t # Nil PROVE OwnOnes(t) \in Int
  <2>1. t \in Node(AllTrees)
    BY <1>2, AllTreesAre
  <2>2. MySize(t) \in Int /\ MySize(t.left) \in Int /\ MySize(t.right) \in Int
    BY <1>1, <2>1, NodeFields
  <2> QED
    BY <2>2 DEF OwnOnes
<1> QED
  BY <1>1, <1>2

(* The empty tree has no entries.                                          *)
LEMMA EntriesNil == Entries(Nil) = {}
  BY NodesOfNil DEF Entries

(* The entries of a tree are that of its root and those of its subtrees.   *)
LEMMA EntriesNode ==
  ASSUME NEW t \in Node(AllTrees)
  PROVE  Entries(t) = {Entry(t)} \cup Entries(t.left) \cup Entries(t.right)
  BY NodesOfNode DEF Entries

(* The entry of a node is an entry.                                        *)
LEMMA EntryType ==
  ASSUME NEW t \in Node(AllTrees)
  PROVE  Entry(t) \in EntrySet
<1>1. t.elem \in Int /\ t.item \in Item /\ t.ones \in Int /\ OwnOnes(t) \in Int
  BY NodeFields, TreeNumbers
<1> QED
  BY <1>1 DEF Entry, EntrySet

(* So are those of a tree.                                                 *)
LEMMA EntriesType ==
  ASSUME NEW t \in AllTrees
  PROVE  Entries(t) \subseteq EntrySet
<1>1. NodesOf(t) \subseteq Node(AllTrees)
  BY DEF NodesOf
<1> QED
  BY <1>1, EntryType DEF Entries

(* The empty tree is a search tree.                                        *)
LEMMA SearchNil == SearchTree(Nil)
  BY AllTreesAre, NodesOfNil DEF SearchTree

(* A node is one when its subtrees are, on the right sides of its element, *)
(* and its height is that of the higher of them and one.                   *)
LEMMA SearchNode ==
  ASSUME NEW t \in Node(AllTrees)
  PROVE  SearchTree(t) <=> /\ SearchTree(t.left) /\ SearchTree(t.right)
                           /\ InOrder(t) /\ HeightRight(t)
<1>1. NodesOf(t) = {t} \cup NodesOf(t.left) \cup NodesOf(t.right)
  BY NodesOfNode
<1>2. t \in AllTrees /\ t.left \in AllTrees /\ t.right \in AllTrees
  BY NodeFields
<1> HIDE DEF InOrder, HeightRight, NodesOf
<1> QED
  BY <1>1, <1>2 DEF SearchTree

(* Only an empty tree has height -1.                                       *)
LEMMA HeightAtLeast ==
  ASSUME NEW t \in AllTrees, SearchTree(t)
  PROVE  Height(t) \in Int /\ Height(t) >= -1 /\ (t # Nil => Height(t) >= 0)
<1> DEFINE S == {u \in AllTrees : SearchTree(u) => Height(u) >= -1 /\ (u # Nil => Height(u) >= 0)}
<1>1. Nil \in S
  BY AllTreesAre DEF Height
<1>2. ASSUME NEW u \in Node(AllTrees), u.left \in S, u.right \in S PROVE u \in S
  <2>1. u \in AllTrees /\ u # Nil
    BY NodeFields
  <2>2. ASSUME SearchTree(u) PROVE Height(u) >= 0
    <3>1. SearchTree(u.left) /\ SearchTree(u.right) /\ HeightRight(u)
      BY <2>2, SearchNode
    <3>2. Height(u.left) >= -1 /\ Height(u.right) >= -1
      BY <1>2, <3>1
    <3>3. Height(u.left) \in Int /\ Height(u.right) \in Int
      BY NodeFields, TreeNumbers
    <3>4. Height(u) = 1 + Greater(Height(u.left), Height(u.right))
      BY <2>1, <3>1 DEF HeightRight, Height
    <3> QED
      BY <3>2, <3>3, <3>4 DEF Greater
  <2>3. Height(u) \in Int
    BY <2>1, TreeNumbers
  <2> QED
    BY <2>1, <2>2, <2>3
<1>3. AllTrees \subseteq S
  <2> HIDE DEF S
  <2> QED
    BY <1>1, <1>2, TreeInduction
<1> QED
  BY <1>3, TreeNumbers

-----------------------------------------------------------------------------
(* A node on the way back from a change: the subtrees are right and in     *)
(* order, height and mysize of the node may be those of before. Summing up *)
(* makes the ones of the node its own ones.                                *)
Loose(t) == /\ t \in Node(AllTrees) /\ InOrder(t)
            /\ SearchTree(t.left) /\ SearchTree(t.right)

NewEntry(t) == [elem |-> t.elem, item |-> t.item, ones |-> t.ones, own |-> t.ones]
LooseEntries(t) == {NewEntry(t)} \cup Entries(t.left) \cup Entries(t.right)

(* Nothing has changed the ones since they were inserted.                  *)
Fresh(E) == \A x \in E : x.own = x.ones

(* A node with another left subtree.                                       *)
LEMMA PutLeft ==
  ASSUME NEW t \in Node(AllTrees), NEW s \in AllTrees
  PROVE  LET u == [t EXCEPT !.left = s]
         IN  /\ u \in Node(AllTrees) /\ u.left = s /\ u.right = t.right
             /\ u.elem = t.elem /\ u.item = t.item /\ u.ones = t.ones
  BY DEF Node

(* A node with another right subtree.                                      *)
LEMMA PutRight ==
  ASSUME NEW t \in Node(AllTrees), NEW s \in AllTrees
  PROVE  LET u == [t EXCEPT !.right = s]
         IN  /\ u \in Node(AllTrees) /\ u.right = s /\ u.left = t.left
             /\ u.elem = t.elem /\ u.item = t.item /\ u.ones = t.ones
  BY DEF Node

(* The end of rebalance, where height and mysize are computed again.       *)
LEMMA RecomputeFields ==
  ASSUME NEW t \in Node(AllTrees)
  PROVE  LET u == Recompute(t)
         IN  /\ u \in Node(AllTrees) /\ u.left = t.left /\ u.right = t.right
             /\ u.elem = t.elem /\ u.item = t.item /\ u.ones = t.ones
             /\ u.height = 1 + Greater(Height(t.left), Height(t.right))
             /\ u.mysize = t.ones + MySize(t.left) + MySize(t.right)
<1> DEFINE v == WithMySize(t)
           u == Recompute(t)
<1>1. t.left \in AllTrees /\ t.right \in AllTrees /\ t.ones \in Int
  BY NodeFields
<1>2. /\ Height(t.left) \in Int /\ Height(t.right) \in Int
      /\ MySize(t.left) \in Int /\ MySize(t.right) \in Int
  BY <1>1, TreeNumbers
<1>3. t.ones + MySize(t.left) + MySize(t.right) \in Int
      /\ 1 + Greater(Height(t.left), Height(t.right)) \in Int
  BY <1>1, <1>2 DEF Greater
<1>4. /\ v \in Node(AllTrees) /\ v.left = t.left /\ v.right = t.right
      /\ v.elem = t.elem /\ v.item = t.item /\ v.ones = t.ones
      /\ v.mysize = t.ones + MySize(t.left) + MySize(t.right)
  BY <1>3 DEF WithMySize, Node
<1>5. u = [v EXCEPT !.height = 1 + Greater(Height(t.left), Height(t.right))]
  BY <1>4 DEF Recompute, WithHeight
<1> HIDE DEF v, u
<1>6. /\ u \in Node(AllTrees) /\ u.left = t.left /\ u.right = t.right
      /\ u.elem = t.elem /\ u.item = t.item /\ u.ones = t.ones
      /\ u.height = 1 + Greater(Height(t.left), Height(t.right))
      /\ u.mysize = t.ones + MySize(t.left) + MySize(t.right)
  BY <1>3, <1>4, <1>5 DEF Node
<1> QED
  BY <1>6 DEF u

(* It makes a search tree of a node on the way back, with the same         *)
(* entries.                                                                *)
LEMMA RecomputeIs ==
  ASSUME NEW t, Loose(t)
  PROVE  /\ Recompute(t) \in Node(AllTrees) /\ SearchTree(Recompute(t))
         /\ Entries(Recompute(t)) = LooseEntries(t)
<1> DEFINE u == Recompute(t)
<1>1. t \in Node(AllTrees)
  BY DEF Loose
<1>2. /\ u \in Node(AllTrees) /\ u.left = t.left /\ u.right = t.right
      /\ u.elem = t.elem /\ u.item = t.item /\ u.ones = t.ones
      /\ u.height = 1 + Greater(Height(t.left), Height(t.right))
      /\ u.mysize = t.ones + MySize(t.left) + MySize(t.right)
  BY <1>1, RecomputeFields
<1> HIDE DEF u
<1>3. InOrder(u) /\ HeightRight(u)
  BY <1>2 DEF InOrder, HeightRight, Loose
<1>4. SearchTree(u)
  BY <1>2, <1>3, SearchNode DEF Loose
<1>5. OwnOnes(u) = t.ones
  <2>1. MySize(u) = t.ones + MySize(t.left) + MySize(t.right)
    BY <1>2, NodeFields DEF MySize
  <2>2. t.left \in AllTrees /\ t.right \in AllTrees /\ t.ones \in Int
    BY <1>1, NodeFields
  <2>3. MySize(t.left) \in Int /\ MySize(t.right) \in Int
    BY <2>2, TreeNumbers
  <2> QED
    BY <1>2, <2>1, <2>2, <2>3 DEF OwnOnes
<1>6. Entry(u) = NewEntry(t)
  BY <1>2, <1>5 DEF Entry, NewEntry
<1>7. Entries(u) = LooseEntries(t)
  BY <1>2, <1>6, EntriesNode DEF LooseEntries
<1> QED
  BY <1>2, <1>4, <1>7 DEF u

(* A right node can be taken for a loose one, and has its own entries.     *)
LEMMA SearchIsLoose ==
  ASSUME NEW t \in Node(AllTrees), SearchTree(t), Fresh(Entries(t))
  PROVE  /\ Loose(t) /\ LooseEntries(t) = Entries(t) /\ NewEntry(t) = Entry(t)
         /\ Fresh(Entries(t.left)) /\ Fresh(Entries(t.right))
         /\ \A x \in Entries(t) : x.elem \in Int
<1>1. Loose(t)
  BY SearchNode DEF Loose
<1>2. Entries(t) = {Entry(t)} \cup Entries(t.left) \cup Entries(t.right)
  BY EntriesNode
<1>3. NewEntry(t) = Entry(t)
  <2>1. Entry(t).own = Entry(t).ones
    BY <1>2 DEF Fresh
  <2> QED
    BY <2>1 DEF Entry, NewEntry
<1>4. \A x \in Entries(t) : x.elem \in Int
  <2>1. t \in AllTrees
    BY NodeFields
  <2> QED
    BY <2>1, EntriesType DEF EntrySet
<1> QED
  BY <1>1, <1>2, <1>3, <1>4 DEF LooseEntries, Fresh

(* So does the left rotation.                                              *)
LEMMA LeftRotateIs ==
  ASSUME NEW t, Loose(t), t.left # Nil, Fresh(Entries(t.left))
  PROVE  /\ LeftRotate(t) \in Node(AllTrees) /\ SearchTree(LeftRotate(t))
         /\ Entries(LeftRotate(t)) = LooseEntries(t)
<1> DEFINE k1 == t.left
           a == [t EXCEPT !.left = k1.right]
           ra == Recompute(a)
           b == [k1 EXCEPT !.right = ra]
<1>1. /\ t \in Node(AllTrees) /\ k1 \in Node(AllTrees) /\ SearchTree(k1) /\ SearchTree(t.right)
      /\ Below(Entries(k1), t.elem) /\ Above(Entries(t.right), t.elem)
  BY NodeFields, AllTreesAre DEF Loose, InOrder
<1>2. /\ Entries(k1) = {Entry(k1)} \cup Entries(k1.left) \cup Entries(k1.right)
      /\ NewEntry(k1) = Entry(k1) /\ \A x \in Entries(k1) : x.elem \in Int
  BY <1>1, EntriesNode, SearchIsLoose
<1>3. /\ SearchTree(k1.left) /\ SearchTree(k1.right)
      /\ Below(Entries(k1.left), k1.elem) /\ Above(Entries(k1.right), k1.elem)
  BY <1>1, SearchNode DEF InOrder
<1>4. k1.elem < t.elem /\ k1.elem \in Int /\ t.elem \in Int
  BY <1>1, <1>2, NodeFields DEF Below, Entry
<1>5. k1.left \in AllTrees /\ k1.right \in AllTrees /\ t.right \in AllTrees
  BY <1>1, NodeFields
<1>6. LeftRotate(t) = Recompute(b)
  BY DEF LeftRotate
<1>7. /\ a \in Node(AllTrees) /\ a.left = k1.right /\ a.right = t.right
      /\ a.elem = t.elem /\ a.item = t.item /\ a.ones = t.ones
  BY <1>1, <1>5, PutLeft
<1> HIDE DEF a
<1>8. Loose(a)
  BY <1>1, <1>2, <1>3, <1>7 DEF Loose, InOrder, Below
<1>9. /\ ra \in Node(AllTrees) /\ SearchTree(ra)
      /\ Entries(ra) = {NewEntry(t)} \cup Entries(k1.right) \cup Entries(t.right)
  <2>1. ra \in Node(AllTrees) /\ SearchTree(ra) /\ Entries(ra) = LooseEntries(a)
    BY <1>8, RecomputeIs
  <2> QED
    BY <1>7, <2>1 DEF LooseEntries, NewEntry
<1> HIDE DEF ra
<1>10. /\ b \in Node(AllTrees) /\ b.left = k1.left /\ b.right = ra
       /\ b.elem = k1.elem /\ b.item = k1.item /\ b.ones = k1.ones
  BY <1>1, <1>9, NodeFields, PutRight
<1> HIDE DEF b
<1>11. Above(Entries(ra), k1.elem)
  <2>1. \A x \in Entries(t.right) : x.elem \in Int
    BY <1>5, EntriesType DEF EntrySet
  <2>2. Above(Entries(t.right), k1.elem)
    BY <1>1, <1>4, <2>1 DEF Above
  <2>3. k1.elem < NewEntry(t).elem
    BY <1>4 DEF NewEntry
  <2> QED
    BY <1>3, <1>9, <2>2, <2>3 DEF Above
<1>12. Loose(b)
  BY <1>3, <1>9, <1>10, <1>11 DEF Loose, InOrder
<1>13. LooseEntries(b) = LooseEntries(t)
  <2>1. NewEntry(b) = Entry(k1)
    BY <1>2, <1>10 DEF NewEntry
  <2> QED
    BY <1>2, <1>9, <1>10, <2>1 DEF LooseEntries
<1> QED
  BY <1>6, <1>12, <1>13, RecomputeIs

(* So does the right rotation.                                             *)
LEMMA RightRotateIs ==
  ASSUME NEW t, Loose(t), t.right # Nil, Fresh(Entries(t.right))
  PROVE  /\ RightRotate(t) \in Node(AllTrees) /\ SearchTree(RightRotate(t))
         /\ Entries(RightRotate(t)) = LooseEntries(t)
<1> DEFINE k1 == t.right
           a == [t EXCEPT !.right = k1.left]
           ra == Recompute(a)
           b == [k1 EXCEPT !.left = ra]
<1>1. /\ t \in Node(AllTrees) /\ k1 \in Node(AllTrees) /\ SearchTree(k1) /\ SearchTree(t.left)
      /\ Above(Entries(k1), t.elem) /\ Below(Entries(t.left), t.elem)
  BY NodeFields, AllTreesAre DEF Loose, InOrder
<1>2. /\ Entries(k1) = {Entry(k1)} \cup Entries(k1.left) \cup Entries(k1.right)
      /\ NewEntry(k1) = Entry(k1) /\ \A x \in Entries(k1) : x.elem \in Int
  BY <1>1, EntriesNode, SearchIsLoose
<1>3. /\ SearchTree(k1.left) /\ SearchTree(k1.right)
      /\ Below(Entries(k1.left), k1.elem) /\ Above(Entries(k1.right), k1.elem)
  BY <1>1, SearchNode DEF InOrder
<1>4. t.elem < k1.elem /\ k1.elem \in Int /\ t.elem \in Int
  BY <1>1, <1>2, NodeFields DEF Above, Entry
<1>5. k1.left \in AllTrees /\ k1.right \in AllTrees /\ t.left \in AllTrees
  BY <1>1, NodeFields
<1>6. RightRotate(t) = Recompute(b)
  BY DEF RightRotate
<1>7. /\ a \in Node(AllTrees) /\ a.right = k1.left /\ a.left = t.left
      /\ a.elem = t.elem /\ a.item = t.item /\ a.ones = t.ones
  BY <1>1, <1>5, PutRight
<1> HIDE DEF a
<1>8. Loose(a)
  BY <1>1, <1>2, <1>3, <1>7 DEF Loose, InOrder, Above
<1>9. /\ ra \in Node(AllTrees) /\ SearchTree(ra)
      /\ Entries(ra) = {NewEntry(t)} \cup Entries(t.left) \cup Entries(k1.left)
  <2>1. ra \in Node(AllTrees) /\ SearchTree(ra) /\ Entries(ra) = LooseEntries(a)
    BY <1>8, RecomputeIs
  <2> QED
    BY <1>7, <2>1 DEF LooseEntries, NewEntry
<1> HIDE DEF ra
<1>10. /\ b \in Node(AllTrees) /\ b.right = k1.right /\ b.left = ra
       /\ b.elem = k1.elem /\ b.item = k1.item /\ b.ones = k1.ones
  BY <1>1, <1>9, NodeFields, PutLeft
<1> HIDE DEF b
<1>11. Below(Entries(ra), k1.elem)
  <2>1. \A x \in Entries(t.left) : x.elem \in Int
    BY <1>5, EntriesType DEF EntrySet
  <2>2. Below(Entries(t.left), k1.elem)
    BY <1>1, <1>4, <2>1 DEF Below
  <2>3. NewEntry(t).elem < k1.elem
    BY <1>4 DEF NewEntry
  <2> QED
    BY <1>3, <1>9, <2>2, <2>3 DEF Below
<1>12. Loose(b)
  BY <1>3, <1>9, <1>10, <1>11 DEF Loose, InOrder
<1>13. LooseEntries(b) = LooseEntries(t)
  <2>1. NewEntry(b) = Entry(k1)
    BY <1>2, <1>10 DEF NewEntry
  <2> QED
    BY <1>2, <1>9, <1>10, <2>1 DEF LooseEntries
<1> QED
  BY <1>6, <1>12, <1>13, RecomputeIs

(* A subtree rotated or left alone, as rebalance does before it rotates.   *)
LEMMA RebalanceIs ==
  ASSUME NEW t, Loose(t), Fresh(Entries(t.left)), Fresh(Entries(t.right))
  PROVE  /\ Rebalance(t) \in Node(AllTrees) /\ SearchTree(Rebalance(t))
         /\ Entries(Rebalance(t)) = LooseEntries(t) /\ Fresh(Entries(Rebalance(t)))
<1> DEFINE balance == Height(t.right) - Height(t.left)
           l == IF Height(t.left.right) > Height(t.left.left) THEN RightRotate(t.left) ELSE t.left
           r == IF Height(t.right.left) > Height(t.right.right) THEN LeftRotate(t.right) ELSE t.right
           OK(u) == u \in Node(AllTrees) /\ SearchTree(u) /\ Entries(u) = LooseEntries(t)
<1>1. /\ t \in Node(AllTrees) /\ t.left \in AllTrees /\ t.right \in AllTrees
      /\ SearchTree(t.left) /\ SearchTree(t.right) /\ InOrder(t)
  BY NodeFields DEF Loose
<1>2. /\ Height(t.left) \in Int /\ Height(t.left) >= -1 /\ Height(t.right) \in Int /\ Height(t.right) >= -1
      /\ t.left = Nil => Height(t.left) = -1
      /\ t.right = Nil => Height(t.right) = -1
  BY <1>1, HeightAtLeast DEF Height
<1>3. Fresh(LooseEntries(t))
  BY DEF Fresh, LooseEntries, NewEntry
<1>4. ASSUME balance < -1
      PROVE  /\ l \in Node(AllTrees) /\ SearchTree(l) /\ Entries(l) = Entries(t.left)
  <2>1. t.left # Nil
    BY <1>2, <1>4
  <2>2. t.left \in Node(AllTrees)
    BY <1>1, <2>1, AllTreesAre
  <2>3. /\ Loose(t.left) /\ LooseEntries(t.left) = Entries(t.left)
        /\ Fresh(Entries(t.left.left)) /\ Fresh(Entries(t.left.right))
    BY <1>1, <2>2, SearchIsLoose
  <2>4. ASSUME Height(t.left.right) > Height(t.left.left) PROVE t.left.right # Nil
    <3>1. SearchTree(t.left.left) /\ t.left.left \in AllTrees
      BY <2>3, NodeFields DEF Loose
    <3>2. Height(t.left.left) >= -1 /\ Height(t.left.left) \in Int
      BY <3>1, HeightAtLeast
    <3> QED
      BY <2>4, <3>2 DEF Height
  <2>5. CASE Height(t.left.right) > Height(t.left.left)
    BY <2>3, <2>4, <2>5, RightRotateIs
  <2>6. CASE ~(Height(t.left.right) > Height(t.left.left))
    BY <1>1, <2>2, <2>6
  <2> QED
    BY <2>5, <2>6
<1>5. ASSUME balance > 1
      PROVE  /\ r \in Node(AllTrees) /\ SearchTree(r) /\ Entries(r) = Entries(t.right)
  <2>1. t.right # Nil
    BY <1>2, <1>5
  <2>2. t.right \in Node(AllTrees)
    BY <1>1, <2>1, AllTreesAre
  <2>3. /\ Loose(t.right) /\ LooseEntries(t.right) = Entries(t.right)
        /\ Fresh(Entries(t.right.left)) /\ Fresh(Entries(t.right.right))
    BY <1>1, <2>2, SearchIsLoose
  <2>4. ASSUME Height(t.right.left) > Height(t.right.right) PROVE t.right.left # Nil
    <3>1. SearchTree(t.right.right) /\ t.right.right \in AllTrees
      BY <2>3, NodeFields DEF Loose
    <3>2. Height(t.right.right) >= -1 /\ Height(t.right.right) \in Int
      BY <3>1, HeightAtLeast
    <3> QED
      BY <2>4, <3>2 DEF Height
  <2>5. CASE Height(t.right.left) > Height(t.right.right)
    BY <2>3, <2>4, <2>5, LeftRotateIs
  <2>6. CASE ~(Height(t.right.left) > Height(t.right.right))
    BY <1>1, <2>2, <2>6
  <2> QED
    BY <2>5, <2>6
<1> HIDE DEF l, r
<1>6. Rebalance(t) = Recompute(IF balance < -1 THEN LeftRotate([t EXCEPT !.left = l])
                               ELSE IF balance > 1 THEN RightRotate([t EXCEPT !.right = r])
                               ELSE t)
  BY DEF Rebalance, l, r
<1>7. ASSUME NEW u, OK(u) PROVE OK(Recompute(u))
  <2>1. Fresh(Entries(u))
    BY <1>3, <1>7
  <2>2. Loose(u) /\ LooseEntries(u) = Entries(u)
    BY <1>7, <2>1, SearchIsLoose
  <2> QED
    BY <1>7, <2>2, RecomputeIs
<1>8. CASE balance < -1
  <2> DEFINE u == [t EXCEPT !.left = l]
  <2>1. /\ u \in Node(AllTrees) /\ u.left = l /\ u.right = t.right
        /\ u.elem = t.elem /\ u.item = t.item /\ u.ones = t.ones
    BY <1>1, <1>4, <1>8, NodeFields, PutLeft
  <2> HIDE DEF u
  <2>2. Loose(u) /\ LooseEntries(u) = LooseEntries(t) /\ u.left # Nil /\ Fresh(Entries(u.left))
    BY <1>1, <1>4, <1>8, <2>1, NodeFields DEF Loose, InOrder, LooseEntries, NewEntry
  <2>3. OK(LeftRotate(u))
    BY <2>2, LeftRotateIs
  <2>4. Rebalance(t) = Recompute(LeftRotate(u))
    BY <1>6, <1>8 DEF u
  <2>5. OK(Rebalance(t))
    BY <1>7, <2>3, <2>4
  <2> QED
    BY <1>3, <2>5
<1>9. CASE ~(balance < -1) /\ balance > 1
  <2> DEFINE u == [t EXCEPT !.right = r]
  <2>1. /\ u \in Node(AllTrees) /\ u.right = r /\ u.left = t.left
        /\ u.elem = t.elem /\ u.item = t.item /\ u.ones = t.ones
    BY <1>1, <1>5, <1>9, NodeFields, PutRight
  <2> HIDE DEF u
  <2>2. Loose(u) /\ LooseEntries(u) = LooseEntries(t) /\ u.right # Nil /\ Fresh(Entries(u.right))
    BY <1>1, <1>5, <1>9, <2>1, NodeFields DEF Loose, InOrder, LooseEntries, NewEntry
  <2>3. OK(RightRotate(u))
    BY <2>2, RightRotateIs
  <2>4. Rebalance(t) = Recompute(RightRotate(u))
    BY <1>6, <1>9 DEF u
  <2>5. OK(Rebalance(t))
    BY <1>7, <2>3, <2>4
  <2> QED
    BY <1>3, <2>5
<1>10. CASE ~(balance < -1) /\ ~(balance > 1)
  <2>1. Rebalance(t) = Recompute(t)
    BY <1>6, <1>10
  <2> QED
    BY <1>3, <2>1, RecomputeIs
<1> QED
  BY <1>8, <1>9, <1>10

-----------------------------------------------------------------------------
(* The elements on a path differ, so that a tree is no higher than there   *)
(* are numbers for its elements, and the walks are defined on it.          *)
LEMMA EntryFields ==
  ASSUME NEW t
  PROVE  /\ Entry(t).elem = t.elem /\ Entry(t).item = t.item /\ Entry(t).ones = t.ones
         /\ Entry(t).own = OwnOnes(t)
         /\ t \in Node(AllTrees) => Entry(t) \in Entries(t)
  BY EntriesNode DEF Entry

(* A search tree is no higher than there are numbers between the bounds of *)
(* its elements, however badly it is balanced.                             *)
LEMMA FitsInto ==
  ASSUME NEW t, SearchTree(t), NEW lo \in Int, NEW hi \in Int, lo <= hi,
         \A x \in Entries(t) : lo <= x.elem /\ x.elem < hi
  PROVE  t \in TreesUpTo[hi - lo]
<1> DEFINE Within(u, a, b) == a <= b /\ SearchTree(u) /\ \A x \in Entries(u) : a <= x.elem /\ x.elem < b
           S == {u \in AllTrees : \A a, b \in Int : Within(u, a, b) => u \in TreesUpTo[b - a]}
<1>1. Nil \in S
  <2> SUFFICES ASSUME NEW a \in Int, NEW b \in Int, a <= b PROVE Nil \in TreesUpTo[b - a]
    BY AllTreesAre
  <2>1. 0 \in Nat /\ b - a \in Nat /\ 0 <= b - a
    OBVIOUS
  <2> QED
    BY <2>1, UpToMono, UpToNode
<1>2. ASSUME NEW u \in Node(AllTrees), u.left \in S, u.right \in S PROVE u \in S
  <2> SUFFICES ASSUME NEW a \in Int, NEW b \in Int, Within(u, a, b) PROVE u \in TreesUpTo[b - a]
    BY NodeFields
  <2>1. /\ SearchTree(u.left) /\ SearchTree(u.right) /\ InOrder(u)
    BY SearchNode
  <2>2. Entries(u) = {Entry(u)} \cup Entries(u.left) \cup Entries(u.right)
    BY EntriesNode
  <2>3. u.elem \in Int /\ a <= u.elem /\ u.elem < b
    BY NodeFields, EntryFields
  <2>4. \A x \in Entries(u.left) \cup Entries(u.right) : x.elem \in Int
    BY NodeFields, EntriesType DEF EntrySet
  <2>5. Within(u.left, a, u.elem)
    BY <2>1, <2>2, <2>3 DEF InOrder, Below
  <2>6. Within(u.right, u.elem + 1, b)
    BY <2>1, <2>2, <2>3, <2>4 DEF InOrder, Above
  <2>7. u.left \in TreesUpTo[u.elem - a]
    BY <1>2, <2>3, <2>5
  <2>8. u.elem + 1 \in Int
    BY <2>3
  <2>9. u.right \in TreesUpTo[b - (u.elem + 1)]
    BY <1>2, <2>6, <2>8
  <2>10. /\ b - a - 1 \in Nat /\ u.elem - a \in Nat /\ b - (u.elem + 1) \in Nat
         /\ u.elem - a <= b - a - 1 /\ b - (u.elem + 1) <= b - a - 1
         /\ (b - a - 1) + 1 = b - a
    BY <2>3
  <2>11. u.left \in TreesUpTo[b - a - 1] /\ u.right \in TreesUpTo[b - a - 1]
    BY <2>7, <2>9, <2>10, UpToMono
  <2>12. u \in Node(TreesUpTo[b - a - 1])
    BY <2>11 DEF Node
  <2> QED
    BY <2>10, <2>12, UpToNode
<1>3. AllTrees \subseteq S
  <2> HIDE DEF S
  <2> QED
    BY <1>1, <1>2, TreeInduction
<1>4. t \in AllTrees
  BY DEF SearchTree
<1> QED
  BY <1>3, <1>4

(* So a search tree of places in a vector is a tree that the walks work    *)
(* on.                                                                     *)
LEMMA InTrees ==
  ASSUME NEW t, SearchTree(t), NEW n \in Nat, n <= MaxHeight,
         \A x \in Entries(t) : x.elem \in 0 .. n - 1
  PROVE  t \in Trees
<1>1. \A x \in Entries(t) : 0 <= x.elem /\ x.elem < n
  OBVIOUS
<1>2. t \in TreesUpTo[n - 0] /\ n - 0 = n
  BY <1>1, FitsInto
<1> QED
  BY <1>2, UpToMono, HeightAssumption DEF Trees

(* A subtree is one of the trees that the walks are defined on.            *)
LEMMA Subtree ==
  ASSUME NEW t \in Trees, t # Nil, SearchTree(t)
  PROVE  /\ t \in Node(AllTrees) /\ t.left \in Trees /\ t.right \in Trees
         /\ SearchTree(t.left) /\ SearchTree(t.right) /\ InOrder(t)
         /\ Entries(t) = {Entry(t)} \cup Entries(t.left) \cup Entries(t.right)
         /\ t.elem \in Int /\ \A x \in Entries(t) : x.elem \in Int
         /\ Entry(t) \in Entries(t) /\ Entry(t).elem = t.elem
<1>1. t \in Node(AllTrees) /\ t \in Node(Trees)
  BY TreesAre
<1>2. t.left \in Trees /\ t.right \in Trees
  BY <1>1 DEF Node
<1>3. t \in AllTrees
  BY <1>1, NodeFields
<1> QED
  BY <1>1, <1>2, <1>3, SearchNode, EntriesNode, EntryFields, NodeFields, EntriesType DEF EntrySet

(* find finds the elements that are there.                                 *)
LEMMA FindHas ==
  ASSUME NEW e \in Int, NEW t \in Trees, SearchTree(t)
  PROVE  Find(t, e) <=> \E x \in Entries(t) : x.elem = e
<1> DEFINE Has(u) == \E x \in Entries(u) : x.elem = e
           S == {u \in Trees : SearchTree(u) => (Find(u, e) <=> Has(u))}
<1>1. Nil \in S
  BY FindIs, TreesAre, EntriesNil
<1>2. ASSUME NEW u \in Node(Trees), u \in Trees, u.left \in S, u.right \in S PROVE u \in S
  <2> SUFFICES ASSUME SearchTree(u) PROVE Find(u, e) <=> Has(u)
    BY <1>2
  <2>1. u # Nil
    BY NilIsNoNode
  <2>2. /\ SearchTree(u.left) /\ SearchTree(u.right) /\ InOrder(u)
        /\ Entries(u) = {Entry(u)} \cup Entries(u.left) \cup Entries(u.right)
        /\ u.elem \in Int /\ Entry(u).elem = u.elem
    BY <1>2, <2>1, Subtree
  <2>3. Has(u) <=> u.elem = e \/ Has(u.left) \/ Has(u.right)
    BY <2>2
  <2>4. (Has(u.left) => e < u.elem) /\ (Has(u.right) => e > u.elem)
    BY <2>2 DEF InOrder, Below, Above
  <2>5. Find(u, e) <=> \/ e = u.elem
                       \/ e < u.elem /\ Find(u.left, e)
                       \/ e > u.elem /\ Find(u.right, e)
    BY <1>2, <2>1, FindIs
  <2> QED
    BY <1>2, <2>2, <2>3, <2>4, <2>5
<1>3. Trees \subseteq S
  <2> HIDE DEF S
  <2> QED
    BY <1>1, <1>2, TreesInduction
<1> QED
  BY <1>3

(* insert adds an entry.                                                   *)
NewRecord(e, i, o) == [elem |-> e, item |-> i, ones |-> o, own |-> o]

(* insert of a new element: a search tree with one entry more.             *)
LEMMA InsertNewKeeps ==
  ASSUME NEW e \in Int, NEW i \in Item, NEW o \in Int,
         NEW t \in Trees, SearchTree(t), Fresh(Entries(t)), \A x \in Entries(t) : x.elem # e
  PROVE  /\ SearchTree(InsertNew(t, e, i, o)) /\ Fresh(Entries(InsertNew(t, e, i, o)))
         /\ Entries(InsertNew(t, e, i, o)) = Entries(t) \cup {NewRecord(e, i, o)}
<1> DEFINE Ins(u) == InsertNew(u, e, i, o)
           Pre(u) == SearchTree(u) /\ Fresh(Entries(u)) /\ \A x \in Entries(u) : x.elem # e
           Post(u) == /\ SearchTree(Ins(u)) /\ Fresh(Entries(Ins(u)))
                      /\ Entries(Ins(u)) = Entries(u) \cup {NewRecord(e, i, o)}
           S == {u \in Trees : Pre(u) => Post(u)}
<1> HIDE DEF Ins
<1>1. Nil \in S
  <2> DEFINE n == NewNode(e, i, o)
  <2>1. Ins(Nil) = n
    BY InsertNewIs, TreesAre DEF Ins
  <2>2. /\ n \in Node(AllTrees) /\ n.left = Nil /\ n.right = Nil
        /\ n.elem = e /\ n.item = i /\ n.ones = o /\ n.height = 0 /\ n.mysize = o
    BY AllTreesAre DEF NewNode, Node
  <2> HIDE DEF n
  <2>3. InOrder(n)
    BY <2>2, EntriesNil DEF InOrder, Below, Above
  <2>4. HeightRight(n)
    BY <2>2 DEF HeightRight, Height, Greater
  <2>5. OwnOnes(n) = o
    BY <2>2, NodeFields DEF OwnOnes, MySize
  <2>6. SearchTree(n) /\ Entries(n) = {NewRecord(e, i, o)}
    BY <2>2, <2>3, <2>4, <2>5, SearchNode, SearchNil, EntriesNode, EntriesNil DEF Entry, NewRecord
  <2>7. Fresh(Entries(n)) /\ Entries(Nil) = {}
    BY <2>6, EntriesNil DEF Fresh, NewRecord
  <2> QED
    BY <2>1, <2>6, <2>7, TreesAre
<1>2. ASSUME NEW u \in Node(Trees), u \in Trees, u.left \in S, u.right \in S PROVE u \in S
  <2> SUFFICES ASSUME Pre(u) PROVE Post(u)
    BY <1>2
  <2>1. u # Nil
    BY NilIsNoNode
  <2>2. /\ u \in Node(AllTrees) /\ SearchTree(u.left) /\ SearchTree(u.right) /\ InOrder(u)
        /\ Entries(u) = {Entry(u)} \cup Entries(u.left) \cup Entries(u.right)
        /\ u.elem \in Int /\ Entry(u) \in Entries(u) /\ Entry(u).elem = u.elem
    BY <1>2, <2>1, Subtree
  <2>3. u.elem # e
    BY <2>2
  <2>4. NewEntry(u) = Entry(u) /\ Fresh(Entries(u.left)) /\ Fresh(Entries(u.right))
    BY <2>2, SearchIsLoose
  <2>5. Pre(u.left) /\ Pre(u.right)
    BY <2>2, <2>4
  <2>6. Post(u.left) /\ Post(u.right)
    BY <1>2, <2>5
  <2>9. Ins(u) = Rebalance(IF e < u.elem THEN [u EXCEPT !.left = Ins(u.left)]
                           ELSE [u EXCEPT !.right = Ins(u.right)])
    <3>1. u \in Trees
      BY <1>2
    <3> QED
      BY <2>1, <3>1, InsertNewIs DEF Ins
  <2>7. CASE e < u.elem
    <3> DEFINE v == [u EXCEPT !.left = Ins(u.left)]
    <3>1. Ins(u) = Rebalance(v)
      BY <2>7, <2>9
    <3>2. Ins(u.left) \in AllTrees
      BY <2>6 DEF SearchTree
    <3>3. /\ v \in Node(AllTrees) /\ v.left = Ins(u.left) /\ v.right = u.right
          /\ v.elem = u.elem /\ v.item = u.item /\ v.ones = u.ones
      BY <2>2, <3>2, PutLeft
    <3> HIDE DEF v
    <3>4. Below(Entries(v.left), v.elem)
      BY <2>2, <2>6, <2>7, <3>3 DEF Below, InOrder, NewRecord
    <3>5. Loose(v) /\ Fresh(Entries(v.left)) /\ Fresh(Entries(v.right))
      BY <2>2, <2>4, <2>6, <3>3, <3>4 DEF Loose, InOrder
    <3>6. LooseEntries(v) = Entries(u) \cup {NewRecord(e, i, o)}
      BY <2>2, <2>4, <2>6, <3>3 DEF LooseEntries, NewEntry
    <3> QED
      BY <3>1, <3>5, <3>6, RebalanceIs
  <2>8. CASE ~(e < u.elem)
    <3> DEFINE v == [u EXCEPT !.right = Ins(u.right)]
    <3>1. Ins(u) = Rebalance(v)
      BY <2>8, <2>9
    <3>2. Ins(u.right) \in AllTrees
      BY <2>6 DEF SearchTree
    <3>3. /\ v \in Node(AllTrees) /\ v.right = Ins(u.right) /\ v.left = u.left
          /\ v.elem = u.elem /\ v.item = u.item /\ v.ones = u.ones
      BY <2>2, <3>2, PutRight
    <3> HIDE DEF v
    <3>4. Above(Entries(v.right), v.elem)
      BY <2>2, <2>3, <2>6, <2>8, <3>3 DEF Above, InOrder, NewRecord
    <3>5. Loose(v) /\ Fresh(Entries(v.left)) /\ Fresh(Entries(v.right))
      BY <2>2, <2>4, <2>6, <3>3, <3>4 DEF Loose, InOrder
    <3>6. LooseEntries(v) = Entries(u) \cup {NewRecord(e, i, o)}
      BY <2>2, <2>4, <2>6, <3>3 DEF LooseEntries, NewEntry
    <3> QED
      BY <3>1, <3>5, <3>6, RebalanceIs
  <2> QED
    BY <2>7, <2>8
<1>3. Trees \subseteq S
  <2> HIDE DEF S
  <2> QED
    BY <1>1, <1>2, TreesInduction
<1>4. Post(t)
  BY <1>3
<1> QED
  BY <1>4 DEF Ins

-----------------------------------------------------------------------------
(* Deletion, in the tree of SetBitVector: its entries differ in elem only, *)
(* so that a node may take over another's element.                         *)
Plain(E) == \A x \in E : x = NewRecord(x.elem, NoItem, 1)
Without(E, e) == {x \in E : x.elem # e}

(* In a tree of places the ones of a node are always up to date.           *)
LEMMA PlainFresh ==
  ASSUME NEW E, Plain(E)
  PROVE  Fresh(E)
<1> SUFFICES ASSUME NEW x \in E PROVE x.own = x.ones
  BY DEF Fresh
<1>1. x = NewRecord(x.elem, NoItem, 1)
  BY DEF Plain
<1> DEFINE r == NewRecord(x.elem, NoItem, 1)
<1>2. r.own = 1 /\ r.ones = 1
  BY DEF NewRecord
<1> HIDE DEF r
<1> QED
  BY <1>1, <1>2 DEF r

(* The root of a tree of places.                                           *)
LEMMA PlainNode ==
  ASSUME NEW t \in Node(AllTrees), Plain(Entries(t))
  PROVE  /\ t.item = NoItem /\ t.ones = 1 /\ NewEntry(t) = Entry(t)
         /\ Entry(t) = NewRecord(t.elem, NoItem, 1)
         /\ Plain(Entries(t.left)) /\ Plain(Entries(t.right))
<1>1. Entry(t) \in Entries(t) /\ Entry(t).elem = t.elem
  BY EntryFields
<1>2. Entry(t) = NewRecord(t.elem, NoItem, 1)
  BY <1>1 DEF Plain
<1> DEFINE r == NewRecord(t.elem, NoItem, 1)
<1>3. r.item = NoItem /\ r.ones = 1 /\ r.own = 1
  BY DEF NewRecord
<1>4. Entry(t).item = t.item /\ Entry(t).ones = t.ones
  BY EntryFields
<1>5. t.item = NoItem /\ t.ones = 1
  BY <1>2, <1>3, <1>4
<1>6. NewEntry(t) = r
  BY <1>5 DEF NewEntry, NewRecord
<1>7. Plain(Entries(t.left)) /\ Plain(Entries(t.right))
  BY EntriesNode DEF Plain
<1> QED
  BY <1>2, <1>5, <1>6, <1>7

(* Nothing is without: the element is on the other side.                   *)
LEMMA WithoutSides ==
  ASSUME NEW t \in Node(AllTrees), InOrder(t), NEW e \in Int
  PROVE  /\ e <= t.elem => Without(Entries(t.right), e) = Entries(t.right)
         /\ e >= t.elem => Without(Entries(t.left), e) = Entries(t.left)
         /\ Without(Entries(t), e) = Without({Entry(t)}, e) \cup Without(Entries(t.left), e)
                                       \cup Without(Entries(t.right), e)
<1>1. \A x \in Entries(t.left) \cup Entries(t.right) : x.elem \in Int
  BY NodeFields, EntriesType DEF EntrySet
<1>2. t.elem \in Int
  BY NodeFields
<1>3. e <= t.elem => Without(Entries(t.right), e) = Entries(t.right)
  BY <1>1, <1>2 DEF Without, InOrder, Above
<1>4. e >= t.elem => Without(Entries(t.left), e) = Entries(t.left)
  BY <1>1, <1>2 DEF Without, InOrder, Below
<1> QED
  BY <1>3, <1>4, EntriesNode DEF Without

(* deleteMin takes the smallest element away, and nothing else.            *)
LEMMA DeleteMinKeeps ==
  ASSUME NEW t \in Trees, t # Nil, SearchTree(t), Plain(Entries(t))
  PROVE  /\ \E x \in Entries(t) : x.elem = Min(t)
         /\ \A x \in Entries(t) : Min(t) <= x.elem
         /\ SearchTree(DeleteMin(t)) /\ Entries(DeleteMin(t)) = Without(Entries(t), Min(t))
<1> DEFINE Del(u) == DeleteMin(u)
           Pre(u) == u # Nil /\ SearchTree(u) /\ Plain(Entries(u))
           Least(u) == /\ \E x \in Entries(u) : x.elem = Min(u)
                       /\ \A x \in Entries(u) : Min(u) <= x.elem
           Post(u) == /\ Least(u)
                      /\ SearchTree(Del(u)) /\ Entries(Del(u)) = Without(Entries(u), Min(u))
           S == {u \in Trees : Pre(u) => Post(u)}
<1> HIDE DEF Del
<1>1. Nil \in S
  BY TreesAre
<1>2. ASSUME NEW u \in Node(Trees), u \in Trees, u.left \in S, u.right \in S PROVE u \in S
  <2> SUFFICES ASSUME Pre(u) PROVE Post(u)
    BY <1>2
  <2>0. u \in Trees /\ u # Nil
    BY <1>2
  <2>1. /\ u \in Node(AllTrees) /\ SearchTree(u.left) /\ SearchTree(u.right) /\ InOrder(u)
        /\ Entries(u) = {Entry(u)} \cup Entries(u.left) \cup Entries(u.right)
        /\ u.elem \in Int /\ Entry(u) \in Entries(u) /\ Entry(u).elem = u.elem
        /\ u.left \in Trees /\ \A x \in Entries(u) : x.elem \in Int
    BY <2>0, Subtree
  <2>2. /\ NewEntry(u) = Entry(u) /\ Plain(Entries(u.left)) /\ Plain(Entries(u.right))
    BY <2>1, PlainNode
  <2>3. CASE u.left = Nil
    <3>1. Min(u) = u.elem /\ Del(u) = u.right
      BY <2>0, <2>3, MinIs, DeleteMinIs DEF Del
    <3>2. Entries(u.left) = {}
      BY <2>3, EntriesNil
    <3>3. \A x \in Entries(u) : u.elem <= x.elem
      BY <2>1, <3>2 DEF InOrder, Above
    <3>4. Without(Entries(u), u.elem) = Without({Entry(u)}, u.elem) \cup Entries(u.right)
      BY <2>1, <3>2, WithoutSides
    <3>5. Without({Entry(u)}, u.elem) = {}
      BY <2>1 DEF Without
    <3> QED
      BY <2>1, <3>1, <3>3, <3>4, <3>5
  <2>4. CASE u.left # Nil
    <3> DEFINE m == Min(u.left)
               v == [u EXCEPT !.left = Del(u.left)]
    <3>1. Min(u) = m /\ Del(u) = Rebalance(v)
      BY <2>0, <2>4, MinIs, DeleteMinIs DEF Del
    <3>2. Post(u.left)
      BY <1>2, <2>1, <2>2, <2>4
    <3> HIDE DEF m
    <3>3. PICK y \in Entries(u.left) : y.elem = m
      BY <3>2 DEF m
    <3>4. m < u.elem /\ m \in Int
      BY <2>1, <3>3 DEF InOrder, Below
    <3>5. \A x \in Entries(u.left) : m <= x.elem
      BY <3>2 DEF m
    <3>6. \A x \in Entries(u) : m <= x.elem
      BY <2>1, <3>4, <3>5 DEF InOrder, Above
    <3>7. Entries(Del(u.left)) = Without(Entries(u.left), m) /\ SearchTree(Del(u.left))
      BY <3>2 DEF m
    <3>8. Del(u.left) \in AllTrees
      BY <3>7 DEF SearchTree
    <3>9. /\ v \in Node(AllTrees) /\ v.left = Del(u.left) /\ v.right = u.right
          /\ v.elem = u.elem /\ v.item = u.item /\ v.ones = u.ones
      BY <2>1, <3>8, PutLeft
    <3> HIDE DEF v
    <3>10. Entries(v.left) \subseteq Entries(u.left)
      BY <3>7, <3>9 DEF Without
    <3>11. Loose(v) /\ Fresh(Entries(v.left)) /\ Fresh(Entries(v.right))
      <4>1. Plain(Entries(v.left)) /\ Plain(Entries(v.right))
        BY <2>2, <3>9, <3>10 DEF Plain
      <4>2. InOrder(v)
        BY <2>1, <3>9, <3>10 DEF InOrder, Below
      <4> QED
        BY <2>1, <3>7, <3>9, <4>1, <4>2, PlainFresh DEF Loose
    <3>12. SearchTree(Del(u)) /\ Entries(Del(u)) = LooseEntries(v)
      BY <3>1, <3>11, RebalanceIs
    <3>13. LooseEntries(v) = {Entry(u)} \cup Without(Entries(u.left), m) \cup Entries(u.right)
      BY <2>2, <3>7, <3>9 DEF LooseEntries, NewEntry
    <3>14. Without(Entries(u), m) = {Entry(u)} \cup Without(Entries(u.left), m) \cup Entries(u.right)
      <4>1. Without({Entry(u)}, m) = {Entry(u)}
        BY <2>1, <3>4 DEF Without
      <4>2. u \in Node(AllTrees) /\ InOrder(u) /\ m \in Int /\ m <= u.elem
        BY <2>1, <3>4
      <4>3. /\ Without(Entries(u.right), m) = Entries(u.right)
            /\ Without(Entries(u), m) = Without({Entry(u)}, m) \cup Without(Entries(u.left), m)
                                          \cup Without(Entries(u.right), m)
        BY <4>2, WithoutSides
      <4> QED
        BY <4>1, <4>3
    <3>15. Least(u)
      BY <2>1, <3>1, <3>3, <3>6
    <3> QED
      BY <3>1, <3>12, <3>13, <3>14, <3>15
  <2> QED
    BY <2>3, <2>4
<1>3. Trees \subseteq S
  <2> HIDE DEF S
  <2> QED
    BY <1>1, <1>2, TreesInduction
<1>4. Post(t)
  BY <1>3
<1> QED
  BY <1>4 DEF Del

(* The deletion of a root.                                                 *)
LEMMA DeleteNodeKeeps ==
  ASSUME NEW t \in Trees, t # Nil, SearchTree(t), Plain(Entries(t))
  PROVE  /\ SearchTree(DeleteNode(t)) /\ Entries(DeleteNode(t)) = Without(Entries(t), t.elem)
<1>1. /\ t \in Node(AllTrees) /\ SearchTree(t.left) /\ SearchTree(t.right) /\ InOrder(t)
      /\ Entries(t) = {Entry(t)} \cup Entries(t.left) \cup Entries(t.right)
      /\ t.elem \in Int /\ Entry(t) \in Entries(t) /\ Entry(t).elem = t.elem
      /\ t.right \in Trees /\ \A x \in Entries(t) : x.elem \in Int
  BY Subtree
<1>2. /\ t.item = NoItem /\ t.ones = 1 /\ Plain(Entries(t.left)) /\ Plain(Entries(t.right))
  BY <1>1, PlainNode
<1>3. Without(Entries(t), t.elem) = Entries(t.left) \cup Entries(t.right)
  <2>1. Without({Entry(t)}, t.elem) = {}
    BY <1>1 DEF Without
  <2>2. t.elem <= t.elem /\ t.elem >= t.elem
    BY <1>1
  <2>3. /\ Without(Entries(t.right), t.elem) = Entries(t.right)
        /\ Without(Entries(t.left), t.elem) = Entries(t.left)
        /\ Without(Entries(t), t.elem)
             = Without({Entry(t)}, t.elem) \cup Without(Entries(t.left), t.elem)
                 \cup Without(Entries(t.right), t.elem)
    <3>1. t \in Node(AllTrees) /\ InOrder(t) /\ t.elem \in Int
      BY <1>1
    <3> QED
      BY <2>2, <3>1, WithoutSides
  <2> QED
    BY <2>1, <2>3
<1>4. CASE t.left = Nil
  BY <1>1, <1>3, <1>4, EntriesNil DEF DeleteNode
<1>5. CASE t.left # Nil /\ t.right = Nil
  BY <1>1, <1>3, <1>5, EntriesNil DEF DeleteNode
<1>6. CASE t.left # Nil /\ t.right # Nil
  <2> DEFINE m == Min(t.right)
             d == DeleteMin(t.right)
             v == [t EXCEPT !.elem = m, !.right = d]
  <2>1. /\ \E x \in Entries(t.right) : x.elem = m
        /\ \A x \in Entries(t.right) : m <= x.elem
        /\ SearchTree(d) /\ Entries(d) = Without(Entries(t.right), m)
    BY <1>1, <1>2, <1>6, DeleteMinKeeps
  <2>2. DeleteNode(t) = Recompute(v)
    BY <1>6 DEF DeleteNode
  <2> HIDE DEF m, d
  <2>3. PICK y \in Entries(t.right) : y.elem = m
    BY <2>1
  <2>4. m \in Int /\ t.elem < m
    BY <1>1, <2>3 DEF InOrder, Above
  <2>5. d \in AllTrees
    BY <2>1 DEF SearchTree
  <2>6. /\ v \in Node(AllTrees) /\ v.left = t.left /\ v.right = d
        /\ v.elem = m /\ v.item = t.item /\ v.ones = t.ones
    BY <1>1, <2>4, <2>5 DEF Node
  <2> HIDE DEF v
  <2>7. Loose(v)
    <3>1. Below(Entries(t.left), m)
      BY <1>1, <2>4 DEF InOrder, Below
    <3>2. Above(Entries(d), m)
      BY <1>1, <2>1, <2>4 DEF Above, Without
    <3> QED
      BY <1>1, <2>1, <2>6, <3>1, <3>2 DEF Loose, InOrder
  <2>8. LooseEntries(v) = Entries(t.left) \cup Entries(t.right)
    <3>1. NewEntry(v) = y
      BY <1>2, <2>3, <2>6 DEF NewEntry, Plain, NewRecord
    <3>2. Entries(t.right) \subseteq {y} \cup Without(Entries(t.right), m)
      BY <1>2, <2>3 DEF Plain, Without
    <3> QED
      BY <2>1, <2>3, <2>6, <3>1, <3>2 DEF LooseEntries, Without
  <2> QED
    BY <1>3, <2>2, <2>7, <2>8, RecomputeIs
<1>7. SearchTree(Nil)
  BY SearchNil
<1> QED
  BY <1>4, <1>5, <1>6

(* deleteElem takes an entry away.                                         *)
LEMMA DeleteFromKeeps ==
  ASSUME NEW e \in Int, NEW t \in Trees, SearchTree(t), Plain(Entries(t))
  PROVE  /\ SearchTree(DeleteFrom(t, e)) /\ Entries(DeleteFrom(t, e)) = Without(Entries(t), e)
<1> DEFINE Del(u) == DeleteFrom(u, e)
           Pre(u) == SearchTree(u) /\ Plain(Entries(u))
           Post(u) == SearchTree(Del(u)) /\ Entries(Del(u)) = Without(Entries(u), e)
           S == {u \in Trees : Pre(u) => Post(u)}
<1> HIDE DEF Del
<1>1. Nil \in S
  <2>1. Del(Nil) = Nil
    BY DeleteFromIs, TreesAre DEF Del
  <2>2. Without(Entries(Nil), e) = {} /\ Entries(Nil) = {}
    BY EntriesNil DEF Without
  <2> QED
    BY <2>1, <2>2, TreesAre
<1>2. ASSUME NEW u \in Node(Trees), u \in Trees, u.left \in S, u.right \in S PROVE u \in S
  <2> SUFFICES ASSUME Pre(u) PROVE Post(u)
    BY <1>2
  <2>0. u \in Trees /\ u # Nil
    BY <1>2, NilIsNoNode
  <2>1. /\ u \in Node(AllTrees) /\ SearchTree(u.left) /\ SearchTree(u.right) /\ InOrder(u)
        /\ Entries(u) = {Entry(u)} \cup Entries(u.left) \cup Entries(u.right)
        /\ u.elem \in Int /\ Entry(u) \in Entries(u) /\ Entry(u).elem = u.elem
    BY <2>0, Subtree
  <2>2. /\ NewEntry(u) = Entry(u) /\ Plain(Entries(u.left)) /\ Plain(Entries(u.right))
    BY <2>1, PlainNode
  <2>3. Post(u.left) /\ Post(u.right)
    BY <1>2, <2>1, <2>2
  <2>4. Del(u) = IF e = u.elem THEN DeleteNode(u)
                 ELSE Rebalance(IF e < u.elem THEN [u EXCEPT !.left = Del(u.left)]
                                ELSE [u EXCEPT !.right = Del(u.right)])
    BY <2>0, DeleteFromIs DEF Del
  <2>5. CASE e = u.elem
    BY <2>0, <2>4, <2>5, DeleteNodeKeeps
  <2>6. CASE e < u.elem
    <3> DEFINE v == [u EXCEPT !.left = Del(u.left)]
    <3>1. Del(u) = Rebalance(v)
      <4>1. e # u.elem
        BY <2>1, <2>6
      <4> QED
        BY <2>4, <2>6, <4>1
    <3>2. Del(u.left) \in AllTrees
      BY <2>3 DEF SearchTree
    <3>3. /\ v \in Node(AllTrees) /\ v.left = Del(u.left) /\ v.right = u.right
          /\ v.elem = u.elem /\ v.item = u.item /\ v.ones = u.ones
      BY <2>1, <3>2, PutLeft
    <3> HIDE DEF v
    <3>4. Entries(v.left) \subseteq Entries(u.left)
      BY <2>3, <3>3 DEF Without
    <3>5. Loose(v) /\ Fresh(Entries(v.left)) /\ Fresh(Entries(v.right))
      <4>1. Plain(Entries(v.left)) /\ Plain(Entries(v.right))
        BY <2>2, <3>3, <3>4 DEF Plain
      <4>2. InOrder(v)
        BY <2>1, <3>3, <3>4 DEF InOrder, Below
      <4> QED
        BY <2>1, <2>3, <3>3, <4>1, <4>2, PlainFresh DEF Loose
    <3>6. SearchTree(Del(u)) /\ Entries(Del(u)) = LooseEntries(v)
      BY <3>1, <3>5, RebalanceIs
    <3>7. LooseEntries(v) = {Entry(u)} \cup Without(Entries(u.left), e) \cup Entries(u.right)
      BY <2>2, <2>3, <3>3 DEF LooseEntries, NewEntry
    <3>8. Without(Entries(u), e) = {Entry(u)} \cup Without(Entries(u.left), e) \cup Entries(u.right)
      <4>1. Without({Entry(u)}, e) = {Entry(u)} /\ e <= u.elem
        BY <2>1, <2>6 DEF Without
      <4> QED
        BY <2>1, <4>1, WithoutSides
    <3> QED
      BY <3>6, <3>7, <3>8
  <2>7. CASE e > u.elem
    <3> DEFINE v == [u EXCEPT !.right = Del(u.right)]
    <3>1. Del(u) = Rebalance(v)
      <4>1. e # u.elem /\ ~(e < u.elem)
        BY <2>1, <2>7
      <4> QED
        BY <2>4, <4>1
    <3>2. Del(u.right) \in AllTrees
      BY <2>3 DEF SearchTree
    <3>3. /\ v \in Node(AllTrees) /\ v.right = Del(u.right) /\ v.left = u.left
          /\ v.elem = u.elem /\ v.item = u.item /\ v.ones = u.ones
      BY <2>1, <3>2, PutRight
    <3> HIDE DEF v
    <3>4. Entries(v.right) \subseteq Entries(u.right)
      BY <2>3, <3>3 DEF Without
    <3>5. Loose(v) /\ Fresh(Entries(v.left)) /\ Fresh(Entries(v.right))
      <4>1. Plain(Entries(v.left)) /\ Plain(Entries(v.right))
        BY <2>2, <3>3, <3>4 DEF Plain
      <4>2. InOrder(v)
        BY <2>1, <3>3, <3>4 DEF InOrder, Above
      <4> QED
        BY <2>1, <2>3, <3>3, <4>1, <4>2, PlainFresh DEF Loose
    <3>6. SearchTree(Del(u)) /\ Entries(Del(u)) = LooseEntries(v)
      BY <3>1, <3>5, RebalanceIs
    <3>7. LooseEntries(v) = {Entry(u)} \cup Entries(u.left) \cup Without(Entries(u.right), e)
      BY <2>2, <2>3, <3>3 DEF LooseEntries, NewEntry
    <3>8. Without(Entries(u), e) = {Entry(u)} \cup Entries(u.left) \cup Without(Entries(u.right), e)
      <4>1. Without({Entry(u)}, e) = {Entry(u)} /\ e >= u.elem
        BY <2>1, <2>7 DEF Without
      <4> QED
        BY <2>1, <4>1, WithoutSides
    <3> QED
      BY <3>6, <3>7, <3>8
  <2> QED
    BY <2>1, <2>5, <2>6, <2>7
<1>3. Trees \subseteq S
  <2> HIDE DEF S
  <2> QED
    BY <1>1, <1>2, TreesInduction
<1>4. Post(t)
  BY <1>3
<1> QED
  BY <1>4 DEF Del

-----------------------------------------------------------------------------
(* Changes that leave the shape of the tree: modify of AdvancedAVLTree,    *)
(* and what BlockBitVector does to a node and to the path down to it.      *)
ElemsOf(E) == {x.elem : x \in E}

(* A node whose subtrees have kept their elements and heights is still the *)
(* root of a search tree.                                                  *)
LEMMA SameShape ==
  ASSUME NEW u \in Node(AllTrees), SearchTree(u),
         NEW v \in Node(AllTrees), v.elem = u.elem, v.height = u.height,
         SearchTree(v.left), SearchTree(v.right),
         Height(v.left) = Height(u.left), Height(v.right) = Height(u.right),
         ElemsOf(Entries(v.left)) = ElemsOf(Entries(u.left)),
         ElemsOf(Entries(v.right)) = ElemsOf(Entries(u.right))
  PROVE  SearchTree(v) /\ Height(v) = Height(u)
<1>1. InOrder(u) /\ HeightRight(u)
  BY SearchNode
<1>2. Below(Entries(v.left), v.elem)
  BY <1>1 DEF InOrder, Below, ElemsOf
<1>3. Above(Entries(v.right), v.elem)
  BY <1>1 DEF InOrder, Above, ElemsOf
<1>4. HeightRight(v)
  BY <1>1 DEF HeightRight
<1>5. Height(v) = Height(u)
  BY NodeFields DEF Height
<1> QED
  BY <1>2, <1>3, <1>4, <1>5, SearchNode DEF InOrder

(* An element has a range of n places, up to the next.                     *)
Spaced(E, n) == \A x, y \in E : x.elem < y.elem => x.elem + n <= y.elem
Covers(x, n, e) == x.elem <= e /\ e < x.elem + n

(* Where an element is covered, below a node.                              *)
LEMMA SpacedNode ==
  ASSUME NEW n \in Nat, NEW t \in Trees, t # Nil, SearchTree(t), Spaced(Entries(t), n), NEW e \in Int
  PROVE  /\ Spaced(Entries(t.left), n) /\ Spaced(Entries(t.right), n)
         /\ \A x \in Entries(t.left) : Covers(x, n, e) => e < t.elem
         /\ \A x \in Entries(t.right) : Covers(x, n, e) => t.elem + n <= e
<1>1. /\ InOrder(t) /\ Entries(t) = {Entry(t)} \cup Entries(t.left) \cup Entries(t.right)
      /\ t.elem \in Int /\ \A x \in Entries(t) : x.elem \in Int
      /\ Entry(t) \in Entries(t) /\ Entry(t).elem = t.elem
  BY Subtree
<1>2. Spaced(Entries(t.left), n) /\ Spaced(Entries(t.right), n)
  BY <1>1 DEF Spaced
<1>3. ASSUME NEW x \in Entries(t.left), Covers(x, n, e) PROVE e < t.elem
  <2>1. x.elem < t.elem /\ x.elem \in Int /\ x \in Entries(t)
    BY <1>1 DEF InOrder, Below
  <2>2. x.elem + n <= t.elem
    BY <1>1, <2>1 DEF Spaced
  <2> QED
    BY <1>1, <1>3, <2>1, <2>2 DEF Covers
<1>4. ASSUME NEW x \in Entries(t.right), Covers(x, n, e) PROVE t.elem + n <= e
  <2>1. t.elem < x.elem /\ x.elem \in Int /\ x \in Entries(t)
    BY <1>1 DEF InOrder, Above
  <2>2. t.elem + n <= x.elem
    BY <1>1, <2>1 DEF Spaced
  <2> QED
    BY <1>1, <1>4, <2>1, <2>2 DEF Covers
<1> QED
  BY <1>2, <1>3, <1>4

(* The words of AdvancedAVLTree.                                           *)
WordEntry(x) == /\ x.item.data \subseteq 0 .. IntBit - 1
                /\ x.ones = GetOnes(x.item.data) /\ x.own = x.ones
Words(E) == Spaced(E, IntBit) /\ \A x \in E : WordEntry(x)
HasBit(E, e) == \E x \in E : e - x.elem \in x.item.data

(* Where a bit is set, below a node.                                       *)
LEMMA WordsNode ==
  ASSUME NEW t \in Trees, t # Nil, SearchTree(t), Words(Entries(t)), NEW e \in Int
  PROVE  /\ Words(Entries(t.left)) /\ Words(Entries(t.right))
         /\ t.item.data \subseteq 0 .. IntBit - 1
         /\ HasBit(Entries(t), e)
              <=> HasBit(Entries(t.left), e) \/ e - t.elem \in t.item.data \/ HasBit(Entries(t.right), e)
         /\ HasBit(Entries(t.left), e) => e < t.elem
         /\ HasBit(Entries(t.right), e) => t.elem + IntBit <= e
<1>0. IntBit \in Nat
  BY IntBitAssumption
<1>1. /\ Entries(t) = {Entry(t)} \cup Entries(t.left) \cup Entries(t.right)
      /\ t.elem \in Int /\ \A x \in Entries(t) : x.elem \in Int
      /\ Entry(t) \in Entries(t) /\ Entry(t).elem = t.elem /\ Entry(t).item = t.item
  BY Subtree, EntryFields
<1>2. /\ Spaced(Entries(t.left), IntBit) /\ Spaced(Entries(t.right), IntBit)
      /\ \A x \in Entries(t.left) : Covers(x, IntBit, e) => e < t.elem
      /\ \A x \in Entries(t.right) : Covers(x, IntBit, e) => t.elem + IntBit <= e
  BY <1>0, SpacedNode DEF Words
<1>3. Words(Entries(t.left)) /\ Words(Entries(t.right))
  BY <1>1, <1>2 DEF Words
<1>4. t.item.data \subseteq 0 .. IntBit - 1
  BY <1>1 DEF Words, WordEntry
<1>5. ASSUME NEW x \in Entries(t), e - x.elem \in x.item.data PROVE Covers(x, IntBit, e)
  <2>1. e - x.elem \in 0 .. IntBit - 1 /\ x.elem \in Int
    BY <1>1, <1>5 DEF Words, WordEntry
  <2> QED
    BY <1>0, <2>1 DEF Covers
<1>6. /\ HasBit(Entries(t.left), e) => e < t.elem
      /\ HasBit(Entries(t.right), e) => t.elem + IntBit <= e
  BY <1>1, <1>2, <1>5 DEF HasBit
<1>7. HasBit(Entries(t), e)
        <=> HasBit(Entries(t.left), e) \/ e - t.elem \in t.item.data \/ HasBit(Entries(t.right), e)
  BY <1>1 DEF HasBit
<1> QED
  BY <1>3, <1>4, <1>6, <1>7

(* find, on the tree of words, tells which bits are set.                   *)
LEMMA FindBitHas ==
  ASSUME NEW e \in Int, NEW t \in Trees, SearchTree(t), Words(Entries(t))
  PROVE  FindBit(t, e) <=> HasBit(Entries(t), e)
<1> DEFINE Pre(u) == SearchTree(u) /\ Words(Entries(u))
           S == {u \in Trees : Pre(u) => (FindBit(u, e) <=> HasBit(Entries(u), e))}
<1>0. IntBit \in Nat /\ IntBit > 0
  BY IntBitAssumption
<1>1. Nil \in S
  <2>1. FindBit(Nil, e) = FALSE
    BY FindBitIs, TreesAre
  <2> QED
    BY <2>1, TreesAre, EntriesNil DEF HasBit
<1>2. ASSUME NEW u \in Node(Trees), u \in Trees, u.left \in S, u.right \in S PROVE u \in S
  <2> SUFFICES ASSUME Pre(u) PROVE FindBit(u, e) <=> HasBit(Entries(u), e)
    BY <1>2
  <2>0. u \in Trees /\ u # Nil
    BY <1>2, NilIsNoNode
  <2>1. SearchTree(u.left) /\ SearchTree(u.right) /\ u.elem \in Int
    BY <2>0, Subtree
  <2>2. /\ Words(Entries(u.left)) /\ Words(Entries(u.right))
        /\ u.item.data \subseteq 0 .. IntBit - 1
        /\ HasBit(Entries(u), e)
             <=> HasBit(Entries(u.left), e) \/ e - u.elem \in u.item.data \/ HasBit(Entries(u.right), e)
        /\ HasBit(Entries(u.left), e) => e < u.elem
        /\ HasBit(Entries(u.right), e) => u.elem + IntBit <= e
    BY <2>0, WordsNode
  <2>3. /\ FindBit(u.left, e) <=> HasBit(Entries(u.left), e)
        /\ FindBit(u.right, e) <=> HasBit(Entries(u.right), e)
    BY <1>2, <2>1, <2>2
  <2>4. FindBit(u, e) <=> \/ e < u.elem /\ FindBit(u.left, e)
                          \/ e \in u.elem .. u.elem + IntBit - 1 /\ e - u.elem \in u.item.data
                          \/ e > u.elem + IntBit - 1 /\ FindBit(u.right, e)
    BY <2>0, FindBitIs
  <2>5. e - u.elem \in u.item.data => e \in u.elem .. u.elem + IntBit - 1
    <3>1. e - u.elem \in 0 .. IntBit - 1 => e \in u.elem .. u.elem + IntBit - 1
      BY <1>0, <2>1
    <3> QED
      BY <2>2, <3>1
  <2>6. u.elem + IntBit <= e => e > u.elem + IntBit - 1
    BY <1>0, <2>1
  <2> QED
    BY <2>2, <2>3, <2>4, <2>5, <2>6
<1>3. Trees \subseteq S
  <2> HIDE DEF S
  <2> QED
    BY <1>1, <1>2, TreesInduction
<1> QED
  BY <1>3

(* setOne: an entry with a bit of its word put to val.                     *)
NewData(data, k, val) == IF val = 1 THEN data \cup {k} ELSE data \ {k}
WithData(x, data) == [elem |-> x.elem, item |-> [x.item EXCEPT !.data = data],
                      ones |-> GetOnes(data), own |-> GetOnes(data)]
PutBit(x, e, val) == IF Covers(x, IntBit, e) THEN WithData(x, NewData(x.item.data, e - x.elem, val)) ELSE x
PutBits(E, e, val) == {PutBit(x, e, val) : x \in E}

(* A node with its mysize computed again.                                  *)
LEMMA WithMySizeFields ==
  ASSUME NEW t \in Node(AllTrees)
  PROVE  LET u == WithMySize(t)
         IN  /\ u \in Node(AllTrees) /\ u.left = t.left /\ u.right = t.right
             /\ u.elem = t.elem /\ u.item = t.item /\ u.ones = t.ones /\ u.height = t.height
             /\ OwnOnes(u) = t.ones
<1> DEFINE u == WithMySize(t)
<1>1. t.left \in AllTrees /\ t.right \in AllTrees /\ t.ones \in Int
  BY NodeFields
<1>2. MySize(t.left) \in Int /\ MySize(t.right) \in Int
  BY <1>1, TreeNumbers
<1>3. t.ones + MySize(t.left) + MySize(t.right) \in Int
  BY <1>1, <1>2
<1>4. /\ u \in Node(AllTrees) /\ u.left = t.left /\ u.right = t.right
      /\ u.elem = t.elem /\ u.item = t.item /\ u.ones = t.ones /\ u.height = t.height
      /\ u.mysize = t.ones + MySize(t.left) + MySize(t.right)
  BY <1>3 DEF WithMySize, Node
<1> HIDE DEF u
<1>5. MySize(u) = t.ones + MySize(t.left) + MySize(t.right)
  BY <1>4, NodeFields DEF MySize
<1>6. OwnOnes(u) = t.ones
  BY <1>1, <1>2, <1>4, <1>5 DEF OwnOnes
<1> QED
  BY <1>4, <1>6 DEF u

(* A changed bit leaves the elements as they are.                          *)
LEMMA PutBitElems ==
  ASSUME NEW E, NEW e, NEW val
  PROVE  /\ \A x : PutBit(x, e, val).elem = x.elem
         /\ ElemsOf(PutBits(E, e, val)) = ElemsOf(E)
<1>1. \A x : PutBit(x, e, val).elem = x.elem
  BY DEF PutBit, WithData
<1> HIDE DEF PutBit
<1> QED
  BY <1>1 DEF PutBits, ElemsOf

(* It leaves the words alone that do not cover it.                         *)
LEMMA PutBitsSame ==
  ASSUME NEW E, NEW e, NEW val, \A x \in E : ~Covers(x, IntBit, e)
  PROVE  PutBits(E, e, val) = E
  BY DEF PutBits, PutBit

-----------------------------------------------------------------------------
(* What a change of the word at the root makes of the tree.                *)
LEMMA SetDataIs ==
  ASSUME NEW u \in Node(AllTrees), SearchTree(u), NEW d, d \subseteq 0 .. IntBit - 1
  PROVE  LET m == WithMySize(SetData(u, d))
         IN  /\ m \in Node(AllTrees) /\ SearchTree(m) /\ Height(m) = Height(u)
             /\ Entries(m) = {WithData(Entry(u), d)} \cup Entries(u.left) \cup Entries(u.right)
<1> DEFINE v == SetData(u, d)
           m == WithMySize(v)
<1>0. d \subseteq Nat /\ GetOnes(d) \in Int
  <2>1. IsFiniteSet(0 .. IntBit - 1)
    BY IntBitAssumption, FS_Interval
  <2>2. IsFiniteSet(d)
    BY <2>1, FS_Subset
  <2>3. Cardinality(d) \in Nat
    BY <2>2, FS_CardinalityType
  <2> QED
    BY <2>3, IntBitAssumption DEF GetOnes
<1>1. [u.item EXCEPT !.data = d] \in Item
  BY <1>0, NodeFields DEF Item
<1>2. /\ v \in Node(AllTrees) /\ v.left = u.left /\ v.right = u.right /\ v.elem = u.elem
      /\ v.item = [u.item EXCEPT !.data = d] /\ v.ones = GetOnes(d) /\ v.height = u.height
  BY <1>0, <1>1 DEF SetData, Node
<1> HIDE DEF v
<1>3. /\ m \in Node(AllTrees) /\ m.left = u.left /\ m.right = u.right /\ m.elem = u.elem
      /\ m.item = [u.item EXCEPT !.data = d] /\ m.ones = GetOnes(d) /\ m.height = u.height
      /\ OwnOnes(m) = GetOnes(d)
  BY <1>2, WithMySizeFields
<1> HIDE DEF m
<1>4. SearchTree(u.left) /\ SearchTree(u.right)
  BY SearchNode
<1>5. SearchTree(m) /\ Height(m) = Height(u)
  BY <1>3, <1>4, SameShape
<1>6. Entry(m) = WithData(Entry(u), d)
  <2>1. Entry(u).elem = u.elem /\ Entry(u).item = u.item
    BY EntryFields
  <2> QED
    BY <1>3, <2>1 DEF Entry, WithData
<1>7. Entries(m) = {WithData(Entry(u), d)} \cup Entries(u.left) \cup Entries(u.right)
  BY <1>3, <1>6, EntriesNode
<1> QED
  BY <1>3, <1>5, <1>7 DEF m, v

(* modify, on the tree of words, changes one bit of one word.              *)
LEMMA ModifyBitKeeps ==
  ASSUME NEW e \in Int, NEW val, NEW t \in Trees, SearchTree(t), Words(Entries(t))
  PROVE  /\ SearchTree(ModifyBit(t, e, val)) /\ Height(ModifyBit(t, e, val)) = Height(t)
         /\ Entries(ModifyBit(t, e, val)) = PutBits(Entries(t), e, val)
<1> DEFINE Mod(u) == ModifyBit(u, e, val)
           Pre(u) == SearchTree(u) /\ Words(Entries(u))
           Post(u) == /\ SearchTree(Mod(u)) /\ Height(Mod(u)) = Height(u)
                      /\ Entries(Mod(u)) = PutBits(Entries(u), e, val)
           S == {u \in Trees : Pre(u) => Post(u)}
<1> HIDE DEF Mod
<1>0. IntBit \in Nat /\ IntBit > 0
  BY IntBitAssumption
<1>1. Nil \in S
  <2>1. Mod(Nil) = Nil
    BY ModifyBitIs, TreesAre DEF Mod
  <2>2. PutBits(Entries(Nil), e, val) = {} /\ Entries(Nil) = {}
    BY EntriesNil DEF PutBits
  <2> QED
    BY <2>1, <2>2, TreesAre
<1>2. ASSUME NEW u \in Node(Trees), u \in Trees, u.left \in S, u.right \in S PROVE u \in S
  <2> SUFFICES ASSUME Pre(u) PROVE Post(u)
    BY <1>2
  <2>0. u \in Trees /\ u # Nil
    BY <1>2, NilIsNoNode
  <2>1. /\ u \in Node(AllTrees) /\ SearchTree(u.left) /\ SearchTree(u.right)
        /\ Entries(u) = {Entry(u)} \cup Entries(u.left) \cup Entries(u.right)
        /\ u.elem \in Int /\ Entry(u) \in Entries(u) /\ Entry(u).elem = u.elem
    BY <2>0, Subtree
  <2>2. /\ Words(Entries(u.left)) /\ Words(Entries(u.right))
        /\ u.item.data \subseteq 0 .. IntBit - 1
    BY <2>0, WordsNode
  <2>3. /\ \A x \in Entries(u.left) : Covers(x, IntBit, e) => e < u.elem
        /\ \A x \in Entries(u.right) : Covers(x, IntBit, e) => u.elem + IntBit <= e
    BY <1>0, <2>0, SpacedNode DEF Words
  <2>4. Post(u.left) /\ Post(u.right)
    BY <1>2, <2>1, <2>2
  <2>5. PutBits(Entries(u), e, val) = {PutBit(Entry(u), e, val)} \cup PutBits(Entries(u.left), e, val)
                                        \cup PutBits(Entries(u.right), e, val)
    BY <2>1 DEF PutBits
  <2>6. Entry(u) = NewEntry(u)
    <3>1. Entry(u).own = Entry(u).ones
      BY <2>1 DEF Words, WordEntry
    <3> QED
      BY <3>1 DEF Entry, NewEntry
  <2>7. Mod(u) = WithMySize(
           IF e < u.elem THEN [u EXCEPT !.left = Mod(u.left)]
           ELSE IF e <= u.elem + IntBit - 1
           THEN SetData(u, NewData(u.item.data, e - u.elem, val))
           ELSE [u EXCEPT !.right = Mod(u.right)])
    BY <2>0, ModifyBitIs DEF Mod, NewData
  <2>8. CASE e < u.elem
    <3> DEFINE v == [u EXCEPT !.left = Mod(u.left)]
               m == WithMySize(v)
    <3>1. Mod(u) = m
      BY <2>7, <2>8
    <3>2. /\ v \in Node(AllTrees) /\ v.left = Mod(u.left) /\ v.right = u.right /\ v.height = u.height
          /\ v.elem = u.elem /\ v.item = u.item /\ v.ones = u.ones
      <4>1. Mod(u.left) \in AllTrees
        BY <2>4 DEF SearchTree
      <4> QED
        BY <2>1, <4>1 DEF Node
    <3> HIDE DEF v
    <3>3. /\ m \in Node(AllTrees) /\ m.left = Mod(u.left) /\ m.right = u.right /\ m.height = u.height
          /\ m.elem = u.elem /\ m.item = u.item /\ m.ones = u.ones /\ OwnOnes(m) = u.ones
      BY <3>2, WithMySizeFields
    <3> HIDE DEF m
    <3>4. ElemsOf(Entries(m.left)) = ElemsOf(Entries(u.left))
      BY <2>4, <3>3, PutBitElems
    <3>5. SearchTree(m) /\ Height(m) = Height(u)
      BY <2>1, <2>4, <3>3, <3>4, SameShape
    <3>6. Entry(m) = Entry(u)
      BY <2>6, <3>3 DEF Entry, NewEntry
    <3>7. PutBit(Entry(u), e, val) = Entry(u)
      BY <2>1, <2>8 DEF PutBit, Covers
    <3>8. PutBits(Entries(u.right), e, val) = Entries(u.right)
      <4>1. ~(u.elem + IntBit <= e)
        BY <1>0, <2>1, <2>8
      <4> QED
        BY <2>3, <4>1, PutBitsSame
    <3>9. Entries(m) = PutBits(Entries(u), e, val)
      BY <2>4, <2>5, <3>3, <3>6, <3>7, <3>8, EntriesNode
    <3> QED
      BY <3>1, <3>5, <3>9
  <2>9. CASE e >= u.elem /\ e <= u.elem + IntBit - 1
    <3> DEFINE d == NewData(u.item.data, e - u.elem, val)
               m == WithMySize(SetData(u, d))
    <3>1. ~(e < u.elem) /\ e - u.elem \in 0 .. IntBit - 1 /\ ~(u.elem + IntBit <= e)
          /\ e < u.elem + IntBit
      BY <1>0, <2>1, <2>9
    <3>2. Mod(u) = m
      BY <2>7, <2>9, <3>1
    <3>3. d \subseteq 0 .. IntBit - 1
      BY <2>2, <3>1 DEF NewData
    <3>4. /\ SearchTree(m) /\ Height(m) = Height(u)
          /\ Entries(m) = {WithData(Entry(u), d)} \cup Entries(u.left) \cup Entries(u.right)
      <4> HIDE DEF d
      <4> QED
        BY <2>1, <3>3, SetDataIs
    <3>5. PutBit(Entry(u), e, val) = WithData(Entry(u), d)
      BY <2>1, <2>9, <3>1, EntryFields DEF PutBit, Covers
    <3>6. /\ PutBits(Entries(u.left), e, val) = Entries(u.left)
          /\ PutBits(Entries(u.right), e, val) = Entries(u.right)
      BY <2>3, <3>1, PutBitsSame
    <3> HIDE DEF m, d
    <3> QED
      BY <2>5, <3>2, <3>4, <3>5, <3>6
  <2>10. CASE e > u.elem + IntBit - 1
    <3> DEFINE v == [u EXCEPT !.right = Mod(u.right)]
               m == WithMySize(v)
    <3>0. ~(e < u.elem) /\ ~(e <= u.elem + IntBit - 1) /\ ~(e < u.elem + IntBit)
      BY <1>0, <2>1, <2>10
    <3>1. Mod(u) = m
      BY <2>7, <3>0
    <3>2. /\ v \in Node(AllTrees) /\ v.left = u.left /\ v.right = Mod(u.right) /\ v.height = u.height
          /\ v.elem = u.elem /\ v.item = u.item /\ v.ones = u.ones
      <4>1. Mod(u.right) \in AllTrees
        BY <2>4 DEF SearchTree
      <4> QED
        BY <2>1, <4>1 DEF Node
    <3> HIDE DEF v
    <3>3. /\ m \in Node(AllTrees) /\ m.left = u.left /\ m.right = Mod(u.right) /\ m.height = u.height
          /\ m.elem = u.elem /\ m.item = u.item /\ m.ones = u.ones /\ OwnOnes(m) = u.ones
      BY <3>2, WithMySizeFields
    <3> HIDE DEF m
    <3>4. ElemsOf(Entries(m.right)) = ElemsOf(Entries(u.right))
      BY <2>4, <3>3, PutBitElems
    <3>5. SearchTree(m) /\ Height(m) = Height(u)
      BY <2>1, <2>4, <3>3, <3>4, SameShape
    <3>6. Entry(m) = Entry(u)
      BY <2>6, <3>3 DEF Entry, NewEntry
    <3>7. PutBit(Entry(u), e, val) = Entry(u)
      BY <2>1, <3>0 DEF PutBit, Covers
    <3>8. PutBits(Entries(u.left), e, val) = Entries(u.left)
      BY <2>3, <3>0, PutBitsSame
    <3>9. Entries(m) = PutBits(Entries(u), e, val)
      BY <2>4, <2>5, <3>3, <3>6, <3>7, <3>8, EntriesNode
    <3> QED
      BY <3>1, <3>5, <3>9
  <2>11. e < u.elem \/ (e >= u.elem /\ e <= u.elem + IntBit - 1) \/ e > u.elem + IntBit - 1
    BY <1>0, <2>1
  <2> QED
    BY <2>8, <2>9, <2>10, <2>11
<1>3. Trees \subseteq S
  <2> HIDE DEF S
  <2> QED
    BY <1>1, <1>2, TreesInduction
<1>4. Post(t)
  BY <1>3
<1> QED
  BY <1>4 DEF Mod
-----------------------------------------------------------------------------
(* The blocks of BlockAVLTree, each of n bits.                             *)
Blocks(E, n) == Spaced(E, n) /\ \A x \in E : x.item.bits = n

(* Where a bit is held, below a node.                                      *)
LEMMA BlocksNode ==
  ASSUME NEW n \in Nat, NEW t \in Trees, t # Nil, SearchTree(t), Blocks(Entries(t), n), NEW e \in Int
  PROVE  /\ Blocks(Entries(t.left), n) /\ Blocks(Entries(t.right), n)
         /\ \A x \in Entries(t.left) : Covers(x, n, e) => e < t.elem
         /\ \A x \in Entries(t.right) : Covers(x, n, e) => t.elem + n <= e
         /\ Holds(t, e) <=> t.elem <= e /\ e < t.elem + n
         /\ Holds(t, e) <=> Covers(Entry(t), n, e)
         /\ t.item.bits = n
<1>1. /\ Entries(t) = {Entry(t)} \cup Entries(t.left) \cup Entries(t.right)
      /\ t.elem \in Int /\ Entry(t) \in Entries(t) /\ Entry(t).elem = t.elem /\ Entry(t).item = t.item
  BY Subtree, EntryFields
<1>2. /\ Spaced(Entries(t.left), n) /\ Spaced(Entries(t.right), n)
      /\ \A x \in Entries(t.left) : Covers(x, n, e) => e < t.elem
      /\ \A x \in Entries(t.right) : Covers(x, n, e) => t.elem + n <= e
  BY SpacedNode DEF Blocks
<1>3. Blocks(Entries(t.left), n) /\ Blocks(Entries(t.right), n)
  BY <1>1, <1>2 DEF Blocks
<1>4. t.item.bits = n
  BY <1>1 DEF Blocks
<1>5. Holds(t, e) <=> t.elem <= e /\ e < t.elem + n
  BY <1>1, <1>4 DEF Holds
<1>6. Holds(t, e) <=> Covers(Entry(t), n, e)
  BY <1>1, <1>5 DEF Covers
<1> QED
  BY <1>2, <1>3, <1>4, <1>5, <1>6

(* find of BlockAVLTree.                                                   *)
LEMMA FindBlockHas ==
  ASSUME NEW n \in Nat \ {0}, NEW e \in Int, NEW t \in Trees, SearchTree(t), Blocks(Entries(t), n)
  PROVE  LET b == FindBlock(t, e)
         IN  \/ /\ b \in Node(AllTrees) /\ Entry(b) \in Entries(t) /\ Covers(Entry(b), n, e)
             \/ b = Nil /\ \A x \in Entries(t) : ~Covers(x, n, e)
<1> DEFINE F(u) == FindBlock(u, e)
           Pre(u) == SearchTree(u) /\ Blocks(Entries(u), n)
           Hit(u) == F(u) \in Node(AllTrees) /\ Entry(F(u)) \in Entries(u) /\ Covers(Entry(F(u)), n, e)
           Miss(u) == F(u) = Nil /\ \A x \in Entries(u) : ~Covers(x, n, e)
           S == {u \in Trees : Pre(u) => Hit(u) \/ Miss(u)}
<1> HIDE DEF F
<1>1. Nil \in S
  <2>1. F(Nil) = Nil
    BY FindBlockIs, TreesAre DEF F
  <2> QED
    BY <2>1, TreesAre, EntriesNil
<1>2. ASSUME NEW u \in Node(Trees), u \in Trees, u.left \in S, u.right \in S PROVE u \in S
  <2> SUFFICES ASSUME Pre(u) PROVE Hit(u) \/ Miss(u)
    BY <1>2
  <2>0. u \in Trees /\ u # Nil
    BY <1>2, NilIsNoNode
  <2>1. /\ u \in Node(AllTrees) /\ SearchTree(u.left) /\ SearchTree(u.right)
        /\ Entries(u) = {Entry(u)} \cup Entries(u.left) \cup Entries(u.right)
        /\ u.elem \in Int /\ Entry(u) \in Entries(u) /\ Entry(u).elem = u.elem
    BY <2>0, Subtree
  <2>2. /\ Blocks(Entries(u.left), n) /\ Blocks(Entries(u.right), n)
        /\ \A x \in Entries(u.left) : Covers(x, n, e) => e < u.elem
        /\ \A x \in Entries(u.right) : Covers(x, n, e) => u.elem + n <= e
        /\ Holds(u, e) <=> Covers(Entry(u), n, e)
    BY <2>0, BlocksNode
  <2>3. (Hit(u.left) \/ Miss(u.left)) /\ (Hit(u.right) \/ Miss(u.right))
    BY <1>2, <2>1, <2>2
  <2>4. F(u) = IF Holds(u, e) THEN u ELSE F(IF e < u.elem THEN u.left ELSE u.right)
    BY <2>0, FindBlockIs DEF F
  <2>5. CASE Holds(u, e)
    BY <2>1, <2>2, <2>4, <2>5
  <2>6. CASE ~Holds(u, e) /\ e < u.elem
    <3>1. F(u) = F(u.left)
      BY <2>4, <2>6
    <3>2. \A x \in Entries(u.right) : ~Covers(x, n, e)
      BY <2>1, <2>2, <2>6
    <3> QED
      BY <2>1, <2>2, <2>3, <2>6, <3>1, <3>2
  <2>7. CASE ~Holds(u, e) /\ ~(e < u.elem)
    <3>1. F(u) = F(u.right)
      BY <2>4, <2>7
    <3>2. \A x \in Entries(u.left) : ~Covers(x, n, e)
      BY <2>1, <2>2, <2>7
    <3> QED
      BY <2>1, <2>2, <2>3, <2>7, <3>1, <3>2
  <2> QED
    BY <2>5, <2>6, <2>7
<1>3. Trees \subseteq S
  <2> HIDE DEF S
  <2> QED
    BY <1>1, <1>2, TreesInduction
<1>4. Hit(t) \/ Miss(t)
  BY <1>3
<1> QED
  BY <1>4 DEF F

-----------------------------------------------------------------------------
(* node->ptr = p, in the node of the block that starts at e.               *)
PutPtr(x, e, p) ==
  IF x.elem = e THEN [elem |-> x.elem, item |-> [x.item EXCEPT !.ptr = p], ones |-> x.ones, own |-> x.own]
  ELSE x
PutPtrs(E, e, p) == {PutPtr(x, e, p) : x \in E}

(* A changed pointer leaves the tree as it is otherwise.                   *)
LEMMA SetPtrKeeps ==
  ASSUME NEW e \in Int, NEW p \in Nat, NEW t \in Trees, SearchTree(t)
  PROVE  LET m == SetPtr(t, e, p)
         IN  /\ SearchTree(m) /\ Height(m) = Height(t) /\ MySize(m) = MySize(t)
             /\ Entries(m) = PutPtrs(Entries(t), e, p)
<1> DEFINE Mod(u) == SetPtr(u, e, p)
           Post(u) == /\ SearchTree(Mod(u)) /\ Height(Mod(u)) = Height(u) /\ MySize(Mod(u)) = MySize(u)
                      /\ Entries(Mod(u)) = PutPtrs(Entries(u), e, p)
           S == {u \in Trees : SearchTree(u) => Post(u)}
<1> HIDE DEF Mod
<1>0. \A E : ElemsOf(PutPtrs(E, e, p)) = ElemsOf(E)
  <2>1. \A x : PutPtr(x, e, p).elem = x.elem
    BY DEF PutPtr
  <2> HIDE DEF PutPtr
  <2> QED
    BY <2>1 DEF PutPtrs, ElemsOf
<1>1. Nil \in S
  <2>1. Mod(Nil) = Nil
    BY SetPtrIs, TreesAre DEF Mod
  <2>2. PutPtrs(Entries(Nil), e, p) = {} /\ Entries(Nil) = {}
    BY EntriesNil DEF PutPtrs
  <2> QED
    BY <2>1, <2>2, TreesAre
<1>2. ASSUME NEW u \in Node(Trees), u \in Trees, u.left \in S, u.right \in S PROVE u \in S
  <2> SUFFICES ASSUME SearchTree(u) PROVE Post(u)
    BY <1>2
  <2>0. u \in Trees /\ u # Nil
    BY <1>2, NilIsNoNode
  <2>1. /\ u \in Node(AllTrees) /\ SearchTree(u.left) /\ SearchTree(u.right) /\ InOrder(u)
        /\ Entries(u) = {Entry(u)} \cup Entries(u.left) \cup Entries(u.right)
        /\ u.elem \in Int /\ Entry(u) \in Entries(u) /\ Entry(u).elem = u.elem
        /\ \A x \in Entries(u) : x.elem \in Int
    BY <2>0, Subtree
  <2>2. Post(u.left) /\ Post(u.right)
    BY <1>2, <2>1
  <2>3. PutPtrs(Entries(u), e, p) = {PutPtr(Entry(u), e, p)} \cup PutPtrs(Entries(u.left), e, p)
                                      \cup PutPtrs(Entries(u.right), e, p)
    BY <2>1 DEF PutPtrs
  <2>4. /\ e <= u.elem => PutPtrs(Entries(u.right), e, p) = Entries(u.right)
        /\ e >= u.elem => PutPtrs(Entries(u.left), e, p) = Entries(u.left)
    <3>1. e <= u.elem => \A x \in Entries(u.right) : x.elem # e
      BY <2>1 DEF InOrder, Above
    <3>2. e >= u.elem => \A x \in Entries(u.left) : x.elem # e
      BY <2>1 DEF InOrder, Below
    <3>3. \A E : (\A x \in E : x.elem # e) => PutPtrs(E, e, p) = E
      BY DEF PutPtrs, PutPtr
    <3> QED
      BY <3>1, <3>2, <3>3
  <2>5. Mod(u) = IF e = u.elem THEN [u EXCEPT !.item.ptr = p]
                 ELSE IF e < u.elem THEN [u EXCEPT !.left = Mod(u.left)]
                 ELSE [u EXCEPT !.right = Mod(u.right)]
    BY <2>0, SetPtrIs DEF Mod
  <2>6. CASE e = u.elem
    <3> DEFINE m == [u EXCEPT !.item.ptr = p]
               i == [u.item EXCEPT !.ptr = p]
    <3>1. Mod(u) = m
      BY <2>5, <2>6
    <3>2. i \in Item
      BY <2>1, NodeFields DEF Item
    <3>3. m = [u EXCEPT !.item = i]
      OBVIOUS
    <3> HIDE DEF i, m
    <3>4. /\ m \in Node(AllTrees) /\ m.left = u.left /\ m.right = u.right /\ m.height = u.height
          /\ m.elem = u.elem /\ m.item = i /\ m.ones = u.ones /\ m.mysize = u.mysize
      BY <2>1, <3>2, <3>3 DEF Node
    <3>5. SearchTree(m) /\ Height(m) = Height(u)
      BY <2>1, <3>4, SameShape
    <3>6. MySize(m) = MySize(u) /\ OwnOnes(m) = OwnOnes(u)
      BY <2>0, <3>4, NodeFields DEF MySize, OwnOnes
    <3>7. Entry(m) = PutPtr(Entry(u), e, p)
      BY <2>1, <2>6, <3>4, <3>6, EntryFields DEF Entry, PutPtr, i
    <3>8. e <= u.elem /\ e >= u.elem
      BY <2>6
    <3>9. Entries(m) = PutPtrs(Entries(u), e, p)
      BY <2>3, <2>4, <3>4, <3>7, <3>8, EntriesNode
    <3> QED
      BY <3>1, <3>5, <3>6, <3>9
  <2>7. CASE e < u.elem
    <3> DEFINE m == [u EXCEPT !.left = Mod(u.left)]
    <3>1. Mod(u) = m /\ e <= u.elem /\ e # u.elem
      BY <2>1, <2>5, <2>7
    <3>2. /\ m \in Node(AllTrees) /\ m.left = Mod(u.left) /\ m.right = u.right /\ m.height = u.height
          /\ m.elem = u.elem /\ m.item = u.item /\ m.ones = u.ones /\ m.mysize = u.mysize
      <4>1. Mod(u.left) \in AllTrees
        BY <2>2 DEF SearchTree
      <4> QED
        BY <2>1, <4>1 DEF Node
    <3> HIDE DEF m
    <3>3. ElemsOf(Entries(m.left)) = ElemsOf(Entries(u.left))
      BY <1>0, <2>2, <3>2
    <3>4. SearchTree(m) /\ Height(m) = Height(u)
      BY <2>1, <2>2, <3>2, <3>3, SameShape
    <3>5. MySize(m) = MySize(u) /\ OwnOnes(m) = OwnOnes(u)
      BY <2>0, <2>2, <3>2, NodeFields DEF MySize, OwnOnes
    <3>6. Entry(m) = Entry(u) /\ PutPtr(Entry(u), e, p) = Entry(u)
      BY <2>1, <3>1, <3>2, <3>5 DEF Entry, PutPtr
    <3>7. Entries(m) = PutPtrs(Entries(u), e, p)
      BY <2>2, <2>3, <2>4, <3>1, <3>2, <3>6, EntriesNode
    <3> QED
      BY <3>1, <3>4, <3>5, <3>7
  <2>8. CASE e > u.elem
    <3> DEFINE m == [u EXCEPT !.right = Mod(u.right)]
    <3>1. Mod(u) = m /\ e >= u.elem /\ e # u.elem
      BY <2>1, <2>5, <2>8
    <3>2. /\ m \in Node(AllTrees) /\ m.left = u.left /\ m.right = Mod(u.right) /\ m.height = u.height
          /\ m.elem = u.elem /\ m.item = u.item /\ m.ones = u.ones /\ m.mysize = u.mysize
      <4>1. Mod(u.right) \in AllTrees
        BY <2>2 DEF SearchTree
      <4> QED
        BY <2>1, <4>1 DEF Node
    <3> HIDE DEF m
    <3>3. ElemsOf(Entries(m.right)) = ElemsOf(Entries(u.right))
      BY <1>0, <2>2, <3>2
    <3>4. SearchTree(m) /\ Height(m) = Height(u)
      BY <2>1, <2>2, <3>2, <3>3, SameShape
    <3>5. MySize(m) = MySize(u) /\ OwnOnes(m) = OwnOnes(u)
      BY <2>0, <2>2, <3>2, NodeFields DEF MySize, OwnOnes
    <3>6. Entry(m) = Entry(u) /\ PutPtr(Entry(u), e, p) = Entry(u)
      BY <2>1, <3>1, <3>2, <3>5 DEF Entry, PutPtr
    <3>7. Entries(m) = PutPtrs(Entries(u), e, p)
      BY <2>2, <2>3, <2>4, <3>1, <3>2, <3>6, EntriesNode
    <3> QED
      BY <3>1, <3>4, <3>5, <3>7
  <2> QED
    BY <2>1, <2>6, <2>7, <2>8
<1>3. Trees \subseteq S
  <2> HIDE DEF S
  <2> QED
    BY <1>1, <1>2, TreesInduction
<1>4. Post(t)
  BY <1>3
<1> QED
  BY <1>4 DEF Mod

(* updatePath, for a block that is there: its own ones change, and those   *)
(* of the nodes above it do not.                                           *)
PutOwn(x, e, add) ==
  IF x.elem = e THEN [elem |-> x.elem, item |-> x.item, ones |-> x.ones, own |-> x.own + add] ELSE x
PutOwns(E, e, add) == {PutOwn(x, e, add) : x \in E}

(* updatePath changes the ones of one entry, and mysize on the way to it.  *)
LEMMA UpdatePathKeeps ==
  ASSUME NEW n \in Nat \ {0}, NEW e \in Int, NEW add \in Int, NEW t \in Trees, SearchTree(t),
         Blocks(Entries(t), n), e \in ElemsOf(Entries(t))
  PROVE  LET m == UpdatePath(t, e, add)
         IN  /\ SearchTree(m) /\ Height(m) = Height(t) /\ MySize(m) = MySize(t) + add
             /\ Entries(m) = PutOwns(Entries(t), e, add)
<1>a. \A u \in Trees :
        UpdatePath(u, e, add)
          = IF u = Nil THEN Nil
            ELSE IF Holds(u, e) THEN [u EXCEPT !.mysize = @ + add]
            ELSE IF e < u.elem
            THEN [u EXCEPT !.mysize = @ + add, !.left = UpdatePath(u.left, e, add)]
            ELSE [u EXCEPT !.mysize = @ + add, !.right = UpdatePath(u.right, e, add)]
  <2> TAKE u \in Trees
  <2> QED
    BY UpdatePathIs, Zenon
<1> DEFINE Mod(u) == UpdatePath(u, e, add)
           Pre(u) == SearchTree(u) /\ Blocks(Entries(u), n) /\ e \in ElemsOf(Entries(u))
           Post(u) == /\ SearchTree(Mod(u)) /\ Height(Mod(u)) = Height(u)
                      /\ MySize(Mod(u)) = MySize(u) + add
                      /\ Entries(Mod(u)) = PutOwns(Entries(u), e, add)
           S == {u \in Trees : Pre(u) => Post(u)}
<1> HIDE DEF Mod
<1>0. \A E : ElemsOf(PutOwns(E, e, add)) = ElemsOf(E)
  <2>1. \A x : PutOwn(x, e, add).elem = x.elem
    BY DEF PutOwn
  <2> HIDE DEF PutOwn
  <2> QED
    BY <2>1 DEF PutOwns, ElemsOf
<1>1. Nil \in S
  BY EntriesNil, TreesAre DEF ElemsOf
<1>2. ASSUME NEW u \in Node(Trees), u \in Trees, u.left \in S, u.right \in S PROVE u \in S
  <2> SUFFICES ASSUME Pre(u) PROVE Post(u)
    BY <1>2
  <2>0. u \in Trees /\ u # Nil
    BY <1>2, NilIsNoNode
  <2>1. /\ u \in Node(AllTrees) /\ SearchTree(u.left) /\ SearchTree(u.right) /\ InOrder(u)
        /\ Entries(u) = {Entry(u)} \cup Entries(u.left) \cup Entries(u.right)
        /\ u.elem \in Int /\ Entry(u) \in Entries(u) /\ Entry(u).elem = u.elem
        /\ \A x \in Entries(u) : x.elem \in Int
    BY <2>0, Subtree
  <2>2. /\ Blocks(Entries(u.left), n) /\ Blocks(Entries(u.right), n)
        /\ \A x \in Entries(u.left) : Covers(x, n, e) => e < u.elem
        /\ \A x \in Entries(u.right) : Covers(x, n, e) => u.elem + n <= e
        /\ Holds(u, e) <=> u.elem <= e /\ e < u.elem + n
    BY <2>0, BlocksNode
  <2>3. PutOwns(Entries(u), e, add) = {PutOwn(Entry(u), e, add)} \cup PutOwns(Entries(u.left), e, add)
                                        \cup PutOwns(Entries(u.right), e, add)
    BY <2>1 DEF PutOwns
  <2>4. /\ e <= u.elem => PutOwns(Entries(u.right), e, add) = Entries(u.right)
        /\ e >= u.elem => PutOwns(Entries(u.left), e, add) = Entries(u.left)
        /\ e < u.elem => e \in ElemsOf(Entries(u.left))
        /\ e > u.elem => e \in ElemsOf(Entries(u.right)) /\ u.elem + n <= e
    <3>1. e <= u.elem => \A x \in Entries(u.right) : x.elem # e
      BY <2>1 DEF InOrder, Above
    <3>2. e >= u.elem => \A x \in Entries(u.left) : x.elem # e
      BY <2>1 DEF InOrder, Below
    <3>3. \A E : (\A x \in E : x.elem # e) => PutOwns(E, e, add) = E
      BY DEF PutOwns, PutOwn
    <3>4. PICK x \in Entries(u) : x.elem = e
      BY DEF ElemsOf
    <3>5. Covers(x, n, e)
      BY <2>1, <3>4 DEF Covers
    <3>6. e < u.elem => x \in Entries(u.left)
      BY <2>1, <3>1, <3>4
    <3>7. e > u.elem => x \in Entries(u.right)
      BY <2>1, <3>2, <3>4
    <3>8. e < u.elem => e \in ElemsOf(Entries(u.left))
      BY <3>4, <3>6 DEF ElemsOf
    <3>9. e > u.elem => e \in ElemsOf(Entries(u.right)) /\ u.elem + n <= e
      BY <2>2, <3>4, <3>5, <3>7 DEF ElemsOf
    <3>10. e <= u.elem => PutOwns(Entries(u.right), e, add) = Entries(u.right)
      BY <3>1, <3>3
    <3>11. e >= u.elem => PutOwns(Entries(u.left), e, add) = Entries(u.left)
      BY <3>2, <3>3
    <3> QED
      BY <3>8, <3>9, <3>10, <3>11
  <2>5. Mod(u) = IF Holds(u, e) THEN [u EXCEPT !.mysize = @ + add]
                 ELSE IF e < u.elem
                 THEN [u EXCEPT !.mysize = @ + add, !.left = Mod(u.left)]
                 ELSE [u EXCEPT !.mysize = @ + add, !.right = Mod(u.right)]
    <3> HIDE DEF Pre, Post, S
    <3>1. UpdatePath(u, e, add)
            = IF Holds(u, e) THEN [u EXCEPT !.mysize = @ + add]
              ELSE IF e < u.elem
              THEN [u EXCEPT !.mysize = @ + add, !.left = UpdatePath(u.left, e, add)]
              ELSE [u EXCEPT !.mysize = @ + add, !.right = UpdatePath(u.right, e, add)]
      BY <1>a, <2>0
    <3> QED
      BY <3>1 DEF Mod
  <2>6. /\ u.mysize \in Int /\ MySize(u) = u.mysize
        /\ MySize(u.left) \in Int /\ MySize(u.right) \in Int /\ u.mysize + add \in Int
    BY <2>0, <2>1, NodeFields, TreeNumbers DEF MySize
  <2>7. CASE e = u.elem
    <3> DEFINE m == [u EXCEPT !.mysize = @ + add]
    <3>1. Mod(u) = m
      <4>1. Holds(u, e)
        BY <2>1, <2>2, <2>7
      <4> QED
        BY <2>5, <4>1
    <3>2. /\ m \in Node(AllTrees) /\ m.left = u.left /\ m.right = u.right /\ m.height = u.height
          /\ m.elem = u.elem /\ m.item = u.item /\ m.ones = u.ones /\ m.mysize = u.mysize + add
      BY <2>1, <2>6 DEF Node
    <3> HIDE DEF m
    <3>3. SearchTree(m) /\ Height(m) = Height(u)
      BY <2>1, <3>2, SameShape
    <3>4. MySize(m) = MySize(u) + add
      BY <2>6, <3>2, NodeFields DEF MySize
    <3>5. OwnOnes(m) = OwnOnes(u) + add
      BY <2>6, <3>2, <3>4 DEF OwnOnes
    <3>6. Entry(m) = PutOwn(Entry(u), e, add)
      BY <2>1, <2>7, <3>2, <3>5, EntryFields DEF Entry, PutOwn
    <3>7. e <= u.elem /\ e >= u.elem
      BY <2>7
    <3>8. Entries(m) = PutOwns(Entries(u), e, add)
      BY <2>3, <2>4, <3>2, <3>6, <3>7, EntriesNode
    <3> QED
      BY <3>1, <3>3, <3>4, <3>8
  <2>8. CASE e < u.elem
    <3> DEFINE m == [u EXCEPT !.mysize = @ + add, !.left = Mod(u.left)]
    <3>1. Mod(u) = m /\ e <= u.elem /\ e # u.elem
      BY <2>1, <2>2, <2>5, <2>8
    <3>2. Post(u.left)
      BY <1>2, <2>1, <2>2, <2>4, <2>8
    <3>3. /\ m \in Node(AllTrees) /\ m.left = Mod(u.left) /\ m.right = u.right /\ m.height = u.height
          /\ m.elem = u.elem /\ m.item = u.item /\ m.ones = u.ones /\ m.mysize = u.mysize + add
      <4>1. Mod(u.left) \in AllTrees
        BY <3>2 DEF SearchTree
      <4> QED
        BY <2>1, <2>6, <4>1 DEF Node
    <3> HIDE DEF m
    <3>4. ElemsOf(Entries(m.left)) = ElemsOf(Entries(u.left))
      BY <1>0, <3>2, <3>3
    <3>5. SearchTree(m) /\ Height(m) = Height(u)
      BY <2>1, <3>2, <3>3, <3>4, SameShape
    <3>6. MySize(m) = MySize(u) + add
      BY <2>6, <3>3, NodeFields DEF MySize
    <3>7. OwnOnes(m) = OwnOnes(u)
      BY <2>6, <3>2, <3>3, <3>6 DEF OwnOnes
    <3>8. Entry(m) = Entry(u) /\ PutOwn(Entry(u), e, add) = Entry(u)
      BY <2>1, <3>1, <3>3, <3>7 DEF Entry, PutOwn
    <3>9. Entries(m) = PutOwns(Entries(u), e, add)
      BY <2>3, <2>4, <3>1, <3>2, <3>3, <3>8, EntriesNode
    <3> QED
      BY <3>1, <3>5, <3>6, <3>9
  <2>9. CASE e > u.elem
    <3> DEFINE m == [u EXCEPT !.mysize = @ + add, !.right = Mod(u.right)]
    <3>1. Mod(u) = m /\ e >= u.elem /\ e # u.elem
      <4>1. ~Holds(u, e) /\ ~(e < u.elem)
        BY <2>1, <2>2, <2>4, <2>9
      <4> QED
        BY <2>1, <2>5, <2>9, <4>1
    <3>2. Post(u.right)
      BY <1>2, <2>1, <2>2, <2>4, <2>9
    <3>3. /\ m \in Node(AllTrees) /\ m.left = u.left /\ m.right = Mod(u.right) /\ m.height = u.height
          /\ m.elem = u.elem /\ m.item = u.item /\ m.ones = u.ones /\ m.mysize = u.mysize + add
      <4>1. Mod(u.right) \in AllTrees
        BY <3>2 DEF SearchTree
      <4> QED
        BY <2>1, <2>6, <4>1 DEF Node
    <3> HIDE DEF m
    <3>4. ElemsOf(Entries(m.right)) = ElemsOf(Entries(u.right))
      BY <1>0, <3>2, <3>3
    <3>5. SearchTree(m) /\ Height(m) = Height(u)
      BY <2>1, <3>2, <3>3, <3>4, SameShape
    <3>6. MySize(m) = MySize(u) + add
      BY <2>6, <3>3, NodeFields DEF MySize
    <3>7. OwnOnes(m) = OwnOnes(u)
      BY <2>6, <3>2, <3>3, <3>6 DEF OwnOnes
    <3>8. Entry(m) = Entry(u) /\ PutOwn(Entry(u), e, add) = Entry(u)
      BY <2>1, <3>1, <3>3, <3>7 DEF Entry, PutOwn
    <3>9. Entries(m) = PutOwns(Entries(u), e, add)
      BY <2>3, <2>4, <3>1, <3>2, <3>3, <3>8, EntriesNode
    <3> QED
      BY <3>1, <3>5, <3>6, <3>9
  <2> QED
    BY <2>1, <2>7, <2>8, <2>9
<1>3. Trees \subseteq S
  <2> HIDE DEF S
  <2> QED
    BY <1>1, <1>2, TreesInduction
<1>4. Post(t)
  BY <1>3
<1> QED
  BY <1>4 DEF Mod

-----------------------------------------------------------------------------
(* What the three trees are after c bits: the elements of the first are    *)
(* places of ones, the words and the blocks lie end to end. S is the set   *)
(* of the places of all ones.                                              *)
SetFits(t, c) == SearchTree(t) /\ Plain(Entries(t)) /\ ElemsOf(Entries(t)) \subseteq 0 .. c - 1

Tiled(E, n, c) == /\ Spaced(E, n)
                  /\ \A x \in E : x.elem \in Nat /\ x.elem + n <= c
                  /\ \A p \in 0 .. c - 1 : \E x \in E : Covers(x, n, p)

WordsFit(t, c, S) == /\ SearchTree(t) /\ Words(Entries(t)) /\ Tiled(Entries(t), IntBit, c)
                     /\ \A e \in Int : HasBit(Entries(t), e) <=> e \in S

(* Every block belongs to one entry, and counts as many ones as it has.    *)
Unpacked(st, p) == Decompress(st[p])
Held(x, st) == Unpacked(st, x.item.ptr)

Stored(E, st) ==
  /\ IsFiniteSet(DOMAIN st) /\ DOMAIN st \subseteq Nat
  /\ \A x \in E : x.item.ptr \in DOMAIN st /\ Held(x, st) \in Block
                  /\ x.own = Ones(Held(x, st), 0, ChunkBits - 1)
  /\ \A x, y \in E : x.item.ptr = y.item.ptr => x.elem = y.elem
  /\ \A p \in DOMAIN st : \E x \in E : x.item.ptr = p

BitsAre(E, st, S) == \A x \in E, k \in Bits : Held(x, st)[k] = 1 <=> x.elem + k \in S

BlocksFit(t, st, c, S) ==
  /\ SearchTree(t) /\ Blocks(Entries(t), ChunkBits) /\ Tiled(Entries(t), ChunkBits, c)
  /\ Stored(Entries(t), st)
  /\ BitsAre(Entries(t), st, S)

Invariant ==
  /\ counter \in 0 .. MaxBlocks
  /\ SetFits(setTree, counter * ChunkBits)
  /\ WordsFit(wordTree, counter * ChunkBits, ElemsOf(Entries(setTree)))
  /\ BlocksFit(blockTree, store, counter * ChunkBits, ElemsOf(Entries(setTree)))

(* The places of the blocks and of their bits.                             *)
LEMMA Numbers ==
  /\ ChunkInts \in Nat \ {0} /\ IntBit \in Nat \ {0} /\ MaxBlocks \in Nat /\ MaxHeight \in Nat
  /\ ChunkBits \in Nat \ {0} /\ Bits = 0 .. ChunkBits - 1
  /\ \A m \in 0 .. MaxBlocks : m * ChunkBits \in Nat /\ m * ChunkBits <= MaxHeight
  /\ \A m \in Nat : (m + 1) * ChunkBits = m * ChunkBits + ChunkBits
  /\ \A m \in Nat : \A j \in 0 .. m - 1, k \in Bits : j * ChunkBits + k \in 0 .. m * ChunkBits - 1
<1>1. /\ ChunkInts \in Nat \ {0} /\ IntBit \in Nat \ {0} /\ MaxBlocks \in Nat /\ MaxHeight \in Nat
  BY SizeAssumption, IntBitAssumption, HeightAssumption
<1>2. ChunkBits \in Nat \ {0}
  <2>1. \A a, b \in Nat \ {0} : a * b \in Nat \ {0}
    BY SMT
  <2> QED
    BY <1>1, <2>1 DEF ChunkBits
<1>3. MaxHeight >= MaxBlocks * ChunkBits
  BY EnoughHeight
<1> HIDE DEF ChunkBits
<1>4. ASSUME NEW m \in 0 .. MaxBlocks PROVE m * ChunkBits \in Nat /\ m * ChunkBits <= MaxHeight
  <2>1. m \in Nat /\ m <= MaxBlocks
    BY <1>1
  <2>2. \A a, b, d \in Nat : a <= b => a * d <= b * d
    BY SMT
  <2>3. m * ChunkBits <= MaxBlocks * ChunkBits /\ m * ChunkBits \in Nat /\ MaxBlocks * ChunkBits \in Nat
    BY <1>1, <1>2, <2>1, <2>2
  <2> QED
    BY <1>1, <1>3, <2>3
<1>5. ASSUME NEW m \in Nat PROVE (m + 1) * ChunkBits = m * ChunkBits + ChunkBits
  BY <1>2
<1>6. ASSUME NEW m \in Nat, NEW j \in 0 .. m - 1, NEW k \in Bits
      PROVE  j * ChunkBits + k \in 0 .. m * ChunkBits - 1
  <2>1. j + 1 \in Nat /\ j \in Nat /\ j + 1 <= m /\ k \in 0 .. ChunkBits - 1
    BY <1>2 DEF Bits
  <2>2. \A a, b, d \in Nat : a <= b => a * d <= b * d
    BY SMT
  <2>3. (j + 1) * ChunkBits <= m * ChunkBits /\ (j + 1) * ChunkBits = j * ChunkBits + ChunkBits
    BY <1>2, <1>5, <2>1, <2>2
  <2>4. j * ChunkBits \in Nat /\ m * ChunkBits \in Nat
    BY <1>2, <2>1
  <2> QED
    BY <1>2, <2>1, <2>3, <2>4
<1> QED
  BY <1>1, <1>2, <1>4, <1>5, <1>6 DEF Bits

(* A tree of that size is one that the walks are defined on.               *)
LEMMA FitInTrees ==
  ASSUME NEW t, NEW c \in Nat, c <= MaxHeight
  PROVE  /\ SetFits(t, c) => t \in Trees
         /\ \A n \in Nat \ {0} : SearchTree(t) /\ Tiled(Entries(t), n, c) => t \in Trees
<1>1. ASSUME SetFits(t, c) PROVE t \in Trees
  <2>1. \A x \in Entries(t) : x.elem \in 0 .. c - 1
    BY <1>1 DEF SetFits, ElemsOf
  <2> QED
    BY <1>1, <2>1, InTrees DEF SetFits
<1>2. ASSUME NEW n \in Nat \ {0}, SearchTree(t), Tiled(Entries(t), n, c) PROVE t \in Trees
  <2>1. \A x \in Entries(t) : x.elem \in 0 .. c - 1
    BY <1>2 DEF Tiled
  <2> QED
    BY <1>2, <2>1, InTrees
<1> QED
  BY <1>1, <1>2

(* The next element of a row of words or blocks.                           *)
LEMMA TiledNext ==
  ASSUME NEW E, NEW n \in Nat \ {0}, NEW c \in Nat, Tiled(E, n, c), NEW r, r.elem = c
  PROVE  Tiled(E \cup {r}, n, c + n) /\ \A x \in E : x.elem # c
<1>1. \A x \in E : x.elem \in Nat /\ x.elem + n <= c
  BY DEF Tiled
<1>2. Spaced(E \cup {r}, n)
  BY <1>1 DEF Tiled, Spaced
<1>3. ASSUME NEW p \in 0 .. (c + n) - 1 PROVE \E x \in E \cup {r} : Covers(x, n, p)
  <2>1. CASE p \in 0 .. c - 1
    BY <2>1 DEF Tiled
  <2>2. CASE p >= c
    BY <2>2 DEF Covers
  <2> QED
    BY <2>1, <2>2
<1>4. \A x \in E \cup {r} : x.elem \in Nat /\ x.elem + n <= c + n
  BY <1>1
<1>5. \A x \in E : x.elem # c
  BY <1>1
<1> QED
  BY <1>2, <1>3, <1>4, <1>5 DEF Tiled

(* The loops of addBlock, as sequences of trees.                           *)
LEMMA InsertOnesIs ==
  ASSUME NEW t, NEW block, NEW start
  PROVE  \E f : /\ f[0] = t /\ InsertOnes(t, block, start) = f[ChunkBits]
                /\ \A k \in 0 .. ChunkBits - 1 :
                     f[k + 1] = IF block[k] = 1 THEN Insert(f[k], start + k, NoItem, 1) ELSE f[k]
<1> DEFINE B(f, k) == IF k = 0 THEN t
                      ELSE IF block[k - 1] = 1 THEN Insert(f[k - 1], start + k - 1, NoItem, 1)
                      ELSE f[k - 1]
           P(f, m) == f = [k \in 0 .. m |-> B(f, k)]
           T == {m \in Nat : \E f : P(f, m)}
           F == CHOOSE f : f = [k \in 0 .. ChunkBits |-> B(f, k)]
<1>0. ChunkBits \in Nat \ {0}
  BY Numbers
<1>1. \A f, g, k : f[k - 1] = g[k - 1] => B(f, k) = B(g, k)
  OBVIOUS
<1>2. \A f : B(f, 0) = t
  OBVIOUS
<1>3. InsertOnes(t, block, start) = F[ChunkBits]
  BY DEF InsertOnes
<1>4. \A f : \A k \in 0 .. ChunkBits - 1 :
        B(f, k + 1) = IF block[k] = 1 THEN Insert(f[k], start + k, NoItem, 1) ELSE f[k]
  <2> TAKE f
  <2> TAKE k \in 0 .. ChunkBits - 1
  <2>1. k + 1 # 0 /\ (k + 1) - 1 = k
    BY <1>0
  <2> HIDE DEF T, F
  <2> QED
    BY <2>1
<1> HIDE DEF B
<1>5. 0 \in T
  <2> DEFINE f == [k \in 0 .. 0 |-> t]
  <2>1. P(f, 0)
    BY <1>2
  <2> HIDE DEF f
  <2> QED
    BY <2>1
<1>6. ASSUME NEW m \in Nat, m \in T PROVE m + 1 \in T
  <2>1. PICK f : P(f, m)
    BY <1>6
  <2> DEFINE g == [k \in 0 .. m + 1 |-> B(f, k)]
  <2>2. ASSUME NEW k \in 0 .. m + 1 PROVE B(f, k) = B(g, k)
    <3>1. CASE k = 0
      BY <1>2, <3>1
    <3>2. CASE k # 0
      <4>1. k - 1 \in 0 .. m /\ k - 1 \in 0 .. m + 1
        BY <3>2
      <4>2. f[k - 1] = B(f, k - 1) /\ g[k - 1] = B(f, k - 1)
        BY <2>1, <4>1
      <4> HIDE DEF g
      <4> QED
        BY <1>1, <4>2
    <3> QED
      BY <3>1, <3>2
  <2>3. P(g, m + 1)
    BY <2>2
  <2> HIDE DEF g
  <2> QED
    BY <2>3
<1>7. ChunkBits \in T
  <2> HIDE DEF T
  <2> QED
    BY <1>0, <1>5, <1>6, AllOfNat
<1>8. F = [k \in 0 .. ChunkBits |-> B(F, k)]
  BY <1>7
<1> HIDE DEF F
<1>9. F[0] = t /\ \A k \in 0 .. ChunkBits - 1 : F[k + 1] = B(F, k + 1)
  BY <1>0, <1>2, <1>8
<1> QED
  BY <1>3, <1>4, <1>9

(* The loop of addBlock over the words of a block.                         *)
LEMMA InsertWordsIs ==
  ASSUME NEW t, NEW block, NEW start
  PROVE  \E f : /\ f[0] = t /\ InsertWords(t, block, start) = f[ChunkInts]
                /\ \A k \in 0 .. ChunkInts - 1 :
                     f[k + 1] = InsertWord(f[k], start + k * IntBit, WordOf(block, k))
<1> DEFINE B(f, k) == IF k = 0 THEN t
                      ELSE InsertWord(f[k - 1], start + (k - 1) * IntBit, WordOf(block, k - 1))
           P(f, m) == f = [k \in 0 .. m |-> B(f, k)]
           T == {m \in Nat : \E f : P(f, m)}
           F == CHOOSE f : f = [k \in 0 .. ChunkInts |-> B(f, k)]
<1>0. ChunkInts \in Nat \ {0}
  BY Numbers
<1>1. \A f, g, k : f[k - 1] = g[k - 1] => B(f, k) = B(g, k)
  OBVIOUS
<1>2. \A f : B(f, 0) = t
  OBVIOUS
<1>3. InsertWords(t, block, start) = F[ChunkInts]
  BY DEF InsertWords
<1>4. \A f : \A k \in 0 .. ChunkInts - 1 :
        B(f, k + 1) = InsertWord(f[k], start + k * IntBit, WordOf(block, k))
  <2> TAKE f
  <2> TAKE k \in 0 .. ChunkInts - 1
  <2>1. k + 1 # 0 /\ (k + 1) - 1 = k
    BY <1>0
  <2> HIDE DEF T, F
  <2> QED
    BY <2>1
<1> HIDE DEF B
<1>5. 0 \in T
  <2> DEFINE f == [k \in 0 .. 0 |-> t]
  <2>1. P(f, 0)
    BY <1>2
  <2> HIDE DEF f
  <2> QED
    BY <2>1
<1>6. ASSUME NEW m \in Nat, m \in T PROVE m + 1 \in T
  <2>1. PICK f : P(f, m)
    BY <1>6
  <2> DEFINE g == [k \in 0 .. m + 1 |-> B(f, k)]
  <2>2. ASSUME NEW k \in 0 .. m + 1 PROVE B(f, k) = B(g, k)
    <3>1. CASE k = 0
      BY <1>2, <3>1
    <3>2. CASE k # 0
      <4>1. k - 1 \in 0 .. m /\ k - 1 \in 0 .. m + 1
        BY <3>2
      <4>2. f[k - 1] = B(f, k - 1) /\ g[k - 1] = B(f, k - 1)
        BY <2>1, <4>1
      <4> HIDE DEF g
      <4> QED
        BY <1>1, <4>2
    <3> QED
      BY <3>1, <3>2
  <2>3. P(g, m + 1)
    BY <2>2
  <2> HIDE DEF g
  <2> QED
    BY <2>3
<1>7. ChunkInts \in T
  <2> HIDE DEF T
  <2> QED
    BY <1>0, <1>5, <1>6, AllOfNat
<1>8. F = [k \in 0 .. ChunkInts |-> B(F, k)]
  BY <1>7
<1> HIDE DEF F
<1>9. F[0] = t /\ \A k \in 0 .. ChunkInts - 1 : F[k + 1] = B(F, k + 1)
  BY <1>0, <1>2, <1>8
<1> QED
  BY <1>3, <1>4, <1>9

-----------------------------------------------------------------------------
(* insert, of an element that is behind all others or just not there.      *)
LEMMA InsertAdds ==
  ASSUME NEW t \in Trees, SearchTree(t), Fresh(Entries(t)), NEW e \in Int, NEW i \in Item, NEW o \in Int,
         \A x \in Entries(t) : x.elem # e
  PROVE  /\ SearchTree(Insert(t, e, i, o)) /\ Fresh(Entries(Insert(t, e, i, o)))
         /\ Entries(Insert(t, e, i, o)) = Entries(t) \cup {NewRecord(e, i, o)}
<1>1. ~Find(t, e)
  BY FindHas
<1>2. Insert(t, e, i, o) = InsertNew(t, e, i, o)
  BY <1>1 DEF Insert
<1> QED
  BY <1>2, InsertNewKeeps

(* The nodes of SetBitVector hold nothing besides.                         *)
LEMMA NoItemType == NoItem \in Item
  BY DEF NoItem, Item

(* insert of a place that is not in the tree.                              *)
LEMMA InsertOne ==
  ASSUME NEW c \in Nat, c <= MaxHeight, NEW t, SetFits(t, c), NEW e \in Int, e \notin ElemsOf(Entries(t))
  PROVE  LET u == Insert(t, e, NoItem, 1)
         IN  /\ SearchTree(u) /\ Plain(Entries(u))
             /\ ElemsOf(Entries(u)) = ElemsOf(Entries(t)) \cup {e}
<1> DEFINE u == Insert(t, e, NoItem, 1)
<1>1. t \in Trees /\ SearchTree(t) /\ Plain(Entries(t)) /\ Fresh(Entries(t))
  BY FitInTrees, PlainFresh DEF SetFits
<1>2. \A x \in Entries(t) : x.elem # e
  BY DEF ElemsOf
<1>3. SearchTree(u) /\ Entries(u) = Entries(t) \cup {NewRecord(e, NoItem, 1)}
  BY <1>1, <1>2, NoItemType, InsertAdds
<1> HIDE DEF u
<1>4. Plain(Entries(u))
  BY <1>1, <1>3 DEF Plain, NewRecord
<1>5. ElemsOf(Entries(u)) = ElemsOf(Entries(t)) \cup {e}
  <2>1. NewRecord(e, NoItem, 1).elem = e
    BY DEF NewRecord
  <2> QED
    BY <1>3, <2>1 DEF ElemsOf
<1> QED
  BY <1>3, <1>4, <1>5 DEF u

(* addBlock of SetBitVector.                                               *)
OnesFrom(block, c, n) == {c + k : k \in {j \in 0 .. n - 1 : block[j] = 1}}

(* One place of the block after the other.                                 *)
LEMMA OnesFromNext ==
  ASSUME NEW block, NEW c \in Nat, NEW n \in Nat
  PROVE  /\ OnesFrom(block, c, 0) = {}
         /\ OnesFrom(block, c, n + 1) = OnesFrom(block, c, n) \cup (IF block[n] = 1 THEN {c + n} ELSE {})
         /\ OnesFrom(block, c, n) \subseteq c .. (c + n) - 1
<1>1. 0 .. (n + 1) - 1 = (0 .. n - 1) \cup {n}
  OBVIOUS
<1> QED
  BY <1>1 DEF OnesFrom

(* addBlock of SetBitVector.                                               *)
LEMMA AddSet ==
  ASSUME NEW c \in Nat, c + ChunkBits <= MaxHeight, NEW t, SetFits(t, c), NEW block \in Block
  PROVE  LET u == InsertOnes(t, block, c)
         IN  /\ SetFits(u, c + ChunkBits)
             /\ ElemsOf(Entries(u)) = ElemsOf(Entries(t)) \cup OnesFrom(block, c, ChunkBits)
<1>0. ChunkBits \in Nat \ {0} /\ MaxHeight \in Nat
  BY Numbers
<1>1. PICK f : /\ f[0] = t /\ InsertOnes(t, block, c) = f[ChunkBits]
               /\ \A k \in 0 .. ChunkBits - 1 :
                    f[k + 1] = IF block[k] = 1 THEN Insert(f[k], c + k, NoItem, 1) ELSE f[k]
  BY InsertOnesIs
<1> DEFINE Good(k) == /\ SetFits(f[k], c + k)
                      /\ ElemsOf(Entries(f[k])) = ElemsOf(Entries(t)) \cup OnesFrom(block, c, k)
           S == {k \in 0 .. ChunkBits : Good(k)}
<1>2. 0 \in S
  BY <1>0, <1>1, OnesFromNext
<1>3. ASSUME NEW k \in 0 .. ChunkBits - 1, k \in S PROVE k + 1 \in S
  <2>1. /\ SetFits(f[k], c + k) /\ c + k \in Nat /\ c + k <= MaxHeight /\ k \in Nat
        /\ ElemsOf(Entries(f[k])) = ElemsOf(Entries(t)) \cup OnesFrom(block, c, k)
    BY <1>0, <1>3
  <2>2. OnesFrom(block, c, k + 1) = OnesFrom(block, c, k) \cup (IF block[k] = 1 THEN {c + k} ELSE {})
    <3> k \in Nat
      OBVIOUS
    <3> HIDE DEF Good, S
    <3> QED
      BY OnesFromNext
  <2>3. ElemsOf(Entries(f[k])) \subseteq 0 .. (c + k) - 1
    BY <2>1 DEF SetFits
  <2>4. CASE block[k] = 1
    <3>1. f[k + 1] = Insert(f[k], c + k, NoItem, 1)
      BY <1>1, <2>4
    <3>2. c + k \notin ElemsOf(Entries(f[k]))
      BY <2>1, <2>3
    <3>3. /\ SearchTree(f[k + 1]) /\ Plain(Entries(f[k + 1]))
          /\ ElemsOf(Entries(f[k + 1])) = ElemsOf(Entries(f[k])) \cup {c + k}
      BY <2>1, <3>1, <3>2, InsertOne
    <3>4. ElemsOf(Entries(f[k + 1])) \subseteq 0 .. (c + (k + 1)) - 1
      BY <2>1, <2>3, <3>3
    <3>5. Good(k + 1)
      BY <2>1, <2>2, <2>4, <3>3, <3>4 DEF SetFits
    <3> QED
      BY <1>0, <3>5
  <2>5. CASE block[k] # 1
    <3>1. f[k + 1] = f[k]
      BY <1>1, <2>5
    <3>2. ElemsOf(Entries(f[k + 1])) \subseteq 0 .. (c + (k + 1)) - 1
      BY <2>1, <2>3, <3>1
    <3>3. Good(k + 1)
      BY <2>1, <2>2, <2>5, <3>1, <3>2 DEF SetFits
    <3> QED
      BY <1>0, <3>3
  <2> QED
    BY <2>4, <2>5
<1>4. ChunkBits \in S
  <2> HIDE DEF S
  <2> QED
    BY <1>0, <1>2, <1>3, UpTo
<1> QED
  BY <1>1, <1>4

(* addBlock of AdvancedSetBitVector, one word.                             *)
LEMMA InsertAWord ==
  ASSUME NEW c \in Nat, c + IntBit <= MaxHeight, NEW t, NEW S, WordsFit(t, c, S), S \subseteq Int,
         NEW d, d \subseteq 0 .. IntBit - 1
  PROVE  WordsFit(InsertWord(t, c, d), c + IntBit, S \cup {c + k : k \in d})
<1> DEFINE u == InsertWord(t, c, d)
           r == NewRecord(c, [NoItem EXCEPT !.data = d], GetOnes(d))
<1>0. IntBit \in Nat \ {0} /\ MaxHeight \in Nat
  BY Numbers
<1>1. /\ SearchTree(t) /\ Words(Entries(t)) /\ Tiled(Entries(t), IntBit, c)
      /\ \A e \in Int : HasBit(Entries(t), e) <=> e \in S
  BY DEF WordsFit
<1>2. t \in Trees /\ Fresh(Entries(t))
  <2>1. c <= MaxHeight
    BY <1>0
  <2>2. t \in Trees
    BY <1>0, <1>1, <2>1, FitInTrees
  <2> QED
    BY <1>1, <2>2 DEF Fresh, Words, WordEntry
<1>3. /\ r.elem = c /\ r.item.data = d /\ r.ones = GetOnes(d) /\ r.own = r.ones
      /\ [NoItem EXCEPT !.data = d] \in Item /\ GetOnes(d) \in Int
  <2>1. IsFiniteSet(d)
    <3>1. IsFiniteSet(0 .. IntBit - 1)
      BY <1>0, FS_Interval
    <3> QED
      BY <3>1, FS_Subset
  <2>2. GetOnes(d) \in Int
    BY <2>1, FS_CardinalityType DEF GetOnes
  <2> QED
    BY <1>0, <2>2 DEF NewRecord, NoItem, Item
<1>4. Tiled(Entries(t) \cup {r}, IntBit, c + IntBit) /\ \A x \in Entries(t) : x.elem # c
  <2> HIDE DEF r
  <2> QED
    BY <1>0, <1>1, <1>3, TiledNext
<1>5. SearchTree(u) /\ Entries(u) = Entries(t) \cup {r}
  BY <1>1, <1>2, <1>3, <1>4, InsertAdds DEF InsertWord
<1> HIDE DEF u, r
<1>6. Words(Entries(u))
  <2>1. WordEntry(r)
    BY <1>3 DEF WordEntry
  <2> QED
    BY <1>1, <1>4, <1>5, <2>1 DEF Words, Tiled
<1>7. ASSUME NEW e \in Int PROVE HasBit(Entries(u), e) <=> e \in S \cup {c + k : k \in d}
  <2>1. HasBit(Entries(u), e) <=> HasBit(Entries(t), e) \/ e - c \in d
    BY <1>3, <1>5 DEF HasBit
  <2>2. e - c \in d <=> e \in {c + k : k \in d}
    <3>1. \A k \in d : k \in Int
      BY <1>0
    <3>2. \A k \in d : e = c + k <=> k = e - c
      BY <3>1
    <3> QED
      BY <3>2
  <2> QED
    BY <1>1, <2>1, <2>2
<1>8. WordsFit(u, c + IntBit, S \cup {c + k : k \in d})
  BY <1>4, <1>5, <1>6, <1>7 DEF WordsFit
<1> QED
  BY <1>8 DEF u

(* addBlock of AdvancedSetBitVector.                                       *)
LEMMA AddWords ==
  ASSUME NEW c \in Nat, c + ChunkBits <= MaxHeight, NEW t, NEW S, S \subseteq Int, WordsFit(t, c, S),
         NEW block \in Block
  PROVE  WordsFit(InsertWords(t, block, c), c + ChunkBits, S \cup OnesFrom(block, c, ChunkBits))
<1>0. /\ ChunkBits \in Nat \ {0} /\ MaxHeight \in Nat /\ ChunkInts \in Nat \ {0} /\ IntBit \in Nat \ {0}
      /\ ChunkBits = ChunkInts * IntBit
  BY Numbers DEF ChunkBits
<1>1. PICK f : /\ f[0] = t /\ InsertWords(t, block, c) = f[ChunkInts]
               /\ \A n \in 0 .. ChunkInts - 1 :
                    f[n + 1] = InsertWord(f[n], c + n * IntBit, WordOf(block, n))
  BY InsertWordsIs
<1> DEFINE Good(n) == WordsFit(f[n], c + n * IntBit, S \cup OnesFrom(block, c, n * IntBit))
           T == {n \in 0 .. ChunkInts : Good(n)}
<1>2. 0 \in T
  <2>1. 0 * IntBit = 0 /\ c + 0 = c
    BY <1>0
  <2>2. OnesFrom(block, c, 0) = {}
    BY OnesFromNext
  <2>3. Good(0)
    BY <1>1, <2>1, <2>2
  <2> QED
    BY <1>0, <2>3
<1>3. ASSUME NEW n \in 0 .. ChunkInts - 1, n \in T PROVE n + 1 \in T
  <2> DEFINE w == n * IntBit
             d == WordOf(block, n)
             R == S \cup OnesFrom(block, c, w)
  <2>1. /\ n \in Nat /\ w \in Nat /\ (n + 1) * IntBit = w + IntBit /\ w + IntBit <= ChunkBits
    <3>1. n \in Nat /\ n + 1 \in Nat /\ n + 1 <= ChunkInts
      BY <1>0
    <3>2. \A a, b, e \in Nat : a <= b => a * e <= b * e
      BY SMT
    <3>3. (n + 1) * IntBit <= ChunkInts * IntBit /\ (n + 1) * IntBit = n * IntBit + IntBit
      BY <1>0, <3>1, <3>2
    <3> QED
      BY <1>0, <3>1, <3>3
  <2>2. WordsFit(f[n], c + w, R)
    BY <1>3
  <2>3. d = {k \in 0 .. IntBit - 1 : block[w + k] = 1}
    BY DEF WordOf
  <2>4. f[n + 1] = InsertWord(f[n], c + w, d)
    BY <1>1
  <2> HIDE DEF w, d, Good
  <2>5. c + w \in Nat /\ (c + w) + IntBit <= MaxHeight /\ R \subseteq Int /\ d \subseteq 0 .. IntBit - 1
    <3>1. OnesFrom(block, c, w) \subseteq c .. (c + w) - 1
      BY <2>1, OnesFromNext
    <3>2. R \subseteq Int
      <4>1. \A p \in c .. (c + w) - 1 : p \in Int
        OBVIOUS
      <4> HIDE DEF T
      <4> QED
        BY <3>1, <4>1
    <3>3. c + w \in Nat /\ (c + w) + IntBit <= MaxHeight
      BY <1>0, <2>1
    <3>4. d \subseteq 0 .. IntBit - 1
      BY <2>3
    <3> QED
      BY <3>2, <3>3, <3>4
  <2>6. WordsFit(f[n + 1], (c + w) + IntBit, R \cup {(c + w) + k : k \in d})
    <3> DEFINE b == c + w
    <3>1. b \in Nat /\ b + IntBit <= MaxHeight /\ WordsFit(f[n], b, R) /\ R \subseteq Int
          /\ d \subseteq 0 .. IntBit - 1
      BY <2>2, <2>5
    <3> HIDE DEF R, b
    <3>2. WordsFit(InsertWord(f[n], b, d), b + IntBit, R \cup {b + k : k \in d})
      BY <3>1, InsertAWord
    <3> QED
      BY <2>4, <3>2 DEF b
  <2>7. R \cup {(c + w) + k : k \in d} = S \cup OnesFrom(block, c, w + IntBit)
    <3>1. ASSUME NEW p PROVE p \in {(c + w) + k : k \in d} => p \in OnesFrom(block, c, w + IntBit)
      <4> SUFFICES ASSUME NEW k \in d, p = (c + w) + k PROVE p \in OnesFrom(block, c, w + IntBit)
        OBVIOUS
      <4>1. w + k \in 0 .. (w + IntBit) - 1 /\ block[w + k] = 1 /\ p = c + (w + k)
        BY <1>0, <2>1, <2>3
      <4> QED
        BY <4>1 DEF OnesFrom
    <3>2. OnesFrom(block, c, w) \subseteq OnesFrom(block, c, w + IntBit)
      BY <1>0, <2>1 DEF OnesFrom
    <3>3. ASSUME NEW p \in OnesFrom(block, c, w + IntBit)
          PROVE  p \in OnesFrom(block, c, w) \/ p \in {(c + w) + k : k \in d}
      <4>1. PICK j \in 0 .. (w + IntBit) - 1 : block[j] = 1 /\ p = c + j
        BY DEF OnesFrom
      <4>2. CASE j < w
        BY <2>1, <4>1, <4>2 DEF OnesFrom
      <4>3. CASE j >= w
        <5>1. j - w \in 0 .. IntBit - 1 /\ w + (j - w) = j /\ p = (c + w) + (j - w)
          BY <1>0, <2>1, <4>1, <4>3
        <5>2. j - w \in d
          BY <2>3, <4>1, <5>1
        <5> QED
          BY <5>1, <5>2
      <4> QED
        BY <2>1, <4>2, <4>3
    <3> QED
      BY <3>1, <3>2, <3>3 DEF R
  <2>8. (c + w) + IntBit = c + (w + IntBit)
    BY <1>0, <2>1
  <2>9. Good(n + 1)
    BY <2>1, <2>6, <2>7, <2>8 DEF Good
  <2> QED
    BY <1>0, <2>9
<1>4. ChunkInts \in T
  <2> HIDE DEF T
  <2> QED
    BY <1>0, <1>2, <1>3, UpTo
<1> QED
  BY <1>0, <1>1, <1>4

-----------------------------------------------------------------------------
(* An element is in one node.                                              *)
LEMMA NodeByElem ==
  ASSUME NEW t \in Trees, SearchTree(t)
  PROVE  \A m, n \in NodesOf(t) : m.elem = n.elem => m = n
<1> DEFINE One(u) == \A m, n \in NodesOf(u) : m.elem = n.elem => m = n
           S == {u \in Trees : SearchTree(u) => One(u)}
<1>1. Nil \in S
  BY NodesOfNil, TreesAre
<1>2. ASSUME NEW u \in Node(Trees), u \in Trees, u.left \in S, u.right \in S PROVE u \in S
  <2> SUFFICES ASSUME SearchTree(u) PROVE One(u)
    BY <1>2
  <2>1. u # Nil
    BY NilIsNoNode
  <2>2. /\ u \in Node(AllTrees) /\ SearchTree(u.left) /\ SearchTree(u.right) /\ InOrder(u) /\ u.elem \in Int
        /\ Entries(u) = {Entry(u)} \cup Entries(u.left) \cup Entries(u.right)
        /\ \A x \in Entries(u) : x.elem \in Int
    BY <1>2, <2>1, Subtree
  <2>3. NodesOf(u) = {u} \cup NodesOf(u.left) \cup NodesOf(u.right)
    BY <2>2, NodesOfNode
  <2>4. \A m \in NodesOf(u.left) : m.elem \in Int /\ m.elem < u.elem
    <3> TAKE m \in NodesOf(u.left)
    <3>1. Entry(m) \in Entries(u.left) /\ Entry(m).elem = m.elem
      BY EntryFields DEF Entries
    <3> QED
      BY <2>2, <3>1 DEF InOrder, Below
  <2>5. \A m \in NodesOf(u.right) : m.elem \in Int /\ u.elem < m.elem
    <3> TAKE m \in NodesOf(u.right)
    <3>1. Entry(m) \in Entries(u.right) /\ Entry(m).elem = m.elem
      BY EntryFields DEF Entries
    <3> QED
      BY <2>2, <3>1 DEF InOrder, Above
  <2>6. One(u.left) /\ One(u.right)
    BY <1>2, <2>2
  <2> QED
    BY <2>2, <2>3, <2>4, <2>5, <2>6
<1>3. Trees \subseteq S
  <2> HIDE DEF S
  <2> QED
    BY <1>1, <1>2, TreesInduction
<1> QED
  BY <1>3

(* An element is in one entry.                                             *)
LEMMA EntryByElem ==
  ASSUME NEW t \in Trees, SearchTree(t)
  PROVE  \A x, y \in Entries(t) : x.elem = y.elem => x = y
<1> TAKE x, y \in Entries(t)
<1>1. PICK m, n \in NodesOf(t) : x = Entry(m) /\ y = Entry(n)
  BY DEF Entries
<1>2. x.elem = m.elem /\ y.elem = n.elem
  BY <1>1, EntryFields
<1> QED
  BY <1>1, <1>2, NodeByElem

-----------------------------------------------------------------------------
(* Blocks in the memory manager.                                           *)
LEMMA NewPtrIs ==
  ASSUME NEW st, IsFiniteSet(DOMAIN st)
  PROVE  NewPtr(st) \in Nat /\ NewPtr(st) \notin DOMAIN st
<1> DEFINE n == Cardinality(DOMAIN st)
<1>1. n \in Nat
  BY FS_CardinalityType
<1>2. IsFiniteSet(1 .. n + 1) /\ Cardinality(1 .. n + 1) = n + 1
  BY <1>1, FS_Interval
<1>3. \E p \in 1 .. n + 1 : p \notin DOMAIN st
  <2> SUFFICES ASSUME 1 .. n + 1 \subseteq DOMAIN st PROVE FALSE
    OBVIOUS
  <2>1. Cardinality(1 .. n + 1) <= Cardinality(DOMAIN st)
    BY FS_Subset
  <2> QED
    BY <1>1, <1>2, <2>1
<1>4. NewPtr(st) \in 1 .. n + 1 /\ NewPtr(st) \notin DOMAIN st
  BY <1>3 DEF NewPtr
<1> QED
  BY <1>1, <1>4

(* A new block is one pointer more.                                        *)
LEMMA CreatedDomain ==
  ASSUME NEW st, NEW p, NEW block
  PROVE  DOMAIN Created(st, p, block) = DOMAIN st \cup {p}
  BY DEF Created

(* It is what it was stored as, and the others stay.                       *)
LEMMA CreatedHolds ==
  ASSUME NEW st, NEW p, p \notin DOMAIN st, NEW block \in Block
  PROVE  /\ Unpacked(Created(st, p, block), p) = block
         /\ \A q \in DOMAIN st : Unpacked(Created(st, p, block), q) = Unpacked(st, q)
  BY RoundTrip DEF Created, Unpacked

(* A block that is gone leaves the others alone.                           *)
LEMMA RemovedIs ==
  ASSUME NEW st, NEW p
  PROVE  /\ DOMAIN Removed(st, p) = DOMAIN st \ {p}
         /\ \A q \in DOMAIN st \ {p} : Unpacked(Removed(st, p), q) = Unpacked(st, q)
  BY DEF Removed, Unpacked

(* The ones of a block, before and after a change of one bit.              *)
LEMMA OnesCount ==
  ASSUME NEW block \in Block
  PROVE  /\ Ones(block, 0, ChunkBits - 1) \in Nat
         /\ \A k \in Bits, val \in {0, 1} :
              block[k] # val => Ones([block EXCEPT ![k] = val], 0, ChunkBits - 1)
                                  = Ones(block, 0, ChunkBits - 1) + IF val = 1 THEN 1 ELSE -1
<1> DEFINE O(b) == {j \in 0 .. ChunkBits - 1 : b[j] = 1}
<1>1. ChunkBits \in Nat \ {0} /\ Bits = 0 .. ChunkBits - 1
  BY Numbers
<1>2. \A b : IsFiniteSet(O(b)) /\ Cardinality(O(b)) \in Nat
  <2> TAKE b
  <2>1. IsFiniteSet(0 .. ChunkBits - 1)
    BY <1>1, FS_Interval
  <2>2. IsFiniteSet(O(b))
    BY <2>1, FS_Subset
  <2> QED
    BY <2>2, FS_CardinalityType
<1>3. \A b : Ones(b, 0, ChunkBits - 1) = Cardinality(O(b))
  BY DEF Ones
<1>4. ASSUME NEW k \in Bits, NEW val \in {0, 1}, block[k] # val
      PROVE  Cardinality(O([block EXCEPT ![k] = val])) = Cardinality(O(block)) + IF val = 1 THEN 1 ELSE -1
  <2>0. /\ block \in [Bits -> {0, 1}]
        /\ \A j \in Bits : [block EXCEPT ![k] = val][j] = IF j = k THEN val ELSE block[j]
    BY DEF Block
  <2>1. CASE val = 1
    <3>1. O([block EXCEPT ![k] = val]) = O(block) \cup {k} /\ k \notin O(block)
      BY <1>1, <1>4, <2>0, <2>1
    <3> HIDE DEF O
    <3>2. Cardinality(O(block) \cup {k}) = Cardinality(O(block)) + 1
      BY <1>2, <3>1, FS_AddElement
    <3> QED
      BY <2>1, <3>1, <3>2
  <2>2. CASE val = 0
    <3>1. O([block EXCEPT ![k] = val]) = O(block) \ {k} /\ k \in O(block)
      BY <1>1, <1>4, <2>0, <2>2
    <3> HIDE DEF O
    <3>2. Cardinality(O(block) \ {k}) = Cardinality(O(block)) - 1
      BY <1>2, <3>1, FS_RemoveElement
    <3>3. Cardinality(O(block)) \in Nat /\ (IF val = 1 THEN 1 ELSE -1) = -1
      BY <1>2, <2>2
    <3>4. Cardinality(O(block)) - 1 = Cardinality(O(block)) + -1
      BY <3>3
    <3> QED
      BY <3>1, <3>2, <3>3, <3>4
  <2> QED
    BY <2>1, <2>2
<1> QED
  BY <1>2, <1>3, <1>4

(* One more block, and its entry.                                          *)
LEMMA StoredNext ==
  ASSUME NEW E, NEW st, Stored(E, st), NEW p \in Nat, p \notin DOMAIN st, NEW block \in Block,
         NEW r, r.item.ptr = p, r.own = Ones(block, 0, ChunkBits - 1)
  PROVE  LET new == Created(st, p, block)
         IN  /\ Stored(E \cup {r}, new) /\ Held(r, new) = block
             /\ \A x \in E : Held(x, new) = Held(x, st)
<1> DEFINE new == Created(st, p, block)
<1>1. DOMAIN new = DOMAIN st \cup {p}
  BY CreatedDomain
<1>2. Unpacked(new, p) = block /\ \A q \in DOMAIN st : Unpacked(new, q) = Unpacked(st, q)
  BY CreatedHolds
<1> HIDE DEF new
<1>3. Held(r, new) = block /\ \A x \in E : Held(x, new) = Held(x, st)
  <2>1. \A x \in E : x.item.ptr \in DOMAIN st
    BY DEF Stored
  <2> QED
    BY <1>2, <2>1 DEF Held
<1>4. IsFiniteSet(DOMAIN new) /\ DOMAIN new \subseteq Nat
  BY <1>1, FS_AddElement DEF Stored
<1>5. \A x \in E \cup {r} : x.item.ptr \in DOMAIN new /\ Held(x, new) \in Block
                            /\ x.own = Ones(Held(x, new), 0, ChunkBits - 1)
  BY <1>1, <1>3 DEF Stored
<1>6. \A x, y \in E \cup {r} : x.item.ptr = y.item.ptr => x.elem = y.elem
  BY DEF Stored
<1>7. \A q \in DOMAIN new : \E x \in E \cup {r} : x.item.ptr = q
  BY <1>1 DEF Stored
<1>8. Stored(E \cup {r}, new)
  BY <1>4, <1>5, <1>6, <1>7 DEF Stored
<1> QED
  BY <1>3, <1>8 DEF new

(* addBlock of BlockBitVector.                                             *)
LEMMA AddABlock ==
  ASSUME NEW c \in Nat, c + ChunkBits <= MaxHeight, NEW t, NEW st, NEW S, S \subseteq 0 .. c - 1,
         BlocksFit(t, st, c, S), Fresh(Entries(t)), NEW block \in Block
  PROVE  BlocksFit(InsertBlock(t, c, NewPtr(st), Ones(block, 0, ChunkBits - 1), ChunkBits),
                   Created(st, NewPtr(st), block), c + ChunkBits, S \cup OnesFrom(block, c, ChunkBits))
<1> DEFINE p == NewPtr(st)
           o == Ones(block, 0, ChunkBits - 1)
           i == [NoItem EXCEPT !.ptr = p, !.bits = ChunkBits]
           r == NewRecord(c, i, o)
           u == InsertBlock(t, c, p, o, ChunkBits)
           new == Created(st, p, block)
           R == S \cup OnesFrom(block, c, ChunkBits)
<1>0. ChunkBits \in Nat \ {0} /\ MaxHeight \in Nat /\ Bits = 0 .. ChunkBits - 1 /\ o \in Nat
  BY Numbers, OnesCount
<1>1. /\ SearchTree(t) /\ Blocks(Entries(t), ChunkBits) /\ Tiled(Entries(t), ChunkBits, c)
      /\ Stored(Entries(t), st)
      /\ \A x \in Entries(t), k \in Bits : Held(x, st)[k] = 1 <=> x.elem + k \in S
  BY DEF BlocksFit, BitsAre
<1>2. t \in Trees
  <2>1. c <= MaxHeight
    BY <1>0
  <2> QED
    BY <1>0, <1>1, <2>1, FitInTrees
<1>3. p \in Nat /\ p \notin DOMAIN st
  BY <1>1, NewPtrIs DEF Stored
<1>4. i \in Item /\ r.elem = c /\ r.item.ptr = p /\ r.item.bits = ChunkBits /\ r.own = o
  BY <1>0, <1>3 DEF NewRecord, NoItem, Item
<1> HIDE DEF p, o, r
<1>5. Tiled(Entries(t) \cup {r}, ChunkBits, c + ChunkBits) /\ \A x \in Entries(t) : x.elem # c
  BY <1>0, <1>1, <1>4, TiledNext
<1>6. SearchTree(u) /\ Entries(u) = Entries(t) \cup {r}
  BY <1>0, <1>1, <1>2, <1>4, <1>5, InsertAdds DEF InsertBlock, r
<1>7. /\ Stored(Entries(t) \cup {r}, new) /\ Held(r, new) = block
      /\ \A x \in Entries(t) : Held(x, new) = Held(x, st)
  <2> DEFINE E == Entries(t)
  <2>1. r.own = Ones(block, 0, ChunkBits - 1)
    BY <1>4 DEF o
  <2>2. Stored(E, st)
    BY <1>1
  <2> HIDE DEF E
  <2>3. /\ Stored(E \cup {r}, Created(st, p, block)) /\ Held(r, Created(st, p, block)) = block
        /\ \A x \in E : Held(x, Created(st, p, block)) = Held(x, st)
    BY <1>3, <1>4, <2>1, <2>2, StoredNext
  <2> QED
    BY <2>3 DEF E
<1> HIDE DEF u, new
<1>8. Blocks(Entries(u), ChunkBits)
  BY <1>1, <1>4, <1>5, <1>6 DEF Blocks, Tiled
<1>9. Stored(Entries(u), new)
  BY <1>6, <1>7
<1>10. ASSUME NEW x \in Entries(u), NEW k \in Bits PROVE Held(x, new)[k] = 1 <=> x.elem + k \in R
  <2>1. OnesFrom(block, c, ChunkBits) \subseteq c .. (c + ChunkBits) - 1
    BY <1>0, OnesFromNext
  <2>2. CASE x \in Entries(t)
    <3>1. x.elem \in Nat /\ x.elem + ChunkBits <= c /\ k \in 0 .. ChunkBits - 1
      BY <1>0, <1>1, <2>2 DEF Tiled
    <3>2. x.elem + k < c
      BY <1>0, <3>1
    <3>3. x.elem + k \notin OnesFrom(block, c, ChunkBits)
      BY <1>0, <2>1, <3>1, <3>2
    <3> QED
      BY <1>1, <1>7, <2>2, <3>3
  <2>3. CASE x = r
    <3>1. c + k \notin S
      BY <1>0
    <3>2. c + k \in OnesFrom(block, c, ChunkBits) <=> block[k] = 1
      <4>1. ASSUME NEW j \in 0 .. ChunkBits - 1, c + k = c + j PROVE j = k
        BY <1>0, <4>1
      <4>2. k \in 0 .. ChunkBits - 1
        BY <1>0
      <4> QED
        BY <4>1, <4>2 DEF OnesFrom
    <3> QED
      BY <1>4, <1>7, <2>3, <3>1, <3>2
  <2> QED
    BY <1>6, <2>2, <2>3
<1> HIDE DEF R
<1>11. BlocksFit(u, new, c + ChunkBits, R)
  BY <1>5, <1>6, <1>8, <1>9, <1>10 DEF BlocksFit, BitsAre
<1> QED
  BY <1>11 DEF u, new, R, p, o

-----------------------------------------------------------------------------
(* modify of BlockBitVector: the entry of the block changes its pointer    *)
(* and counts one more or less.                                            *)
NewHeld(x, p, add) == [elem |-> x.elem, item |-> [x.item EXCEPT !.ptr = p], ones |-> x.ones,
                       own |-> x.own + add]

(* One entry, b at e, changes to r.                                        *)
Change(E, b, e, r) == /\ b \in E /\ e = b.elem /\ r.elem = e
                      /\ \A x \in E : x.elem = e => x = b
Changed(E, b, r) == (E \ {b}) \cup {r}

(* The changed entry of a block.                                           *)
LEMMA NewHeldIs ==
  ASSUME NEW b \in EntrySet, NEW p \in Nat, NEW add
  PROVE  /\ NewHeld(b, p, add).elem = b.elem /\ NewHeld(b, p, add).item.ptr = p
         /\ NewHeld(b, p, add).item.bits = b.item.bits /\ NewHeld(b, p, add).own = b.own + add
<1>1. b.item \in Item
  BY DEF EntrySet
<1> QED
  BY <1>1 DEF NewHeld, Item

(* The pointer and the ones of one entry change together.                  *)
LEMMA PutBoth ==
  ASSUME NEW E, E \subseteq EntrySet, NEW b, NEW e, NEW p \in Nat, NEW add \in Int,
         Change(E, b, e, NewHeld(b, p, add))
  PROVE  /\ PutOwns(PutPtrs(E, e, p), e, add) = Changed(E, b, NewHeld(b, p, add))
         /\ \A x \in PutPtrs(E, e, p) : \E y \in E : x.elem = y.elem /\ x.item.bits = y.item.bits
         /\ ElemsOf(PutPtrs(E, e, p)) = ElemsOf(E)
<1>1. b \in EntrySet /\ b.item \in Item /\ b \in E /\ e = b.elem /\ \A x \in E : x.elem = e => x = b
  BY DEF EntrySet, Change
<1>3. \A x \in E : x # b => PutPtr(x, e, p) = x /\ PutOwn(x, e, add) = x
  BY <1>1 DEF PutPtr, PutOwn
<1>4. PutOwn(PutPtr(b, e, p), e, add) = NewHeld(b, p, add)
  BY <1>1 DEF PutPtr, PutOwn, NewHeld
<1>5. PutPtr(b, e, p).elem = b.elem /\ PutPtr(b, e, p).item.bits = b.item.bits
  BY <1>1 DEF PutPtr, Item
<1>6. PutOwns(PutPtrs(E, e, p), e, add) = {PutOwn(PutPtr(x, e, p), e, add) : x \in E}
  BY DEF PutOwns, PutPtrs
<1>7. {PutOwn(PutPtr(x, e, p), e, add) : x \in E} = (E \ {b}) \cup {NewHeld(b, p, add)}
  BY <1>1, <1>3, <1>4
<1>8. \A x \in E : PutPtr(x, e, p).elem = x.elem /\ PutPtr(x, e, p).item.bits = x.item.bits
  BY <1>1, <1>3, <1>5
<1>9. ElemsOf(PutPtrs(E, e, p)) = ElemsOf(E)
  <2>1. ElemsOf(PutPtrs(E, e, p)) = {PutPtr(x, e, p).elem : x \in E}
    BY DEF ElemsOf, PutPtrs
  <2> QED
    BY <1>8, <2>1 DEF ElemsOf
<1>10. \A x \in PutPtrs(E, e, p) : \E y \in E : x.elem = y.elem /\ x.item.bits = y.item.bits
  BY <1>8 DEF PutPtrs
<1> QED
  BY <1>6, <1>7, <1>9, <1>10 DEF Changed

(* The stores of that: the old block gone, the new one there.              *)
Owned(r, st, b, p, block) ==
  /\ p = NewPtr(Removed(st, b.item.ptr)) /\ r.item.ptr = p
  /\ r.own = Ones(block, 0, ChunkBits - 1) /\ block \in Block

Rewritten(E, b, r, st, new, block) ==
  /\ Held(r, new) = block
  /\ \A x \in E \ {b} : Held(x, new) = Held(x, st)

(* Stored anew, the changed block takes the place of the old one.          *)
LEMMA StoredChanged ==
  ASSUME NEW E, NEW st, Stored(E, st), NEW b, NEW e, NEW r, Change(E, b, e, r),
         NEW block, NEW p, Owned(r, st, b, p, block)
  PROVE  LET new == Created(Removed(st, b.item.ptr), p, block)
         IN  Stored(Changed(E, b, r), new) /\ Rewritten(E, b, r, st, new, block)
<1> DEFINE q == b.item.ptr
           w == Removed(st, q)
           new == Created(w, p, block)
<1>1. /\ b \in E /\ \A x \in E : x.elem = b.elem => x = b
      /\ block \in Block /\ r.item.ptr = p /\ r.own = Ones(block, 0, ChunkBits - 1)
  BY DEF Change, Owned
<1> DEFINE D == E \ {b}
<1>2. DOMAIN w = DOMAIN st \ {q} /\ \A a \in DOMAIN st \ {q} : Unpacked(w, a) = Unpacked(st, a)
  BY RemovedIs
<1>3. p = NewPtr(w)
  BY DEF Owned
<1> HIDE DEF w
<1>4. \A x \in D : x.item.ptr \in DOMAIN st \ {q}
  BY <1>1 DEF Stored
<1>5. \A x \in D : Held(x, w) = Held(x, st)
  BY <1>2, <1>4 DEF Held
<1>6. Stored(D, w)
  <2>1. IsFiniteSet(DOMAIN w) /\ DOMAIN w \subseteq Nat
    <3>1. IsFiniteSet(DOMAIN st) /\ DOMAIN st \subseteq Nat
      BY DEF Stored
    <3>2. IsFiniteSet(DOMAIN st \ {q})
      BY <3>1, FS_RemoveElement
    <3> QED
      BY <1>2, <3>1, <3>2
  <2>2. \A x \in D : x.item.ptr \in DOMAIN w /\ Held(x, w) \in Block
                     /\ x.own = Ones(Held(x, w), 0, ChunkBits - 1)
    BY <1>2, <1>4, <1>5 DEF Stored
  <2>3. \A x, y \in D : x.item.ptr = y.item.ptr => x.elem = y.elem
    BY DEF Stored
  <2>4. \A a \in DOMAIN w : \E x \in D : x.item.ptr = a
    BY <1>2 DEF Stored
  <2> QED
    BY <2>1, <2>2, <2>3, <2>4 DEF Stored
<1>7. p \in Nat /\ p \notin DOMAIN w
  <2>1. IsFiniteSet(DOMAIN w) /\ p = NewPtr(w)
    BY <1>3, <1>6 DEF Stored
  <2> QED
    BY <2>1, NewPtrIs
<1> HIDE DEF D, q
<1>8. /\ Stored(D \cup {r}, Created(w, p, block)) /\ Held(r, Created(w, p, block)) = block
      /\ \A x \in D : Held(x, Created(w, p, block)) = Held(x, w)
  BY <1>1, <1>6, <1>7, StoredNext
<1>9. \A x \in D : Held(x, Created(w, p, block)) = Held(x, st)
  BY <1>5, <1>8
<1> QED
  BY <1>8, <1>9 DEF D, w, q, Changed, Rewritten

-----------------------------------------------------------------------------
(* The node of the block that holds a bit.                                 *)
LEMMA FoundBlock ==
  ASSUME NEW c \in Nat, c <= MaxHeight, NEW t, NEW st, NEW S, BlocksFit(t, st, c, S),
         NEW pos \in 0 .. c - 1
  PROVE  LET node  == FindBlock(t, pos)
             block == Unpacked(st, node.item.ptr)
             k     == pos - node.elem
         IN  /\ node \in Node(AllTrees) /\ node # Nil /\ Entry(node) \in Entries(t)
             /\ k \in Bits /\ node.elem + k = pos /\ node.elem \in Int
             /\ block \in Block /\ Held(Entry(node), st) = block
             /\ block[k] = 1 <=> pos \in S
<1> DEFINE node  == FindBlock(t, pos)
           block == Unpacked(st, node.item.ptr)
           k     == pos - node.elem
<1>0. ChunkBits \in Nat \ {0} /\ Bits = 0 .. ChunkBits - 1 /\ MaxHeight \in Nat
  BY Numbers
<1>1. /\ SearchTree(t) /\ Blocks(Entries(t), ChunkBits) /\ Tiled(Entries(t), ChunkBits, c)
      /\ Stored(Entries(t), st)
      /\ \A x \in Entries(t), j \in Bits : Held(x, st)[j] = 1 <=> x.elem + j \in S
  BY DEF BlocksFit, BitsAre
<1>2. t \in Trees /\ pos \in Int
  <2>1. SearchTree(t) /\ Tiled(Entries(t), ChunkBits, c)
    BY <1>1
  <2> HIDE DEF node, block, k
  <2>2. t \in Trees
    BY <1>0, <2>1, FitInTrees
  <2> QED
    BY <2>2
<1>3. \/ node \in Node(AllTrees) /\ Entry(node) \in Entries(t) /\ Covers(Entry(node), ChunkBits, pos)
      \/ node = Nil /\ \A x \in Entries(t) : ~Covers(x, ChunkBits, pos)
  BY <1>0, <1>1, <1>2, FindBlockHas
<1>4. \E x \in Entries(t) : Covers(x, ChunkBits, pos)
  BY <1>1 DEF Tiled
<1> HIDE DEF node
<1>5. node \in Node(AllTrees) /\ Entry(node) \in Entries(t) /\ Covers(Entry(node), ChunkBits, pos)
  BY <1>3, <1>4
<1>6. /\ node.elem \in Int /\ Entry(node).elem = node.elem /\ Entry(node).item = node.item
      /\ node # Nil
  BY <1>5, EntryFields, NodeFields
<1>7. node.elem <= pos /\ pos < node.elem + ChunkBits
  BY <1>5, <1>6 DEF Covers
<1>8. k \in Bits /\ node.elem + k = pos
  BY <1>0, <1>2, <1>6, <1>7
<1>9. Held(Entry(node), st) = block /\ block \in Block
  BY <1>1, <1>5, <1>6 DEF Held, Stored
<1> HIDE DEF k, block
<1>10. block[k] = 1 <=> pos \in S
  BY <1>1, <1>5, <1>6, <1>8, <1>9
<1> QED
  BY <1>5, <1>6, <1>8, <1>9, <1>10 DEF node, k, block

(* node->ptr = p and updatePath, for the block of the entry b.             *)
LEMMA ChangeEntry ==
  ASSUME NEW t \in Trees, SearchTree(t), Blocks(Entries(t), ChunkBits), NEW b \in Entries(t),
         NEW p \in Nat, NEW add \in Int
  PROVE  LET u == UpdatePath(SetPtr(t, b.elem, p), b.elem, add)
             r == NewHeld(b, p, add)
         IN  /\ Change(Entries(t), b, b.elem, r)
             /\ (\A x \in Entries(t) : x.elem \in 0 .. MaxHeight - 1)
                  => SearchTree(u) /\ Entries(u) = Changed(Entries(t), b, r)
<1> DEFINE e == b.elem
           E == Entries(t)
           r == NewHeld(b, p, add)
           s == SetPtr(t, e, p)
           u == UpdatePath(s, e, add)
<1>0. E \subseteq EntrySet /\ e \in Int /\ b \in EntrySet /\ ChunkBits \in Nat \ {0} /\ MaxHeight \in Nat
  BY EntriesType, Numbers DEF SearchTree, EntrySet
<1>1. \A x \in E : x.elem = e => x = b
  BY EntryByElem
<1>2. r.elem = e
  BY <1>0, NewHeldIs
<1>3. Change(E, b, e, r)
  <2> HIDE DEF r
  <2> QED
    BY <1>1, <1>2 DEF Change
<1>4. /\ PutOwns(PutPtrs(E, e, p), e, add) = Changed(E, b, r)
      /\ \A x \in PutPtrs(E, e, p) : \E y \in E : x.elem = y.elem /\ x.item.bits = y.item.bits
      /\ ElemsOf(PutPtrs(E, e, p)) = ElemsOf(E)
  <2> HIDE DEF e, E
  <2> QED
    BY <1>0, <1>3, PutBoth
<1>5. SearchTree(s) /\ Entries(s) = PutPtrs(E, e, p)
  BY <1>0, SetPtrKeeps
<1> HIDE DEF s, e, r
<1>6. ASSUME \A x \in E : x.elem \in 0 .. MaxHeight - 1
      PROVE  SearchTree(u) /\ Entries(u) = Changed(E, b, r)
  <2>1. s \in Trees
    <3>1. \A x \in Entries(s) : x.elem \in 0 .. MaxHeight - 1
      BY <1>4, <1>5, <1>6
    <3> QED
      BY <1>0, <1>5, <3>1, InTrees
  <2>2. Spaced(Entries(s), ChunkBits)
    <3> SUFFICES ASSUME NEW x \in Entries(s), NEW y \in Entries(s), x.elem < y.elem
                 PROVE  x.elem + ChunkBits <= y.elem
      BY DEF Spaced
    <3>1. PICK v \in E : x.elem = v.elem
      BY <1>4, <1>5
    <3>2. PICK w \in E : y.elem = w.elem
      BY <1>4, <1>5
    <3> QED
      BY <3>1, <3>2 DEF Blocks, Spaced
  <2>3. \A x \in Entries(s) : x.item.bits = ChunkBits
    BY <1>4, <1>5 DEF Blocks
  <2>4. e \in ElemsOf(Entries(s))
    BY <1>4, <1>5 DEF ElemsOf, e
  <2>5. Blocks(Entries(s), ChunkBits)
    BY <2>2, <2>3 DEF Blocks
  <2> HIDE DEF E
  <2>6. SearchTree(u) /\ Entries(u) = PutOwns(Entries(s), e, add)
    BY <1>0, <1>5, <2>1, <2>4, <2>5, UpdatePathKeeps
  <2> QED
    BY <1>4, <1>5, <2>6
<1> QED
  BY <1>3, <1>6 DEF s, e, r

(* The blocks still lie end to end.                                        *)
LEMMA ChangedTiles ==
  ASSUME NEW E, NEW c \in Nat, Blocks(E, ChunkBits), Tiled(E, ChunkBits, c), NEW b, NEW e, NEW r,
         Change(E, b, e, r), r.item.bits = b.item.bits
  PROVE  Blocks(Changed(E, b, r), ChunkBits) /\ Tiled(Changed(E, b, r), ChunkBits, c)
<1> DEFINE F == Changed(E, b, r)
<1>0. b \in E /\ e = b.elem /\ r.elem = e /\ \A x \in E : x.elem = e => x = b
  BY DEF Change
<1>1. \A x \in F : \E y \in E : x.elem = y.elem /\ x.item.bits = y.item.bits
  BY <1>0 DEF Changed
<1>2. \A y \in E : \E x \in F : x.elem = y.elem
  BY <1>0 DEF Changed
<1> HIDE DEF F
<1>3. Spaced(F, ChunkBits)
  <2> SUFFICES ASSUME NEW x \in F, NEW y \in F, x.elem < y.elem PROVE x.elem + ChunkBits <= y.elem
    BY DEF Spaced
  <2>1. PICK v \in E : x.elem = v.elem
    BY <1>1
  <2>2. PICK w \in E : y.elem = w.elem
    BY <1>1
  <2> QED
    BY <2>1, <2>2 DEF Blocks, Spaced
<1>4. Blocks(F, ChunkBits)
  BY <1>1, <1>3 DEF Blocks
<1>5. \A x \in F : x.elem \in Nat /\ x.elem + ChunkBits <= c
  BY <1>1 DEF Tiled
<1>6. ASSUME NEW q \in 0 .. c - 1 PROVE \E x \in F : Covers(x, ChunkBits, q)
  <2>1. PICK y \in E : Covers(y, ChunkBits, q)
    BY DEF Tiled
  <2>2. PICK x \in F : x.elem = y.elem
    BY <1>2
  <2> QED
    BY <2>1, <2>2 DEF Covers
<1>7. Tiled(F, ChunkBits, c)
  BY <1>3, <1>5, <1>6 DEF Tiled
<1> QED
  BY <1>4, <1>7 DEF F

(* One bit of the blocks is another.                                       *)
LEMMA ChangedBits ==
  ASSUME NEW E, NEW c \in Nat, Tiled(E, ChunkBits, c), NEW st, NEW S,
         BitsAre(E, st, S), NEW b, NEW e \in Int, NEW r, Change(E, b, e, r), NEW k \in Bits, NEW val \in {0, 1},
         Held(b, st) \in Block, NEW new,
         Rewritten(E, b, r, st, new, [Held(b, st) EXCEPT ![k] = val])
  PROVE  BitsAre(Changed(E, b, r), new, NewData(S, e + k, val))
<1> SUFFICES ASSUME NEW x \in Changed(E, b, r), NEW j \in Bits
             PROVE  Held(x, new)[j] = 1 <=> x.elem + j \in NewData(S, e + k, val)
  BY DEF BitsAre
<1>0. /\ j \in Int /\ k \in Int /\ j \in 0 .. ChunkBits - 1 /\ k \in 0 .. ChunkBits - 1
      /\ ChunkBits \in Nat
  BY Numbers
<1>1. b \in E /\ e = b.elem /\ r.elem = e /\ \A y \in E : y.elem = e => y = b
  BY DEF Change
<1>2. \A p : p \in NewData(S, e + k, val) <=> (IF p = e + k THEN val = 1 ELSE p \in S)
  BY DEF NewData
<1>3. CASE x = r
  <2>1. [Held(b, st) EXCEPT ![k] = val][j] = IF j = k THEN val ELSE Held(b, st)[j]
    BY DEF Block
  <2>2. Held(b, st)[j] = 1 <=> e + j \in S
    BY <1>1 DEF BitsAre
  <2>3. e + j = e + k <=> j = k
    BY <1>0
  <2> QED
    BY <1>1, <1>2, <1>3, <2>1, <2>2, <2>3 DEF Rewritten
<1>4. CASE x \in E \ {b}
  <2>1. Held(x, new)[j] = 1 <=> x.elem + j \in S
    BY <1>4 DEF Rewritten, BitsAre
  <2>2. x.elem # e /\ x.elem \in Int
    BY <1>1, <1>4 DEF Tiled
  <2>3. x.elem < e => x.elem + ChunkBits <= e
    BY <1>1, <1>4 DEF Tiled, Spaced
  <2>4. e < x.elem => e + ChunkBits <= x.elem
    BY <1>1, <1>4 DEF Tiled, Spaced
  <2>5. x.elem + j # e + k
    BY <1>0, <2>2, <2>3, <2>4
  <2> QED
    BY <1>2, <2>1, <2>5
<1> QED
  BY <1>3, <1>4 DEF Changed

OldBit(t, st, pos) ==
  LET node  == FindBlock(t, pos)
      block == Unpacked(st, node.item.ptr)
  IN  block[pos - node.elem]

(* modify of BlockBitVector, of a bit that has another value.              *)
LEMMA ModifyABlock ==
  ASSUME NEW c \in Nat, c <= MaxHeight, NEW t, NEW st, NEW S, BlocksFit(t, st, c, S),
         NEW pos \in 0 .. c - 1, NEW val \in {0, 1},
         OldBit(t, st, pos) # val
  PROVE  LET node  == FindBlock(t, pos)
             block == Unpacked(st, node.item.ptr)
             p     == NewPtr(Removed(st, node.item.ptr))
             u     == UpdatePath(SetPtr(t, node.elem, p), node.elem, IF val = 1 THEN 1 ELSE -1)
             new   == Created(Removed(st, node.item.ptr), p, [block EXCEPT ![pos - node.elem] = val])
         IN  BlocksFit(u, new, c, NewData(S, pos, val))
<1> DEFINE node == FindBlock(t, pos)
           block == Unpacked(st, node.item.ptr)
           k == pos - node.elem
           p == NewPtr(Removed(st, node.item.ptr))
           add == IF val = 1 THEN 1 ELSE -1
           E == Entries(t)
           b == Entry(node)
           r == NewHeld(b, p, add)
           nb == [block EXCEPT ![k] = val]
           new == Created(Removed(st, b.item.ptr), p, nb)
           u == UpdatePath(SetPtr(t, b.elem, p), b.elem, add)
<1>0. /\ ChunkBits \in Nat \ {0} /\ MaxHeight \in Nat /\ add \in Int
      /\ block[k] # val
  BY Numbers DEF OldBit
<1>1. /\ SearchTree(t) /\ Blocks(E, ChunkBits) /\ Tiled(E, ChunkBits, c) /\ Stored(E, st)
      /\ BitsAre(E, st, S)
  BY DEF BlocksFit
<1>2. /\ node \in Node(AllTrees) /\ b \in E /\ k \in Bits /\ node.elem + k = pos
      /\ node.elem \in Int /\ block \in Block /\ Held(b, st) = block
  BY FoundBlock
<1>3. b.elem = node.elem /\ b.item = node.item
  BY EntryFields
<1>4. p = NewPtr(Removed(st, b.item.ptr))
  BY <1>3
<1> HIDE DEF E, node, block, k, p, add, b
<1>5. t \in Trees
  BY <1>0, <1>1, FitInTrees DEF E
<1>6. nb \in Block /\ Ones(nb, 0, ChunkBits - 1) = Ones(block, 0, ChunkBits - 1) + add
  BY <1>0, <1>2, OnesCount DEF Block, add
<1>7. p \in Nat
  <2>1. IsFiniteSet(DOMAIN Removed(st, b.item.ptr))
    <3>1. IsFiniteSet(DOMAIN st)
      BY <1>1 DEF Stored
    <3>2. IsFiniteSet(DOMAIN st \ {b.item.ptr})
      BY <3>1, FS_RemoveElement
    <3> QED
      BY <3>2, RemovedIs
  <2> QED
    BY <1>4, <2>1, NewPtrIs
<1>8. \A x \in E : x.elem \in 0 .. MaxHeight - 1
  BY <1>0, <1>1 DEF Tiled
<1>9. Change(E, b, b.elem, r) /\ SearchTree(u) /\ Entries(u) = Changed(E, b, r)
  <2> HIDE DEF r, u
  <2>1. Blocks(Entries(t), ChunkBits) /\ b \in Entries(t) /\ \A x \in Entries(t) : x.elem \in 0 .. MaxHeight - 1
    BY <1>1, <1>2, <1>8 DEF E
  <2> QED
    BY <1>0, <1>1, <1>5, <1>7, <2>1, ChangeEntry DEF E, r, u
<1>10. /\ r.elem = b.elem /\ r.item.ptr = p /\ r.item.bits = b.item.bits /\ r.own = b.own + add
  <2>1. b \in EntrySet
    BY <1>1, <1>2, EntriesType DEF E, SearchTree
  <2> QED
    BY <1>7, <2>1, NewHeldIs
<1> HIDE DEF r, u
<1>11. Owned(r, st, b, p, nb)
  <2>1. b.own = Ones(block, 0, ChunkBits - 1)
    BY <1>1, <1>2 DEF Stored
  <2> QED
    BY <1>4, <1>6, <1>10, <2>1 DEF Owned
<1> HIDE DEF nb
<1>12. Stored(Changed(E, b, r), new) /\ Rewritten(E, b, r, st, new, nb)
  BY <1>1, <1>9, <1>11, StoredChanged
<1> HIDE DEF new
<1>13. Blocks(Changed(E, b, r), ChunkBits) /\ Tiled(Changed(E, b, r), ChunkBits, c)
  BY <1>1, <1>9, <1>10, ChangedTiles
<1>14. BitsAre(Changed(E, b, r), new, NewData(S, b.elem + k, val))
  <2>1. /\ Held(b, st) \in Block /\ b.elem \in Int
        /\ Rewritten(E, b, r, st, new, [Held(b, st) EXCEPT ![k] = val])
    BY <1>2, <1>3, <1>12 DEF nb
  <2> QED
    BY <1>1, <1>2, <1>9, <1>12, <2>1, ChangedBits
<1>15. b.elem + k = pos
  BY <1>2, <1>3
<1>16. BlocksFit(u, new, c, NewData(S, pos, val))
  BY <1>9, <1>12, <1>13, <1>14, <1>15 DEF BlocksFit
<1>17. u = UpdatePath(SetPtr(t, node.elem, p), node.elem, add)
  BY <1>3 DEF u
<1>18. new = Created(Removed(st, node.item.ptr), p, nb)
  BY <1>3 DEF new
<1> QED
  BY <1>16, <1>17, <1>18 DEF node, block, k, p, add, nb

-----------------------------------------------------------------------------
(* modify of SetBitVector.                                                 *)
LEMMA ModifyASet ==
  ASSUME NEW c \in Nat, c <= MaxHeight, NEW t, SetFits(t, c), NEW pos \in 0 .. c - 1, NEW val \in {0, 1}
  PROVE  LET u == IF Find(t, pos) = (val = 1) THEN t
                  ELSE IF val = 1 THEN Insert(t, pos, NoItem, 1)
                  ELSE DeleteElem(t, pos)
         IN  SetFits(u, c) /\ ElemsOf(Entries(u)) = NewData(ElemsOf(Entries(t)), pos, val)
<1> DEFINE S == ElemsOf(Entries(t))
<1>1. /\ t \in Trees /\ SearchTree(t) /\ Plain(Entries(t)) /\ S \subseteq 0 .. c - 1 /\ pos \in Int
  BY FitInTrees DEF SetFits
<1>2. Find(t, pos) <=> pos \in S
  <2>1. Find(t, pos) <=> \E x \in Entries(t) : x.elem = pos
    BY <1>1, FindHas
  <2> QED
    BY <2>1 DEF ElemsOf
<1>3. Find(t, pos) \in BOOLEAN
  BY <1>1, FindIs
<1>4. CASE Find(t, pos) = (val = 1)
  <2>1. S = NewData(S, pos, val)
    BY <1>2, <1>3, <1>4 DEF NewData
  <2> QED
    BY <1>4, <2>1
<1>5. CASE Find(t, pos) # (val = 1) /\ val = 1
  <2>1. pos \notin S /\ NewData(S, pos, val) = S \cup {pos}
    BY <1>2, <1>3, <1>5 DEF NewData
  <2>2. LET u == Insert(t, pos, NoItem, 1)
        IN  /\ SearchTree(u) /\ Plain(Entries(u))
            /\ ElemsOf(Entries(u)) = S \cup {pos}
    BY <1>1, <2>1, InsertOne
  <2> QED
    BY <1>1, <1>5, <2>1, <2>2 DEF SetFits
<1>6. CASE Find(t, pos) # (val = 1) /\ val = 0
  <2>1. NewData(S, pos, val) = S \ {pos} /\ DeleteElem(t, pos) = DeleteFrom(t, pos)
    BY <1>3, <1>6 DEF NewData, DeleteElem
  <2>2. SearchTree(DeleteFrom(t, pos)) /\ Entries(DeleteFrom(t, pos)) = Without(Entries(t), pos)
    BY <1>1, DeleteFromKeeps
  <2>3. Plain(Without(Entries(t), pos)) /\ ElemsOf(Without(Entries(t), pos)) = S \ {pos}
    BY <1>1 DEF Plain, Without, ElemsOf
  <2>4. ElemsOf(Without(Entries(t), pos)) \subseteq 0 .. c - 1
    BY <1>1, <2>3
  <2>5. SetFits(DeleteFrom(t, pos), c) /\ ElemsOf(Entries(DeleteFrom(t, pos))) = S \ {pos}
    BY <2>2, <2>3, <2>4 DEF SetFits
  <2> QED
    BY <1>6, <2>1, <2>5
<1> QED
  BY <1>4, <1>5, <1>6

(* setOne, in a row of words.                                              *)
LEMMA PutBitsRight ==
  ASSUME NEW c \in Nat, NEW E, E \subseteq EntrySet, Words(E), Tiled(E, IntBit, c),
         NEW pos \in 0 .. c - 1, NEW val \in {0, 1}
  PROVE  /\ Words(PutBits(E, pos, val)) /\ Tiled(PutBits(E, pos, val), IntBit, c)
         /\ \A e \in Int : HasBit(PutBits(E, pos, val), e)
                             <=> IF e = pos THEN val = 1 ELSE HasBit(E, e)
<1> DEFINE F == PutBits(E, pos, val)
           Put(x) == PutBit(x, pos, val)
<1>0. IntBit \in Nat \ {0} /\ pos \in Int
  BY Numbers
<1>1. /\ Spaced(E, IntBit) /\ (\A x \in E : x.elem \in Nat /\ x.elem + IntBit <= c)
      /\ \A p \in 0 .. c - 1 : \E x \in E : Covers(x, IntBit, p)
  BY DEF Tiled
<1>2. \A x \in E : x.item \in Item /\ x.item.data \subseteq 0 .. IntBit - 1
  BY DEF EntrySet, Words, WordEntry
<1>3. \A x \in E : Put(x).elem = x.elem
  BY DEF PutBit, WithData
<1>4. F = {Put(x) : x \in E}
  BY DEF PutBits
<1>5. ASSUME NEW x \in E
      PROVE  /\ Covers(x, IntBit, pos) => Put(x).item.data = NewData(x.item.data, pos - x.elem, val)
             /\ ~Covers(x, IntBit, pos) => Put(x) = x
             /\ WordEntry(Put(x))
  <2>1. CASE Covers(x, IntBit, pos)
    <3> DEFINE d == NewData(x.item.data, pos - x.elem, val)
    <3>1. pos - x.elem \in 0 .. IntBit - 1
      BY <1>0, <1>1, <2>1 DEF Covers
    <3>2. d \subseteq 0 .. IntBit - 1
      BY <1>2, <3>1 DEF NewData
    <3>3. Put(x) = WithData(x, d)
      BY <2>1 DEF PutBit
    <3> HIDE DEF d
    <3>4. WithData(x, d).item.data = d /\ WithData(x, d).ones = GetOnes(d) /\ WithData(x, d).own = GetOnes(d)
      BY <1>2 DEF WithData, Item
    <3>5. WordEntry(WithData(x, d))
      BY <3>2, <3>4 DEF WordEntry
    <3> QED
      BY <2>1, <3>3, <3>4, <3>5 DEF d
  <2>2. CASE ~Covers(x, IntBit, pos)
    BY <2>2 DEF PutBit, Words
  <2> QED
    BY <2>1, <2>2
<1> HIDE DEF Put, F
<1>6. Spaced(F, IntBit)
  BY <1>1, <1>3, <1>4 DEF Spaced
<1>7. Words(F)
  BY <1>4, <1>5, <1>6 DEF Words
<1>8. Tiled(F, IntBit, c)
  <2>1. \A x \in F : x.elem \in Nat /\ x.elem + IntBit <= c
    BY <1>1, <1>3, <1>4
  <2>2. ASSUME NEW p \in 0 .. c - 1 PROVE \E x \in F : Covers(x, IntBit, p)
    <3>1. PICK x \in E : Covers(x, IntBit, p)
      BY <1>1
    <3>2. Put(x) \in F /\ Covers(Put(x), IntBit, p)
      BY <1>3, <1>4, <3>1 DEF Covers
    <3> QED
      BY <3>2
  <2> QED
    BY <1>6, <2>1, <2>2 DEF Tiled
<1>9. ASSUME NEW e \in Int PROVE HasBit(F, e) <=> IF e = pos THEN val = 1 ELSE HasBit(E, e)
  <2>1. HasBit(F, e) <=> \E x \in E : e - x.elem \in Put(x).item.data
    BY <1>3, <1>4 DEF HasBit
  <2>2. CASE e # pos
    <3>1. ASSUME NEW x \in E PROVE e - x.elem \in Put(x).item.data <=> e - x.elem \in x.item.data
      <4>1. x.elem \in Int
        BY <1>1
      <4>2. e - x.elem # pos - x.elem
        BY <1>0, <2>2, <4>1
      <4> QED
        BY <1>5, <4>2 DEF NewData
    <3> QED
      BY <2>1, <2>2, <3>1 DEF HasBit
  <2>3. CASE e = pos
    <3>1. ASSUME NEW x \in E, ~Covers(x, IntBit, pos) PROVE pos - x.elem \notin Put(x).item.data
      <4>1. Put(x) = x /\ x.item.data \subseteq 0 .. IntBit - 1 /\ x.elem \in Int
        BY <1>1, <1>2, <1>5, <3>1
      <4>2. pos - x.elem \notin 0 .. IntBit - 1
        BY <1>0, <3>1, <4>1 DEF Covers
      <4> QED
        BY <4>1, <4>2
    <3>2. \A x \in E : Covers(x, IntBit, pos) => (pos - x.elem \in Put(x).item.data <=> val = 1)
      BY <1>5 DEF NewData
    <3>3. \E x \in E : Covers(x, IntBit, pos)
      BY <1>1
    <3> QED
      BY <2>1, <2>3, <3>1, <3>2, <3>3
  <2> QED
    BY <2>2, <2>3
<1> QED
  BY <1>7, <1>8, <1>9 DEF F

(* modify of AdvancedSetBitVector.                                         *)
LEMMA ModifyAWord ==
  ASSUME NEW c \in Nat, c <= MaxHeight, NEW t, NEW S, WordsFit(t, c, S),
         NEW pos \in 0 .. c - 1, NEW val \in {0, 1}
  PROVE  WordsFit(ModifyBit(t, pos, val), c, NewData(S, pos, val))
<1> DEFINE u == ModifyBit(t, pos, val)
           E == Entries(t)
           F == PutBits(E, pos, val)
<1>1. /\ SearchTree(t) /\ Words(E) /\ Tiled(E, IntBit, c)
      /\ \A e \in Int : HasBit(E, e) <=> e \in S
  BY DEF WordsFit
<1>2. t \in Trees /\ E \subseteq EntrySet
  <2>1. IntBit \in Nat \ {0}
    BY Numbers
  <2>2. t \in Trees
    BY <1>1, <2>1, FitInTrees
  <2>3. E \subseteq EntrySet
    BY <1>1, EntriesType DEF SearchTree
  <2> QED
    BY <2>2, <2>3
<1>3. SearchTree(u) /\ Entries(u) = F
  BY <1>1, <1>2, ModifyBitKeeps
<1> HIDE DEF E, u
<1>4. Words(F) /\ Tiled(F, IntBit, c)
      /\ \A e \in Int : HasBit(F, e) <=> IF e = pos THEN val = 1 ELSE HasBit(E, e)
  BY <1>1, <1>2, PutBitsRight
<1> HIDE DEF F
<1>5. \A e \in Int : HasBit(F, e) <=> e \in NewData(S, pos, val)
  BY <1>1, <1>4 DEF NewData
<1> QED
  BY <1>3, <1>4, <1>5 DEF WordsFit, u

-----------------------------------------------------------------------------
(* The empty vectors.                                                      *)
LEMMA InitFits == Init => Invariant
<1> SUFFICES ASSUME Init PROVE Invariant
  OBVIOUS
<1>1. setTree = Nil /\ wordTree = Nil /\ blockTree = Nil /\ counter = 0 /\ DOMAIN store = {}
  BY DEF Init
<1>2. 0 * ChunkBits = 0 /\ counter \in 0 .. MaxBlocks
  BY <1>1, Numbers
<1>3. Entries(Nil) = {} /\ SearchTree(Nil) /\ ElemsOf({}) = {}
  BY EntriesNil, SearchNil DEF ElemsOf
<1>4. SetFits(Nil, 0)
  BY <1>3 DEF SetFits, Plain
<1>5. \A n \in Nat : Spaced({}, n) /\ Tiled({}, n, 0)
  BY DEF Spaced, Tiled
<1>6. WordsFit(Nil, 0, {})
  BY <1>3, <1>5, Numbers DEF WordsFit, Words, HasBit
<1>7. BlocksFit(Nil, store, 0, {})
  <2>1. Stored({}, store)
    BY <1>1, FS_EmptySet DEF Stored
  <2> QED
    BY <1>3, <1>5, <2>1, Numbers DEF BlocksFit, Blocks, BitsAre
<1> QED
  BY <1>1, <1>2, <1>3, <1>4, <1>6, <1>7 DEF Invariant

(* addBlock keeps the invariant, and the places of the ones of the block   *)
(* are added.                                                              *)
LEMMA AddFits ==
  ASSUME Invariant, NEW block \in Added, AddBlock(block)
  PROVE  /\ Invariant'
         /\ ElemsOf(Entries(setTree))' = ElemsOf(Entries(setTree))
                                           \cup OnesFrom(block, counter * ChunkBits, ChunkBits)
<1> DEFINE c == counter * ChunkBits
           S == ElemsOf(Entries(setTree))
           R == S \cup OnesFrom(block, c, ChunkBits)
<1>1. /\ counter \in 0 .. MaxBlocks /\ SetFits(setTree, c) /\ WordsFit(wordTree, c, S)
      /\ BlocksFit(blockTree, store, c, S)
  BY DEF Invariant
<1>2. block \in Block
  BY ClientAssumption
<1>3. /\ counter < MaxBlocks /\ NumOnesUpToDate
      /\ setTree' = InsertOnes(setTree, block, c)
      /\ wordTree' = InsertWords(wordTree, block, c)
      /\ store' = Created(store, NewPtr(store), block)
      /\ blockTree' = InsertBlock(blockTree, c, NewPtr(store), Ones(block, 0, ChunkBits - 1), ChunkBits)
      /\ counter' = counter + 1
  BY DEF AddBlock
<1>4. /\ counter + 1 \in 0 .. MaxBlocks /\ c \in Nat /\ c <= MaxHeight /\ MaxHeight \in Nat
      /\ (counter + 1) * ChunkBits = c + ChunkBits /\ c + ChunkBits <= MaxHeight /\ ChunkBits \in Nat \ {0}
  <2>1. counter \in Nat /\ counter + 1 \in 0 .. MaxBlocks
    BY <1>1, <1>3, Numbers
  <2> QED
    BY <1>1, <2>1, Numbers
<1>5. S \subseteq 0 .. c - 1 /\ S \subseteq Int
  <2>1. S \subseteq 0 .. c - 1
    BY <1>1 DEF SetFits
  <2> QED
    BY <2>1
<1> HIDE DEF c, S
<1>6. SetFits(setTree', c + ChunkBits) /\ ElemsOf(Entries(setTree')) = R
  BY <1>1, <1>2, <1>3, <1>4, AddSet DEF S
<1>7. WordsFit(wordTree', c + ChunkBits, R)
  BY <1>1, <1>2, <1>3, <1>4, <1>5, AddWords
<1>8. Fresh(Entries(blockTree))
  <2>1. blockTree \in Trees
    <3>1. SearchTree(blockTree) /\ Tiled(Entries(blockTree), ChunkBits, c)
      BY <1>1 DEF BlocksFit
    <3> QED
      BY <1>4, <3>1, FitInTrees
  <2>2. \A n \in NodesOf(blockTree) : n.ones = OwnOnes(n)
    BY <1>3, <2>1, NodesAreNodesOf DEF NumOnesUpToDate
  <2> QED
    BY <2>2, EntryFields DEF Fresh, Entries
<1>9. BlocksFit(blockTree', store', c + ChunkBits, R)
  BY <1>1, <1>2, <1>3, <1>4, <1>5, <1>8, AddABlock
<1>10. counter' * ChunkBits = c + ChunkBits
  BY <1>3, <1>4
<1>11. Invariant'
  BY <1>3, <1>4, <1>6, <1>7, <1>9, <1>10 DEF Invariant
<1> QED
  BY <1>6, <1>11 DEF c, S, R

(* modify keeps it, and one place is added or taken away.                  *)
LEMMA ModifyFits ==
  ASSUME Invariant, NEW pos \in 0 .. counter * ChunkBits - 1, NEW val \in {0, 1}, Modify(pos, val)
  PROVE  /\ Invariant' /\ counter' = counter
         /\ ElemsOf(Entries(setTree))' = NewData(ElemsOf(Entries(setTree)), pos, val)
<1> DEFINE c == counter * ChunkBits
           S == ElemsOf(Entries(setTree))
           R == NewData(S, pos, val)
<1>1. /\ counter \in 0 .. MaxBlocks /\ SetFits(setTree, c) /\ WordsFit(wordTree, c, S)
      /\ BlocksFit(blockTree, store, c, S)
  BY DEF Invariant
<1>2. /\ setTree' = IF Find(setTree, pos) = (val = 1) THEN setTree
                    ELSE IF val = 1 THEN Insert(setTree, pos, NoItem, 1)
                    ELSE DeleteElem(setTree, pos)
      /\ wordTree' = ModifyBit(wordTree, pos, val)
      /\ counter' = counter
  BY DEF Modify, ModifySet, ModifyWord
<1>3. ModifyBlock(pos, val)
  BY DEF Modify
<1>4. c \in Nat /\ c <= MaxHeight /\ pos \in 0 .. c - 1
  BY <1>1, Numbers
<1> HIDE DEF c
<1>5. SetFits(setTree', c) /\ ElemsOf(Entries(setTree')) = R
  BY <1>1, <1>2, <1>4, ModifyASet
<1> HIDE DEF S
<1>6. WordsFit(wordTree', c, R)
  BY <1>1, <1>2, <1>4, ModifyAWord
<1>7. BlocksFit(blockTree', store', c, R)
  <2> DEFINE node  == FindBlock(blockTree, pos)
             block == Unpacked(store, node.item.ptr)
             k     == pos - node.elem
             p     == NewPtr(Removed(store, node.item.ptr))
  <2>1. Decompress(store[node.item.ptr]) = block
    BY DEF Unpacked
  <2>2. CASE block[k] = val
    <3>1. blockTree' = blockTree /\ store' = store
      BY <1>3, <2>1, <2>2 DEF ModifyBlock
    <3>2. block[k] = 1 <=> pos \in S
      BY <1>1, <1>4, FoundBlock
    <3>3. R = S
      BY <2>2, <3>2 DEF NewData
    <3> QED
      BY <1>1, <3>1, <3>3
  <2>3. CASE block[k] # val
    <3>1. /\ store' = Created(Removed(store, node.item.ptr), p, [block EXCEPT ![k] = val])
          /\ blockTree' = UpdatePath(SetPtr(blockTree, node.elem, p), node.elem, IF val = 1 THEN 1 ELSE -1)
      BY <1>3, <2>1, <2>3 DEF ModifyBlock
    <3>2. OldBit(blockTree, store, pos) # val
      BY <2>3 DEF OldBit
    <3>3. BlocksFit(UpdatePath(SetPtr(blockTree, node.elem, p), node.elem, IF val = 1 THEN 1 ELSE -1),
                    Created(Removed(store, node.item.ptr), p, [block EXCEPT ![k] = val]), c, R)
      BY <1>1, <1>4, <3>2, ModifyABlock
    <3> QED
      BY <3>1, <3>3
  <2> QED
    BY <2>2, <2>3
<1>8. counter' * ChunkBits = c /\ counter' \in 0 .. MaxBlocks
  BY <1>1, <1>2 DEF c
<1>9. Invariant'
  BY <1>5, <1>6, <1>7, <1>8 DEF Invariant
<1> QED
  BY <1>2, <1>5, <1>9 DEF S

(* The places that clients modify are in the vectors.                      *)
LEMMA PlaceInside ==
  ASSUME Invariant, NEW j \in 0 .. counter - 1, NEW k \in Touched
  PROVE  j * ChunkBits + k \in 0 .. counter * ChunkBits - 1
<1>1. counter \in Nat /\ k \in Bits
  BY Numbers, ClientAssumption DEF Invariant
<1> QED
  BY <1>1, Numbers

(* The invariant is inductive.                                             *)
LEMMA NextFits == Invariant /\ [Next]_vars => Invariant'
<1> SUFFICES ASSUME Invariant, [Next]_vars PROVE Invariant'
  OBVIOUS
<1>1. ASSUME NEW block \in Added, AddBlock(block) PROVE Invariant'
  BY <1>1, AddFits
<1>2. ASSUME NEW j \in 0 .. counter - 1, NEW k \in Touched, NEW val \in {0, 1},
             Modify(j * ChunkBits + k, val)
      PROVE  Invariant'
  BY <1>2, PlaceInside, ModifyFits
<1>3. CASE UNCHANGED vars
  BY <1>3 DEF vars, Invariant
<1> QED
  BY <1>1, <1>2, <1>3 DEF Next

(* In all reachable states the three trees are search trees of the same    *)
(* ones, up to the last bit of the last block.                             *)
THEOREM Fits == Spec => []Invariant
  BY InitFits, NextFits, PTL DEF Spec

-----------------------------------------------------------------------------
(* Every node of a tree is a tree of its own.                              *)
LEMMA NodesAreTrees ==
  ASSUME NEW t \in Trees, SearchTree(t)
  PROVE  \A n \in NodesOf(t) : n \in Trees /\ n # Nil /\ SearchTree(n) /\ Entries(n) \subseteq Entries(t)
<1> DEFINE All(u) == \A n \in NodesOf(u) :
                       n \in Trees /\ n # Nil /\ SearchTree(n) /\ Entries(n) \subseteq Entries(u)
           S == {u \in Trees : SearchTree(u) => All(u)}
<1>1. Nil \in S
  BY NodesOfNil, TreesAre
<1>2. ASSUME NEW u \in Node(Trees), u \in Trees, u.left \in S, u.right \in S PROVE u \in S
  <2> SUFFICES ASSUME SearchTree(u) PROVE All(u)
    BY <1>2
  <2>1. u # Nil
    BY NilIsNoNode
  <2>2. /\ u \in Node(AllTrees) /\ SearchTree(u.left) /\ SearchTree(u.right)
        /\ Entries(u) = {Entry(u)} \cup Entries(u.left) \cup Entries(u.right)
    BY <1>2, <2>1, Subtree
  <2>3. NodesOf(u) = {u} \cup NodesOf(u.left) \cup NodesOf(u.right)
    BY <2>2, NodesOfNode
  <2>4. All(u.left) /\ All(u.right)
    BY <1>2, <2>2
  <2> QED
    BY <1>2, <2>1, <2>2, <2>3, <2>4
<1>3. Trees \subseteq S
  <2> HIDE DEF S
  <2> QED
    BY <1>1, <1>2, TreesInduction
<1> QED
  BY <1>3

(* height is the height of the tree.                                       *)
LEMMA HeightIsReal ==
  ASSUME NEW t \in Trees, SearchTree(t)
  PROVE  RealHeight(t) = Height(t)
<1> DEFINE S == {u \in Trees : SearchTree(u) => RealHeight(u) = Height(u)}
<1>1. Nil \in S
  BY RealHeightIs, TreesAre DEF Height
<1>2. ASSUME NEW u \in Node(Trees), u \in Trees, u.left \in S, u.right \in S PROVE u \in S
  <2> SUFFICES ASSUME SearchTree(u) PROVE RealHeight(u) = Height(u)
    BY <1>2
  <2>1. u # Nil
    BY NilIsNoNode
  <2>2. u \in Node(AllTrees) /\ SearchTree(u.left) /\ SearchTree(u.right)
    BY <1>2, <2>1, Subtree
  <2>3. RealHeight(u.left) = Height(u.left) /\ RealHeight(u.right) = Height(u.right)
    BY <1>2, <2>2
  <2>4. HeightRight(u)
    BY <2>2, SearchNode
  <2>5. RealHeight(u) = 1 + Greater(RealHeight(u.left), RealHeight(u.right))
    BY <1>2, <2>1, RealHeightIs
  <2> QED
    BY <2>1, <2>3, <2>4, <2>5 DEF HeightRight, Height
<1>3. Trees \subseteq S
  <2> HIDE DEF S
  <2> QED
    BY <1>1, <1>2, TreesInduction
<1> QED
  BY <1>3

(* It is, at all of its nodes.                                             *)
LEMMA HeightsOfSearch ==
  ASSUME NEW t \in Trees, SearchTree(t)
  PROVE  HeightsOf(t)
<1>1. \A n \in NodesOf(t) : n.height = RealHeight(n)
  <2> TAKE n \in NodesOf(t)
  <2>1. n \in Trees /\ n # Nil /\ SearchTree(n)
    BY NodesAreTrees
  <2> QED
    BY <2>1, HeightIsReal DEF Height
<1> QED
  BY <1>1, NodesAreNodesOf DEF HeightsOf

(* What mysize adds up is no less than nothing.                            *)
OwnNat(E) == \A x \in E : x.own \in Nat

(* mysize counts ones.                                                     *)
LEMMA SizesNat ==
  ASSUME NEW t \in Trees, SearchTree(t), OwnNat(Entries(t))
  PROVE  /\ MySize(t) \in Nat
         /\ \A n \in Nodes(t) : n.mysize \in Nat
<1> DEFINE S == {u \in Trees : SearchTree(u) /\ OwnNat(Entries(u)) => MySize(u) \in Nat}
<1>1. Nil \in S
  BY TreesAre DEF MySize
<1>2. ASSUME NEW u \in Node(Trees), u \in Trees, u.left \in S, u.right \in S PROVE u \in S
  <2> SUFFICES ASSUME SearchTree(u), OwnNat(Entries(u)) PROVE MySize(u) \in Nat
    BY <1>2
  <2>1. u # Nil
    BY NilIsNoNode
  <2>2. /\ u \in Node(AllTrees) /\ SearchTree(u.left) /\ SearchTree(u.right)
        /\ Entries(u) = {Entry(u)} \cup Entries(u.left) \cup Entries(u.right)
    BY <1>2, <2>1, Subtree
  <2>3. MySize(u.left) \in Nat /\ MySize(u.right) \in Nat /\ OwnOnes(u) \in Nat
    <3>1. OwnNat(Entries(u.left)) /\ OwnNat(Entries(u.right))
      BY <2>2 DEF OwnNat
    <3>2. Entry(u).own = OwnOnes(u)
      BY EntryFields
    <3> QED
      BY <1>2, <2>2, <3>1, <3>2 DEF OwnNat
  <2>4. u.mysize \in Int
    BY <2>2, NodeFields
  <2> QED
    BY <2>1, <2>3, <2>4 DEF OwnOnes, MySize
<1>3. Trees \subseteq S
  <2> HIDE DEF S
  <2> QED
    BY <1>1, <1>2, TreesInduction
<1>4. ASSUME NEW n \in NodesOf(t) PROVE n.mysize \in Nat
  <2>1. n \in Trees /\ n # Nil /\ SearchTree(n) /\ Entries(n) \subseteq Entries(t)
    BY NodesAreTrees
  <2>2. MySize(n) \in Nat
    BY <1>3, <2>1 DEF OwnNat
  <2> QED
    BY <2>1, <2>2 DEF MySize
<1> QED
  BY <1>3, <1>4, NodesAreNodesOf

-----------------------------------------------------------------------------
(* What the invariant says of the three trees.                             *)
LEMMA InTheTrees ==
  ASSUME Invariant
  PROVE  /\ setTree \in Trees /\ SearchTree(setTree) /\ OwnNat(Entries(setTree))
         /\ wordTree \in Trees /\ SearchTree(wordTree) /\ OwnNat(Entries(wordTree))
         /\ blockTree \in Trees /\ SearchTree(blockTree) /\ OwnNat(Entries(blockTree))
<1> DEFINE c == counter * ChunkBits
           S == ElemsOf(Entries(setTree))
<1>1. /\ counter \in 0 .. MaxBlocks /\ SetFits(setTree, c) /\ WordsFit(wordTree, c, S)
      /\ BlocksFit(blockTree, store, c, S)
  BY DEF Invariant
<1>2. c \in Nat /\ c <= MaxHeight /\ IntBit \in Nat \ {0} /\ ChunkBits \in Nat \ {0}
  BY <1>1, Numbers
<1> HIDE DEF c, S
<1>3. setTree \in Trees /\ SearchTree(setTree) /\ OwnNat(Entries(setTree))
  <2>1. \A x \in Entries(setTree) : x.own = 1
    BY <1>1 DEF SetFits, Plain, NewRecord
  <2> QED
    BY <1>1, <1>2, <2>1, FitInTrees DEF SetFits, OwnNat
<1>4. wordTree \in Trees /\ SearchTree(wordTree) /\ OwnNat(Entries(wordTree))
  <2>1. SearchTree(wordTree) /\ Tiled(Entries(wordTree), IntBit, c) /\ Words(Entries(wordTree))
    BY <1>1 DEF WordsFit
  <2>2. wordTree \in Trees
    BY <1>2, <2>1, FitInTrees
  <2>3. ASSUME NEW x \in Entries(wordTree) PROVE x.own \in Nat
    <3>1. x.item.data \subseteq 0 .. IntBit - 1 /\ x.own = GetOnes(x.item.data)
      BY <2>1 DEF Words, WordEntry
    <3>2. IsFiniteSet(0 .. IntBit - 1)
      BY <1>2, FS_Interval
    <3>3. IsFiniteSet(x.item.data)
      BY <3>1, <3>2, FS_Subset
    <3> QED
      BY <3>1, <3>3, FS_CardinalityType DEF GetOnes
  <2> QED
    BY <2>1, <2>2, <2>3 DEF OwnNat
<1>5. blockTree \in Trees /\ SearchTree(blockTree) /\ OwnNat(Entries(blockTree))
  <2>1. /\ SearchTree(blockTree) /\ Tiled(Entries(blockTree), ChunkBits, c)
        /\ Stored(Entries(blockTree), store)
    BY <1>1 DEF BlocksFit
  <2>2. blockTree \in Trees
    BY <1>2, <2>1, FitInTrees
  <2>3. \A x \in Entries(blockTree) : x.own \in Nat
    BY <2>1, OnesCount DEF Stored
  <2> QED
    BY <2>1, <2>2, <2>3 DEF OwnNat
<1> QED
  BY <1>3, <1>4, <1>5

(* The fields of a node, by those of its entry.                            *)
LEMMA NodesByEntries ==
  ASSUME NEW t \in Trees, NEW n \in Nodes(t)
  PROVE  Entry(n) \in Entries(t) /\ Entry(n).elem = n.elem /\ Entry(n).item = n.item
  BY NodesAreNodesOf, EntryFields DEF Entries

(* The types, by the entries.                                              *)
LEMMA TypesRight == Invariant => TypeOK
<1> SUFFICES ASSUME Invariant PROVE TypeOK
  OBVIOUS
<1> DEFINE c == counter * ChunkBits
           S == ElemsOf(Entries(setTree))
<1>1. /\ counter \in 0 .. MaxBlocks /\ SetFits(setTree, c) /\ WordsFit(wordTree, c, S)
      /\ BlocksFit(blockTree, store, c, S)
  BY DEF Invariant
<1>2. /\ setTree \in Trees /\ SearchTree(setTree) /\ OwnNat(Entries(setTree))
      /\ wordTree \in Trees /\ SearchTree(wordTree) /\ OwnNat(Entries(wordTree))
      /\ blockTree \in Trees /\ SearchTree(blockTree) /\ OwnNat(Entries(blockTree))
  BY InTheTrees
<1>3. ASSUME NEW n \in Nodes(setTree) PROVE n.elem \in 0 .. LastBit /\ n.mysize \in Nat
  <2>1. n.elem \in S
    BY <1>2, <1>3, NodesByEntries DEF ElemsOf
  <2> QED
    BY <1>1, <1>2, <1>3, <2>1, SizesNat DEF SetFits, LastBit
<1>4. ASSUME NEW n \in Nodes(wordTree) PROVE n.item.data \subseteq 0 .. IntBit - 1 /\ n.mysize \in Nat
  <2>1. Words(Entries(wordTree))
    BY <1>1 DEF WordsFit
  <2>2. n.item.data \subseteq 0 .. IntBit - 1
    BY <1>2, <1>4, <2>1, NodesByEntries DEF Words, WordEntry
  <2> QED
    BY <1>2, <1>4, <2>2, SizesNat
<1>5. ASSUME NEW n \in Nodes(blockTree) PROVE n.item.ptr \in DOMAIN store /\ n.mysize \in Nat
  <2>1. Stored(Entries(blockTree), store)
    BY <1>1 DEF BlocksFit
  <2>2. n.item.ptr \in DOMAIN store
    BY <1>2, <1>5, <2>1, NodesByEntries DEF Stored
  <2> QED
    BY <1>2, <1>5, <2>2, SizesNat
<1> QED
  BY <1>1, <1>3, <1>4, <1>5 DEF TypeOK

(* The stored blocks and the nodes, one for one.                           *)
LEMMA OwnsRight == Invariant => OwnsItsBlocks
<1> SUFFICES ASSUME Invariant PROVE OwnsItsBlocks
  OBVIOUS
<1> DEFINE N == Nodes(blockTree)
           f == [n \in N |-> n.item.ptr]
<1>1. /\ blockTree \in Trees /\ SearchTree(blockTree) /\ N = NodesOf(blockTree)
  BY InTheTrees, NodesAreNodesOf
<1>2. Stored(Entries(blockTree), store)
  BY DEF Invariant, BlocksFit
<1>3. \A n \in N : Entry(n) \in Entries(blockTree) /\ Entry(n).elem = n.elem /\ Entry(n).item = n.item
  BY <1>1, NodesByEntries
<1>4. \A x \in Entries(blockTree) : \E n \in N : x = Entry(n)
  BY <1>1 DEF Entries
<1>5. \A n \in N : n.item.ptr \in DOMAIN store
  BY <1>2, <1>3 DEF Stored
<1>6. \A m, n \in N : m.item.ptr = n.item.ptr => m = n
  <2> SUFFICES ASSUME NEW m \in N, NEW n \in N, m.item.ptr = n.item.ptr PROVE m = n
    OBVIOUS
  <2>1. m.elem = n.elem
    BY <1>2, <1>3 DEF Stored
  <2> QED
    BY <1>1, <2>1, NodeByElem
<1>7. \A p \in DOMAIN store : \E n \in N : n.item.ptr = p
  <2> TAKE p \in DOMAIN store
  <2>1. PICK x \in Entries(blockTree) : x.item.ptr = p
    BY <1>2 DEF Stored
  <2> QED
    BY <1>3, <1>4, <2>1
<1> HIDE DEF N
<1>8. f \in Injection(N, DOMAIN store) /\ f \in Surjection(N, DOMAIN store)
  BY <1>5, <1>6, <1>7 DEF Injection, Surjection, IsInjective
<1>9. IsFiniteSet(DOMAIN store)
  BY <1>2 DEF Stored
<1> HIDE DEF f
<1>10. Cardinality(N) = Cardinality(DOMAIN store)
  BY <1>8, <1>9, FS_Injection
<1>11. {n.item.ptr : n \in N} = DOMAIN store
  BY <1>5, <1>7
<1> QED
  BY <1>10, <1>11 DEF OwnsItsBlocks, N

(* What the operations rely on in the trees: the elements and words in     *)
(* range, every stored block with one node, the heights of the subtrees.   *)
THEOREM TreesCorrect == Spec => []TreesRight
<1>1. Invariant => HeightsRight
  BY InTheTrees, HeightsOfSearch DEF HeightsRight
<1>2. Invariant => TreesRight
  BY <1>1, TypesRight, OwnsRight DEF TreesRight
<1> QED
  BY <1>2, Fits, PTL

-----------------------------------------------------------------------------
(* access, in each of the three.                                           *)
LEMMA AccessIs ==
  ASSUME Invariant, NEW pos \in 0 .. LastBit
  PROVE  /\ AccessSet(pos) = (IF pos \in ElemsOf(Entries(setTree)) THEN 1 ELSE 0)
         /\ AccessWord(pos) = AccessSet(pos) /\ AccessBlock(pos) = AccessSet(pos)
<1> DEFINE c == counter * ChunkBits
           S == ElemsOf(Entries(setTree))
<1>1. /\ counter \in 0 .. MaxBlocks /\ SetFits(setTree, c) /\ WordsFit(wordTree, c, S)
      /\ BlocksFit(blockTree, store, c, S)
  BY DEF Invariant
<1>2. c \in Nat /\ c <= MaxHeight /\ pos \in 0 .. c - 1 /\ pos \in Int
  BY <1>1, Numbers DEF LastBit
<1>3. /\ setTree \in Trees /\ SearchTree(setTree) /\ wordTree \in Trees /\ SearchTree(wordTree)
  BY InTheTrees
<1>4. AccessSet(pos) = (IF pos \in S THEN 1 ELSE 0)
  <2>1. Find(setTree, pos) <=> \E x \in Entries(setTree) : x.elem = pos
    BY <1>2, <1>3, FindHas
  <2>2. Find(setTree, pos) <=> pos \in S
    BY <2>1 DEF ElemsOf
  <2> QED
    BY <2>2 DEF AccessSet
<1> HIDE DEF c, S
<1>5. AccessWord(pos) = (IF pos \in S THEN 1 ELSE 0)
  <2>1. Words(Entries(wordTree)) /\ \A e \in Int : HasBit(Entries(wordTree), e) <=> e \in S
    BY <1>1 DEF WordsFit
  <2>2. FindBit(wordTree, pos) <=> pos \in S
    BY <1>2, <1>3, <2>1, FindBitHas
  <2> QED
    BY <2>2 DEF AccessWord
<1>6. AccessBlock(pos) = (IF pos \in S THEN 1 ELSE 0)
  <2> DEFINE node == FindBlock(blockTree, pos)
             block == Unpacked(store, node.item.ptr)
             k == pos - node.elem
  <2>1. node # Nil /\ k \in Bits /\ block \in Block /\ (block[k] = 1 <=> pos \in S)
    BY <1>1, <1>2, FoundBlock
  <2>2. AccessBlock(pos) = block[k]
    BY <2>1 DEF AccessBlock, Unpacked
  <2>3. block[k] \in {0, 1}
    <3> HIDE DEF block, k
    <3> QED
      BY <2>1 DEF Block
  <2> QED
    BY <2>1, <2>2, <2>3
<1> QED
  BY <1>4, <1>5, <1>6 DEF S

(* The three bit vectors hold the same bits.                               *)
THEOREM SameCorrect == Spec => []SameBits
<1>1. Invariant => SameBits
  BY AccessIs DEF SameBits
<1> QED
  BY <1>1, Fits, PTL

-----------------------------------------------------------------------------
(* The array of the bits below c of which those in S are ones.             *)
BitsOf(S, c) == [i \in 1 .. c |-> IF i - 1 \in S THEN 1 ELSE 0]

(* The array that the vectors are said to implement.                       *)
ArrayBits == [i \in 1 .. LastBit + 1 |-> AccessSet(i - 1)]

(* It has a one at every place in the tree of SetBitVector.                *)
LEMMA ArrayBitsAre ==
  Invariant => ArrayBits = BitsOf(ElemsOf(Entries(setTree)), counter * ChunkBits)
<1> SUFFICES ASSUME Invariant
             PROVE  ArrayBits = BitsOf(ElemsOf(Entries(setTree)), counter * ChunkBits)
  OBVIOUS
<1> DEFINE c == counter * ChunkBits
           S == ElemsOf(Entries(setTree))
<1>1. c \in Nat
  BY Numbers DEF Invariant
<1>2. LastBit = c - 1 /\ LastBit + 1 = c
  BY <1>1 DEF LastBit
<1>3. \A pos \in 0 .. LastBit : AccessSet(pos) = IF pos \in S THEN 1 ELSE 0
  BY AccessIs
<1> HIDE DEF c, S
<1>4. \A i \in 1 .. c : AccessSet(i - 1) = IF i - 1 \in S THEN 1 ELSE 0
  BY <1>1, <1>2, <1>3
<1>5. ArrayBits = BitsOf(S, c)
  BY <1>2, <1>4 DEF ArrayBits, BitsOf
<1> QED
  BY <1>5 DEF c, S

(* The same after a step.                                                  *)
LEMMA ArrayBitsNext ==
  Invariant' => (ArrayBits = BitsOf(ElemsOf(Entries(setTree)), counter * ChunkBits))'
  BY ArrayBitsAre, PTL

(* Ones behind the array, and one bit changed.                             *)
LEMMA BitsGrow ==
  ASSUME NEW c \in Nat, NEW n \in Nat, NEW S, NEW R, R \subseteq c .. (c + n) - 1
  PROVE  LET a == BitsOf(S, c)
             b == BitsOf(S \cup R, c + n)
         IN  /\ Len(b) = Len(a) + n
             /\ SubSeq(b, 1, Len(a)) = a
             /\ \A i \in Len(a) + 1 .. Len(b) : b[i] \in {0, 1}
<1> DEFINE a == BitsOf(S, c)
           b == BitsOf(S \cup R, c + n)
<1>1. a \in Seq({0, 1}) /\ Len(a) = c /\ b \in Seq({0, 1}) /\ Len(b) = c + n
  BY DEF BitsOf
<1>2. \A i \in 1 .. c : b[i] = a[i]
  BY DEF BitsOf
<1> HIDE DEF a, b
<1>3. SubSeq(b, 1, c) = a
  BY <1>1, <1>2
<1>4. /\ Len(b) = Len(a) + n
      /\ SubSeq(b, 1, Len(a)) = a
  BY <1>1, <1>3
<1>5. \A i \in Len(a) + 1 .. Len(b) : b[i] \in {0, 1}
  <2> TAKE i \in Len(a) + 1 .. Len(b)
  <2>1. i \in 1 .. Len(b)
    BY <1>1
  <2> QED
    BY <1>1, <2>1
<1> QED
  BY <1>4, <1>5 DEF a, b

(* One bit changed.                                                        *)
LEMMA BitsPut ==
  ASSUME NEW c \in Nat, NEW S, NEW pos \in 0 .. c - 1, NEW val \in {0, 1}
  PROVE  /\ BitsOf(NewData(S, pos, val), c) = [BitsOf(S, c) EXCEPT ![pos + 1] = val]
         /\ pos + 1 \in 1 .. Len(BitsOf(S, c))
<1>1. \A i \in 1 .. c : i - 1 \in NewData(S, pos, val) <=> IF i = pos + 1 THEN val = 1 ELSE i - 1 \in S
  BY DEF NewData
<1>2. Len(BitsOf(S, c)) = c /\ pos + 1 \in 1 .. c
  BY DEF BitsOf
<1>3. BitsOf(NewData(S, pos, val), c)
        = [i \in 1 .. c |-> IF i = pos + 1 THEN val ELSE IF i - 1 \in S THEN 1 ELSE 0]
  <2>1. \A i \in 1 .. c : (IF i - 1 \in NewData(S, pos, val) THEN 1 ELSE 0)
                           = IF i = pos + 1 THEN val ELSE IF i - 1 \in S THEN 1 ELSE 0
    BY <1>1
  <2> QED
    BY <2>1 DEF BitsOf
<1> QED
  BY <1>2, <1>3 DEF BitsOf

(* The bit vectors are an array of bits, to whose end addBlock puts a      *)
(* block and of which modify changes one bit.                              *)
THEOREM ArrayCorrect == Spec => ImplementsArray
<1>1. Init => Array!Init
  <2> SUFFICES ASSUME Init PROVE Array!Init
    OBVIOUS
  <2>1. Invariant /\ counter = 0
    BY InitFits DEF Init
  <2>2. ArrayBits = BitsOf(ElemsOf(Entries(setTree)), counter * ChunkBits)
    BY <2>1, ArrayBitsAre
  <2>3. counter * ChunkBits = 0
    BY <2>1, Numbers
  <2>4. ArrayBits = <<>>
    BY <2>2, <2>3 DEF BitsOf
  <2> QED
    BY <2>4 DEF Array!Init, ArrayBits
<1>2. Invariant /\ Invariant' /\ [Next]_vars => [Array!Next]_ArrayBits
  <2> SUFFICES ASSUME Invariant, Invariant', [Next]_vars
               PROVE  [Array!Next]_ArrayBits
    OBVIOUS
  <2> DEFINE c == counter * ChunkBits
             S == ElemsOf(Entries(setTree))
  <2>1. c \in Nat /\ ChunkBits \in Nat /\ counter \in Nat
    BY Numbers DEF Invariant
  <2>2. ArrayBits = BitsOf(S, c)
    BY ArrayBitsAre
  <2>3. ArrayBits' = BitsOf(S', c')
    BY ArrayBitsNext
  <2>4. ASSUME NEW block \in Added, AddBlock(block) PROVE Array!AddBlock
    <3>1. S' = S \cup OnesFrom(block, c, ChunkBits)
      BY <2>4, AddFits
    <3>2. c' = c + ChunkBits
      BY <2>1, <2>4, Numbers DEF AddBlock
    <3> HIDE DEF c, S
    <3>3. OnesFrom(block, c, ChunkBits) \subseteq c .. (c + ChunkBits) - 1
      BY <2>1, OnesFromNext
    <3> DEFINE R == OnesFrom(block, c, ChunkBits)
               a == BitsOf(S, c)
               b == BitsOf(S \cup R, c + ChunkBits)
    <3>4. R \subseteq c .. (c + ChunkBits) - 1
      BY <3>3
    <3> HIDE DEF R
    <3>5. /\ Len(b) = Len(a) + ChunkBits
          /\ SubSeq(b, 1, Len(a)) = a
          /\ \A i \in Len(a) + 1 .. Len(b) : b[i] \in {0, 1}
      BY <2>1, <3>4, BitsGrow
    <3>6. ArrayBits = a /\ ArrayBits' = b
      BY <2>2, <2>3, <3>1, <3>2 DEF R
    <3> HIDE DEF a, b
    <3>7. /\ Len(ArrayBits') = Len(ArrayBits) + ChunkBits
          /\ SubSeq(ArrayBits', 1, Len(ArrayBits)) = ArrayBits
          /\ \A i \in Len(ArrayBits) + 1 .. Len(ArrayBits') : ArrayBits'[i] \in {0, 1}
      BY <3>5, <3>6
    <3> QED
      BY <3>7 DEF Array!AddBlock, ArrayBits
  <2>5. ASSUME NEW j \in 0 .. counter - 1, NEW k \in Touched, NEW val \in {0, 1},
               Modify(j * ChunkBits + k, val)
        PROVE  Array!Modify
    <3> DEFINE pos == j * ChunkBits + k
    <3>1. pos \in 0 .. c - 1
      BY PlaceInside
    <3>2. S' = NewData(S, pos, val) /\ c' = c
      <4>1. Modify(pos, val)
        BY <2>5
      <4> HIDE DEF pos
      <4> QED
        BY <3>1, <4>1, ModifyFits
    <3> HIDE DEF c, S, pos
    <3>3. ArrayBits' = [ArrayBits EXCEPT ![pos + 1] = val] /\ pos + 1 \in 1 .. Len(ArrayBits)
      BY <2>1, <2>2, <2>3, <3>1, <3>2, BitsPut
    <3>4. \E i \in 1 .. Len(ArrayBits), v \in {0, 1} : ArrayBits' = [ArrayBits EXCEPT ![i] = v]
      BY <3>3
    <3> QED
      BY <3>4 DEF Array!Modify, ArrayBits
  <2>6. CASE UNCHANGED vars
    <3>1. S' = S /\ c' = c
      BY <2>6 DEF vars
    <3> HIDE DEF c, S
    <3>2. ArrayBits' = ArrayBits
      BY <2>2, <2>3, <3>1
    <3> QED
      BY <3>2
  <2> QED
    BY <2>4, <2>5, <2>6 DEF Next, Array!Next
<1>3. Invariant /\ [Next]_vars => Invariant'
  BY NextFits
<1> QED
  BY Fits, <1>1, <1>2, PTL DEF Spec, ImplementsArray, Array!Spec, ArrayBits

-----------------------------------------------------------------------------
(* rank and select: the ones in the subtrees of a node and in the node,    *)
(* one behind the other.                                                   *)
PlacesUpTo(P, e) == {p \in P : p <= e}

(* The ones up to a place.                                                 *)
LEMMA CountIn ==
  ASSUME NEW P, IsFiniteSet(P), P \subseteq Int, NEW e \in Int
  PROVE  /\ CountUpTo(P, e) = Cardinality(PlacesUpTo(P, e)) /\ IsFiniteSet(PlacesUpTo(P, e))
         /\ CountUpTo(P, e) \in Nat /\ CountUpTo(P, e) <= Cardinality(P) /\ Cardinality(P) \in Nat
         /\ e \in P => CountUpTo(P, e) >= 1
<1>1. CountUpTo(P, e) = Cardinality(PlacesUpTo(P, e))
  BY DEF CountUpTo, PlacesUpTo
<1>2. IsFiniteSet(PlacesUpTo(P, e)) /\ Cardinality(PlacesUpTo(P, e)) <= Cardinality(P)
  <2>1. PlacesUpTo(P, e) \in SUBSET P
    BY DEF PlacesUpTo
  <2> QED
    BY <2>1, FS_Subset
<1>3. Cardinality(P) \in Nat /\ Cardinality(PlacesUpTo(P, e)) \in Nat
  BY <1>2, FS_CardinalityType
<1>4. e \in P => Cardinality(PlacesUpTo(P, e)) >= 1
  <2> SUFFICES ASSUME e \in P PROVE Cardinality(PlacesUpTo(P, e)) >= 1
    OBVIOUS
  <2>1. e \in PlacesUpTo(P, e)
    BY DEF PlacesUpTo
  <2>2. Cardinality(PlacesUpTo(P, e)) # 0
    BY <1>2, <2>1, FS_EmptySet
  <2> QED
    BY <1>3, <2>2
<1> QED
  BY <1>1, <1>2, <1>3, <1>4

(* The ones of two sets without one in common.                             *)
LEMMA CountBoth ==
  ASSUME NEW P, NEW R, IsFiniteSet(P), IsFiniteSet(R), \A p \in P : p \notin R
  PROVE  /\ IsFiniteSet(P \cup R)
         /\ Cardinality(P \cup R) = Cardinality(P) + Cardinality(R)
<1>1. P \cap R = {}
  OBVIOUS
<1>2. /\ IsFiniteSet(P \cup R)
      /\ Cardinality(P \cup R) = Cardinality(P) + Cardinality(R) - Cardinality(P \cap R)
  BY FS_Union
<1>3. Cardinality(P) \in Nat /\ Cardinality(R) \in Nat
  BY FS_CardinalityType
<1> QED
  BY <1>1, <1>2, <1>3, FS_EmptySet

(* Those of three, before a, from a to b, and from b on.                   *)
Parted(L, O, R, a, b) ==
  /\ a \in Int /\ b \in Int /\ a < b
  /\ IsFiniteSet(L) /\ \A p \in L : p \in Int /\ p < a
  /\ IsFiniteSet(O) /\ \A p \in O : p \in Int /\ a <= p /\ p < b
  /\ IsFiniteSet(R) /\ \A p \in R : p \in Int /\ b <= p

Union3(L, O, R) == L \cup O \cup R

(* How many they are, and how many of them are up to a place.              *)
LEMMA CountThree ==
  ASSUME NEW a, NEW b, NEW L, NEW O, NEW R, Parted(L, O, R, a, b)
  PROVE  LET P == Union3(L, O, R)
         IN  /\ IsFiniteSet(P) /\ Cardinality(P) = Cardinality(L) + Cardinality(O) + Cardinality(R)
             /\ \A e \in Int :
                  /\ e < a => CountUpTo(P, e) = CountUpTo(L, e)
                  /\ e >= a => CountUpTo(P, e) = Cardinality(L) + CountUpTo(O, e) + CountUpTo(R, e)
                  /\ e < b => CountUpTo(R, e) = 0
                  /\ e >= b - 1 => CountUpTo(O, e) = Cardinality(O)
<1> DEFINE P == Union3(L, O, R)
<1> USE DEF Parted, Union3
<1>1. IsFiniteSet(L \cup O) /\ Cardinality(L \cup O) = Cardinality(L) + Cardinality(O)
  BY CountBoth
<1>2. IsFiniteSet(P) /\ Cardinality(P) = Cardinality(L) + Cardinality(O) + Cardinality(R)
  <2>1. \A p \in L \cup O : p \notin R
    OBVIOUS
  <2> QED
    BY <1>1, <2>1, CountBoth
<1>3. ASSUME NEW e \in Int, e < a PROVE CountUpTo(P, e) = CountUpTo(L, e)
  <2>1. {p \in P : p <= e} = {p \in L : p <= e}
    BY <1>3
  <2> QED
    BY <2>1 DEF CountUpTo
<1>4. ASSUME NEW e \in Int, e >= a
      PROVE  CountUpTo(P, e) = Cardinality(L) + CountUpTo(O, e) + CountUpTo(R, e)
  <2> DEFINE OE == PlacesUpTo(O, e)
             RE == PlacesUpTo(R, e)
  <2>1. {p \in P : p <= e} = L \cup OE \cup RE
    BY <1>4 DEF PlacesUpTo
  <2>2. /\ IsFiniteSet(OE) /\ CountUpTo(O, e) = Cardinality(OE)
        /\ IsFiniteSet(RE) /\ CountUpTo(R, e) = Cardinality(RE)
    <3>1. O \subseteq Int /\ R \subseteq Int
      OBVIOUS
    <3> QED
      BY <3>1, CountIn
  <2>3. (\A p \in L : p \notin OE) /\ (\A p \in L \cup OE : p \notin RE)
    BY DEF PlacesUpTo
  <2> HIDE DEF OE, RE
  <2>4. IsFiniteSet(L \cup OE) /\ Cardinality(L \cup OE) = Cardinality(L) + Cardinality(OE)
    BY <2>2, <2>3, CountBoth
  <2>5. Cardinality(L \cup OE \cup RE) = Cardinality(L \cup OE) + Cardinality(RE)
    BY <2>2, <2>3, <2>4, CountBoth
  <2> QED
    BY <2>1, <2>2, <2>4, <2>5 DEF CountUpTo
<1>5. ASSUME NEW e \in Int, e < b PROVE CountUpTo(R, e) = 0
  <2>1. {p \in R : p <= e} = {}
    BY <1>5
  <2> QED
    BY <2>1, FS_EmptySet DEF CountUpTo
<1>6. ASSUME NEW e \in Int, e >= b - 1 PROVE CountUpTo(O, e) = Cardinality(O)
  <2>1. {p \in O : p <= e} = O
    BY <1>6
  <2> QED
    BY <2>1 DEF CountUpTo
<1> HIDE DEF P
<1>7. /\ IsFiniteSet(P) /\ Cardinality(P) = Cardinality(L) + Cardinality(O) + Cardinality(R)
      /\ \A e \in Int :
           /\ e < a => CountUpTo(P, e) = CountUpTo(L, e)
           /\ e >= a => CountUpTo(P, e) = Cardinality(L) + CountUpTo(O, e) + CountUpTo(R, e)
           /\ e < b => CountUpTo(R, e) = 0
           /\ e >= b - 1 => CountUpTo(O, e) = Cardinality(O)
  BY <1>2, <1>3, <1>4, <1>5, <1>6
<1> QED
  BY <1>7 DEF P

-----------------------------------------------------------------------------
(* The ones that an entry stands for, those of a tree, and that the own of *)
(* an entry is their number.                                               *)
OnesIn(x, n, S) == {p \in S : Covers(x, n, p)}
OnesOf(E, n, S) == {p \in S : \E x \in E : Covers(x, n, p)}
Counts(E, n, S) == Spaced(E, n) /\ \A x \in E : x.own = Cardinality(OnesIn(x, n, S))

(* They are those of the left subtree, of the node and of the right one.   *)
LEMMA OnesOfNode ==
  ASSUME NEW n \in Nat \ {0}, NEW S, S \subseteq Int, IsFiniteSet(S),
         NEW t \in Trees, t # Nil, SearchTree(t), Counts(Entries(t), n, S)
  PROVE  LET L == OnesOf(Entries(t.left), n, S)
             O == OnesIn(Entry(t), n, S)
             R == OnesOf(Entries(t.right), n, S)
         IN  /\ Counts(Entries(t.left), n, S) /\ Counts(Entries(t.right), n, S)
             /\ OnesOf(Entries(t), n, S) = Union3(L, O, R)
             /\ Parted(L, O, R, t.elem, t.elem + n)
             /\ OwnOnes(t) = Cardinality(O)
<1> DEFINE L == OnesOf(Entries(t.left), n, S)
           O == OnesIn(Entry(t), n, S)
           R == OnesOf(Entries(t.right), n, S)
<1>1. /\ Entries(t) = {Entry(t)} \cup Entries(t.left) \cup Entries(t.right)
      /\ t.elem \in Int /\ Entry(t) \in Entries(t) /\ Entry(t).elem = t.elem
      /\ Entry(t).own = OwnOnes(t)
  BY Subtree, EntryFields
<1>2. Spaced(Entries(t), n) /\ \A x \in Entries(t) : x.own = Cardinality(OnesIn(x, n, S))
  BY DEF Counts
<1>3. ASSUME NEW e \in Int
      PROVE  /\ Spaced(Entries(t.left), n) /\ Spaced(Entries(t.right), n)
             /\ \A x \in Entries(t.left) : Covers(x, n, e) => e < t.elem
             /\ \A x \in Entries(t.right) : Covers(x, n, e) => t.elem + n <= e
  BY <1>2, SpacedNode
<1>4. Counts(Entries(t.left), n, S) /\ Counts(Entries(t.right), n, S)
  BY <1>1, <1>2, <1>3 DEF Counts
<1>5. OnesOf(Entries(t), n, S) = Union3(L, O, R)
  BY <1>1 DEF OnesOf, OnesIn, Union3
<1>6. L \in SUBSET S /\ O \in SUBSET S /\ R \in SUBSET S
  BY DEF OnesOf, OnesIn
<1>7. IsFiniteSet(L) /\ IsFiniteSet(O) /\ IsFiniteSet(R)
  <2> HIDE DEF L, O, R
  <2> QED
    BY <1>6, FS_Subset
<1>8. \A p \in L : p \in Int /\ p < t.elem
  BY <1>3 DEF OnesOf
<1>9. \A p \in R : p \in Int /\ t.elem + n <= p
  BY <1>3 DEF OnesOf
<1>10. \A p \in O : p \in Int /\ t.elem <= p /\ p < t.elem + n
  BY <1>1 DEF OnesIn, Covers
<1>11. OwnOnes(t) = Cardinality(O)
  BY <1>1, <1>2
<1>12. Parted(L, O, R, t.elem, t.elem + n)
  BY <1>1, <1>7, <1>8, <1>9, <1>10 DEF Parted
<1> QED
  BY <1>4, <1>5, <1>11, <1>12

(* mysize counts them.                                                     *)
LEMMA SizeCounts ==
  ASSUME NEW n \in Nat \ {0}, NEW S, S \subseteq Int, IsFiniteSet(S)
  PROVE  \A t \in Trees : SearchTree(t) /\ Counts(Entries(t), n, S)
           => IsFiniteSet(OnesOf(Entries(t), n, S)) /\ MySize(t) = Cardinality(OnesOf(Entries(t), n, S))
<1> DEFINE P(u) == OnesOf(Entries(u), n, S)
           Pre(u) == SearchTree(u) /\ Counts(Entries(u), n, S)
           T == {u \in Trees : Pre(u) => IsFiniteSet(P(u)) /\ MySize(u) = Cardinality(P(u))}
<1>1. Nil \in T
  <2>1. P(Nil) = {}
    BY EntriesNil DEF OnesOf
  <2> QED
    BY <2>1, TreesAre, FS_EmptySet DEF MySize
<1>2. ASSUME NEW u \in Node(Trees), u \in Trees, u.left \in T, u.right \in T PROVE u \in T
  <2> SUFFICES ASSUME Pre(u) PROVE IsFiniteSet(P(u)) /\ MySize(u) = Cardinality(P(u))
    BY <1>2
  <2> DEFINE L == P(u.left)
             O == OnesIn(Entry(u), n, S)
             R == P(u.right)
  <2>1. u # Nil
    BY NilIsNoNode
  <2>2. u \in Node(AllTrees) /\ SearchTree(u.left) /\ SearchTree(u.right) /\ u.elem \in Int
    BY <1>2, <2>1, Subtree
  <2>3. /\ Counts(Entries(u.left), n, S) /\ Counts(Entries(u.right), n, S)
        /\ P(u) = Union3(L, O, R)
        /\ Parted(L, O, R, u.elem, u.elem + n)
        /\ OwnOnes(u) = Cardinality(O)
    BY <1>2, <2>1, OnesOfNode
  <2>4. MySize(u.left) = Cardinality(L) /\ MySize(u.right) = Cardinality(R)
    BY <1>2, <2>2, <2>3
  <2> HIDE DEF P, L, O, R
  <2>5. IsFiniteSet(P(u)) /\ Cardinality(P(u)) = Cardinality(L) + Cardinality(O) + Cardinality(R)
    BY <2>3, CountThree
  <2>6. MySize(u) \in Int /\ MySize(u.left) \in Int /\ MySize(u.right) \in Int
    <3>1. u \in AllTrees /\ u.left \in AllTrees /\ u.right \in AllTrees
      BY <2>2, AllTreesAre DEF Node
    <3> QED
      BY <3>1, TreeNumbers
  <2> QED
    BY <2>3, <2>4, <2>5, <2>6 DEF OwnOnes
<1>3. Trees \subseteq T
  <2> HIDE DEF T
  <2> QED
    BY <1>1, <1>2, TreesInduction
<1> QED
  BY <1>3

(* How many ones there are up to a place in a tree, by its subtrees; and   *)
(* which of its ones is the one at a place.                                *)
LEMMA CountNode ==
  ASSUME NEW n \in Nat \ {0}, NEW S, S \subseteq Int, IsFiniteSet(S),
         NEW t \in Trees, t # Nil, SearchTree(t), Counts(Entries(t), n, S)
  PROVE  LET P == OnesOf(Entries(t), n, S)
             L == OnesOf(Entries(t.left), n, S)
             O == OnesIn(Entry(t), n, S)
             R == OnesOf(Entries(t.right), n, S)
         IN  /\ t.elem \in Int /\ MySize(t.left) \in Nat /\ OwnOnes(t) \in Nat /\ MySize(t.right) \in Nat
             /\ MySize(t.left) = Cardinality(L) /\ OwnOnes(t) = Cardinality(O)
             /\ MySize(t.right) = Cardinality(R)
             /\ Cardinality(P) = MySize(t.left) + OwnOnes(t) + MySize(t.right)
             /\ \A e \in Int :
                  /\ e < t.elem => CountUpTo(P, e) = CountUpTo(L, e)
                  /\ e >= t.elem => CountUpTo(P, e) = MySize(t.left) + CountUpTo(O, e) + CountUpTo(R, e)
                  /\ e < t.elem + n => CountUpTo(R, e) = 0
                  /\ e >= t.elem + n - 1 => CountUpTo(O, e) = OwnOnes(t)
                  /\ CountUpTo(O, e) \in Nat /\ CountUpTo(R, e) \in Nat
                  /\ e \in L => e < t.elem /\ CountUpTo(L, e) \in 1 .. MySize(t.left)
                  /\ e \in O => t.elem <= e /\ e < t.elem + n /\ CountUpTo(O, e) \in 1 .. OwnOnes(t)
                  /\ e \in R => t.elem + n <= e /\ CountUpTo(R, e) \in 1 .. MySize(t.right)
             /\ P = L \cup O \cup R /\ P \subseteq Int /\ O \subseteq Int /\ IsFiniteSet(O)
<1> DEFINE P == OnesOf(Entries(t), n, S)
           L == OnesOf(Entries(t.left), n, S)
           O == OnesIn(Entry(t), n, S)
           R == OnesOf(Entries(t.right), n, S)
           a == t.elem
           b == t.elem + n
<1>1. t.left \in Trees /\ t.right \in Trees /\ SearchTree(t.left) /\ SearchTree(t.right) /\ a \in Int
  BY Subtree
<1>2. /\ Counts(Entries(t.left), n, S) /\ Counts(Entries(t.right), n, S)
      /\ P = Union3(L, O, R) /\ Parted(L, O, R, a, b)
      /\ OwnOnes(t) = Cardinality(O)
  BY OnesOfNode
<1>3. MySize(t.left) = Cardinality(L) /\ MySize(t.right) = Cardinality(R)
  BY <1>1, <1>2, SizeCounts
<1>4. P \subseteq Int
  BY <1>2 DEF Parted, Union3
<1> HIDE DEF P, L, O, R, a, b
<1>5. /\ Cardinality(P) = Cardinality(L) + Cardinality(O) + Cardinality(R)
      /\ \A e \in Int :
           /\ e < a => CountUpTo(P, e) = CountUpTo(L, e)
           /\ e >= a => CountUpTo(P, e) = Cardinality(L) + CountUpTo(O, e) + CountUpTo(R, e)
           /\ e < b => CountUpTo(R, e) = 0
           /\ e >= b - 1 => CountUpTo(O, e) = Cardinality(O)
  BY <1>2, CountThree
<1>6. Cardinality(L) \in Nat /\ Cardinality(O) \in Nat /\ Cardinality(R) \in Nat
  BY <1>2, FS_CardinalityType DEF Parted
<1>7. ASSUME NEW Q, IsFiniteSet(Q), Q \subseteq Int, NEW e \in Int
      PROVE  CountUpTo(Q, e) \in Nat /\ (e \in Q => CountUpTo(Q, e) \in 1 .. Cardinality(Q))
  <2>1. /\ CountUpTo(Q, e) \in Nat /\ CountUpTo(Q, e) <= Cardinality(Q) /\ Cardinality(Q) \in Nat
        /\ e \in Q => CountUpTo(Q, e) >= 1
    BY <1>7, CountIn
  <2> QED
    BY <2>1
<1>8. /\ L \subseteq Int /\ O \subseteq Int /\ R \subseteq Int
      /\ IsFiniteSet(L) /\ IsFiniteSet(O) /\ IsFiniteSet(R)
  BY <1>2 DEF Parted
<1>9. \A e \in Int :
        /\ CountUpTo(O, e) \in Nat /\ CountUpTo(R, e) \in Nat
        /\ e \in L => e < a /\ CountUpTo(L, e) \in 1 .. Cardinality(L)
        /\ e \in O => a <= e /\ e < b /\ CountUpTo(O, e) \in 1 .. Cardinality(O)
        /\ e \in R => b <= e /\ CountUpTo(R, e) \in 1 .. Cardinality(R)
  BY <1>2, <1>7, <1>8 DEF Parted
<1>10. /\ a \in Int /\ MySize(t.left) \in Nat /\ OwnOnes(t) \in Nat /\ MySize(t.right) \in Nat
       /\ MySize(t.left) = Cardinality(L) /\ OwnOnes(t) = Cardinality(O)
       /\ MySize(t.right) = Cardinality(R)
       /\ Cardinality(P) = MySize(t.left) + OwnOnes(t) + MySize(t.right)
       /\ \A e \in Int :
            /\ e < a => CountUpTo(P, e) = CountUpTo(L, e)
            /\ e >= a => CountUpTo(P, e) = MySize(t.left) + CountUpTo(O, e) + CountUpTo(R, e)
            /\ e < b => CountUpTo(R, e) = 0
            /\ e >= b - 1 => CountUpTo(O, e) = OwnOnes(t)
            /\ CountUpTo(O, e) \in Nat /\ CountUpTo(R, e) \in Nat
            /\ e \in L => e < a /\ CountUpTo(L, e) \in 1 .. MySize(t.left)
            /\ e \in O => a <= e /\ e < b /\ CountUpTo(O, e) \in 1 .. OwnOnes(t)
            /\ e \in R => b <= e /\ CountUpTo(R, e) \in 1 .. MySize(t.right)
       /\ P = L \cup O \cup R /\ P \subseteq Int /\ O \subseteq Int /\ IsFiniteSet(O)
  BY <1>1, <1>2, <1>3, <1>4, <1>5, <1>6, <1>8, <1>9 DEF Union3
<1> QED
  BY <1>10 DEF P, L, O, R, a, b

-----------------------------------------------------------------------------
(* The place of a one is told by how many there are up to it.              *)
LEMMA CountTells ==
  ASSUME NEW P, IsFiniteSet(P), P \subseteq Int, NEW p \in P, NEW q \in P,
         CountUpTo(P, p) = CountUpTo(P, q)
  PROVE  p = q
<1>1. ASSUME NEW x \in P, NEW y \in P, x < y PROVE CountUpTo(P, x) # CountUpTo(P, y)
  <2>1. x \in Int /\ y \in Int
    OBVIOUS
  <2>2. IsFiniteSet(PlacesUpTo(P, y)) /\ CountUpTo(P, x) = Cardinality(PlacesUpTo(P, x))
        /\ CountUpTo(P, y) = Cardinality(PlacesUpTo(P, y))
    BY <2>1, CountIn
  <2>3. PlacesUpTo(P, x) \in SUBSET PlacesUpTo(P, y)
    <3>1. \A z \in P : z <= x => z <= y
      BY <1>1, <2>1
    <3> QED
      BY <3>1 DEF PlacesUpTo
  <2>4. y \in PlacesUpTo(P, y) /\ y \notin PlacesUpTo(P, x)
    BY <1>1, <2>1 DEF PlacesUpTo
  <2>5. Cardinality(PlacesUpTo(P, y)) = Cardinality(PlacesUpTo(P, x)) => PlacesUpTo(P, y) = PlacesUpTo(P, x)
    BY <2>2, <2>3, FS_Subset
  <2> QED
    BY <2>2, <2>4, <2>5
<1>2. p \in Int /\ q \in Int
  OBVIOUS
<1>3. p < q \/ q < p \/ p = q
  BY <1>2
<1> QED
  BY <1>1, <1>3

(* Places counted from elsewhere.                                          *)
Shifted(D, a) == {a + k : k \in D}

(* They are as many, and as many of them are up to a place.                *)
LEMMA ShiftCounts ==
  ASSUME NEW D, IsFiniteSet(D), D \subseteq Int, NEW a \in Int
  PROVE  /\ Cardinality(Shifted(D, a)) = Cardinality(D)
         /\ \A e \in Int : CountUpTo(Shifted(D, a), e) = CountUpTo(D, e - a)
<1>1. ASSUME NEW C, IsFiniteSet(C), C \subseteq Int
      PROVE  Cardinality(Shifted(C, a)) = Cardinality(C)
  <2> DEFINE R == Shifted(C, a)
             f == [k \in C |-> a + k]
  <2>1. f \in Bijection(C, R)
    <3>1. f \in [C -> R]
      BY DEF Shifted
    <3>2. \A j, k \in C : f[j] = f[k] => j = k
      BY <1>1
    <3>3. \A p \in R : \E k \in C : f[k] = p
      BY DEF Shifted
    <3> HIDE DEF f, R
    <3> QED
      BY <3>1, <3>2, <3>3 DEF Bijection, Injection, Surjection, IsInjective
  <2> HIDE DEF f
  <2>2. ExistsBijection(C, R)
    BY <2>1 DEF ExistsBijection
  <2> QED
    BY <1>1, <2>2, FS_Bijection
<1>2. ASSUME NEW e \in Int PROVE CountUpTo(Shifted(D, a), e) = CountUpTo(D, e - a)
  <2>1. {p \in Shifted(D, a) : p <= e} = Shifted(PlacesUpTo(D, e - a), a)
    <3>1. \A k \in D : k \in Int /\ (a + k <= e <=> k <= e - a)
      OBVIOUS
    <3> QED
      BY <3>1 DEF Shifted, PlacesUpTo
  <2>2. IsFiniteSet(PlacesUpTo(D, e - a)) /\ CountUpTo(D, e - a) = Cardinality(PlacesUpTo(D, e - a))
    <3>1. e - a \in Int
      OBVIOUS
    <3> QED
      BY <3>1, CountIn
  <2>3. PlacesUpTo(D, e - a) \subseteq Int
    BY DEF PlacesUpTo
  <2>4. Cardinality(Shifted(PlacesUpTo(D, e - a), a)) = Cardinality(PlacesUpTo(D, e - a))
    BY <1>1, <2>2, <2>3
  <2> QED
    BY <2>1, <2>2, <2>4 DEF CountUpTo
<1> QED
  BY <1>1, <1>2

-----------------------------------------------------------------------------
(* rank and select of the tree of places.                                  *)
Placed(t, S) ==
  /\ SearchTree(t) /\ Plain(Entries(t)) /\ Counts(Entries(t), 1, S)
  /\ ElemsOf(Entries(t)) \subseteq S

(* The place of a node, and its subtrees.                                  *)
LEMMA PlacedNode ==
  ASSUME NEW S, S \subseteq Int, IsFiniteSet(S), NEW t \in Trees, t # Nil, Placed(t, S)
  PROVE  /\ t.left \in Trees /\ t.right \in Trees /\ Placed(t.left, S) /\ Placed(t.right, S)
         /\ t.elem \in Int /\ OwnOnes(t) = 1 /\ OnesIn(Entry(t), 1, S) = {t.elem}
<1>1. /\ t.left \in Trees /\ t.right \in Trees /\ SearchTree(t.left) /\ SearchTree(t.right)
      /\ Entries(t) = {Entry(t)} \cup Entries(t.left) \cup Entries(t.right)
      /\ t.elem \in Int /\ Entry(t) \in Entries(t) /\ Entry(t).elem = t.elem /\ Entry(t).own = OwnOnes(t)
  BY Subtree, EntryFields DEF Placed
<1>2. Counts(Entries(t.left), 1, S) /\ Counts(Entries(t.right), 1, S)
  BY OnesOfNode DEF Placed
<1>3. Plain(Entries(t.left)) /\ Plain(Entries(t.right)) /\ OwnOnes(t) = 1
  BY <1>1 DEF Placed, Plain, NewRecord
<1>4. ElemsOf(Entries(t.left)) \subseteq S /\ ElemsOf(Entries(t.right)) \subseteq S /\ t.elem \in S
  BY <1>1 DEF Placed, ElemsOf
<1>5. OnesIn(Entry(t), 1, S) = {t.elem}
  BY <1>1, <1>4 DEF OnesIn, Covers
<1> QED
  BY <1>1, <1>2, <1>3, <1>4, <1>5 DEF Placed

(* The empty tree has no ones.                                             *)
LEMMA NoOnes ==
  ASSUME NEW n, NEW S
  PROVE  /\ OnesOf(Entries(Nil), n, S) = {} /\ Cardinality(OnesOf(Entries(Nil), n, S)) = 0
         /\ \A e : CountUpTo(OnesOf(Entries(Nil), n, S), e) = 0
<1>1. OnesOf(Entries(Nil), n, S) = {}
  BY EntriesNil DEF OnesOf
<1>2. \A e : {p \in {} : p <= e} = {}
  OBVIOUS
<1> QED
  BY <1>1, <1>2, FS_EmptySet DEF CountUpTo

(* rank, on the tree of SetBitVector.                                      *)
LEMMA RankCounts ==
  ASSUME NEW S, S \subseteq Int, IsFiniteSet(S), NEW e \in Int
  PROVE  \A t \in Trees : Placed(t, S) => Rank(t, e) = CountUpTo(OnesOf(Entries(t), 1, S), e)
<1> DEFINE P(u) == OnesOf(Entries(u), 1, S)
           T == {u \in Trees : Placed(u, S) => Rank(u, e) = CountUpTo(P(u), e)}
<1>1. Nil \in T
  BY NoOnes, RankIs, TreesAre
<1>2. ASSUME NEW u \in Node(Trees), u \in Trees, u.left \in T, u.right \in T PROVE u \in T
  <2> SUFFICES ASSUME Placed(u, S) PROVE Rank(u, e) = CountUpTo(P(u), e)
    BY <1>2
  <2>1. u # Nil
    BY NilIsNoNode
  <2>2. Placed(u.left, S) /\ Placed(u.right, S) /\ u.elem \in Int /\ OwnOnes(u) = 1
    BY <1>2, <2>1, PlacedNode
  <2>3. Rank(u.left, e) = CountUpTo(P(u.left), e) /\ Rank(u.right, e) = CountUpTo(P(u.right), e)
    BY <1>2, <2>2
  <2>4. Rank(u, e) = IF e < u.elem THEN Rank(u.left, e) ELSE 1 + MySize(u.left) + Rank(u.right, e)
    BY <1>2, <2>1, RankIs
  <2> DEFINE O == OnesIn(Entry(u), 1, S)
  <2>5. /\ MySize(u.left) \in Nat /\ CountUpTo(P(u.right), e) \in Nat
        /\ e < u.elem => CountUpTo(P(u), e) = CountUpTo(P(u.left), e)
        /\ e >= u.elem => CountUpTo(P(u), e) = MySize(u.left) + CountUpTo(O, e) + CountUpTo(P(u.right), e)
        /\ e >= u.elem + 1 - 1 => CountUpTo(O, e) = OwnOnes(u)
    <3>1. SearchTree(u) /\ Counts(Entries(u), 1, S) /\ 1 \in Nat \ {0}
      BY DEF Placed
    <3> QED
      BY <1>2, <2>1, <3>1, CountNode
  <2> HIDE DEF P, O
  <2> QED
    BY <2>2, <2>3, <2>4, <2>5
<1>3. Trees \subseteq T
  <2> HIDE DEF T
  <2> QED
    BY <1>1, <1>2, TreesInduction
<1> QED
  BY <1>3

(* select, on the tree of SetBitVector: every one is found by its number,  *)
(* and none has a greater number than there are ones.                      *)
LEMMA SelectFinds ==
  ASSUME NEW S, S \subseteq Int, IsFiniteSet(S)
  PROVE  \A t \in Trees : Placed(t, S) =>
           /\ \A p \in OnesOf(Entries(t), 1, S) : SelectFrom(t, CountUpTo(OnesOf(Entries(t), 1, S), p)) = p
           /\ \A s \in Int : s > Cardinality(OnesOf(Entries(t), 1, S)) => SelectFrom(t, s) = -1
<1> DEFINE P(u) == OnesOf(Entries(u), 1, S)
           Post(u) == /\ \A p \in P(u) : SelectFrom(u, CountUpTo(P(u), p)) = p
                      /\ \A s \in Int : s > Cardinality(P(u)) => SelectFrom(u, s) = -1
           T == {u \in Trees : Placed(u, S) => Post(u)}
<1>1. Nil \in T
  BY NoOnes, SelectFromIs, TreesAre
<1>2. ASSUME NEW u \in Node(Trees), u \in Trees, u.left \in T, u.right \in T PROVE u \in T
  <2> SUFFICES ASSUME Placed(u, S) PROVE Post(u)
    BY <1>2
  <2> DEFINE O == OnesIn(Entry(u), 1, S)
             L == P(u.left)
             R == P(u.right)
  <2>1. u # Nil
    BY NilIsNoNode
  <2>2. Placed(u.left, S) /\ Placed(u.right, S) /\ u.elem \in Int /\ OwnOnes(u) = 1 /\ O = {u.elem}
    BY <1>2, <2>1, PlacedNode
  <2>3. Post(u.left) /\ Post(u.right)
    BY <1>2, <2>2
  <2>4. /\ \A p \in L : SelectFrom(u.left, CountUpTo(L, p)) = p
        /\ \A p \in R : SelectFrom(u.right, CountUpTo(R, p)) = p
        /\ \A s \in Int : s > Cardinality(R) => SelectFrom(u.right, s) = -1
    BY <2>3
  <2>5. \A s \in Int :
          SelectFrom(u, s) = IF s <= MySize(u.left) THEN SelectFrom(u.left, s)
                             ELSE IF s = MySize(u.left) + 1 THEN u.elem
                             ELSE SelectFrom(u.right, s - (MySize(u.left) + 1))
    BY <1>2, <2>1, SelectFromIs
  <2>6. /\ MySize(u.left) \in Nat /\ MySize(u.right) \in Nat /\ MySize(u.right) = Cardinality(R)
        /\ Cardinality(P(u)) = MySize(u.left) + OwnOnes(u) + MySize(u.right)
        /\ \A e \in Int :
             /\ e < u.elem => CountUpTo(P(u), e) = CountUpTo(L, e)
             /\ e >= u.elem => CountUpTo(P(u), e) = MySize(u.left) + CountUpTo(O, e) + CountUpTo(R, e)
             /\ e < u.elem + 1 => CountUpTo(R, e) = 0
             /\ e >= u.elem + 1 - 1 => CountUpTo(O, e) = OwnOnes(u)
             /\ e \in L => e < u.elem /\ CountUpTo(L, e) \in 1 .. MySize(u.left)
             /\ e \in R => u.elem + 1 <= e /\ CountUpTo(R, e) \in 1 .. MySize(u.right)
        /\ P(u) = Union3(L, O, R) /\ P(u) \subseteq Int
    <3>1. SearchTree(u) /\ Counts(Entries(u), 1, S) /\ 1 \in Nat \ {0}
      BY DEF Placed
    <3> HIDE DEF Post, T
    <3> QED
      BY <1>2, <2>1, <3>1, CountNode DEF Union3
  <2> HIDE DEF P, O, L, R
  <2>7. ASSUME NEW p \in P(u) PROVE SelectFrom(u, CountUpTo(P(u), p)) = p
    <3>1. p \in Int /\ (p \in L \/ p \in O \/ p \in R)
      BY <2>6 DEF Union3
    <3>2. CASE p \in L
      <4>1. CountUpTo(P(u), p) = CountUpTo(L, p) /\ CountUpTo(L, p) \in 1 .. MySize(u.left)
        BY <2>6, <3>1, <3>2
      <4> QED
        BY <2>4, <2>5, <2>6, <3>2, <4>1
    <3>3. CASE p \in O
      <4>1. p = u.elem
        BY <2>2, <3>3
      <4>2. CountUpTo(P(u), p) = MySize(u.left) + 1
        BY <2>2, <2>6, <4>1
      <4> QED
        BY <2>5, <2>6, <4>1, <4>2
    <3>4. CASE p \in R
      <4>0. u.elem + 1 <= p /\ CountUpTo(R, p) \in 1 .. MySize(u.right)
        BY <2>6, <3>1, <3>4
      <4>1. /\ CountUpTo(P(u), p) = MySize(u.left) + 1 + CountUpTo(R, p)
            /\ CountUpTo(R, p) \in 1 .. MySize(u.right)
        <5>1. p >= u.elem /\ p >= u.elem + 1 - 1
          BY <2>2, <3>1, <4>0
        <5>2. CountUpTo(O, p) = 1
          BY <2>2, <2>6, <3>1, <5>1
        <5> QED
          BY <2>6, <3>1, <4>0, <5>1, <5>2
      <4>2. CountUpTo(P(u), p) - (MySize(u.left) + 1) = CountUpTo(R, p) /\ CountUpTo(P(u), p) \in Int
            /\ CountUpTo(P(u), p) > MySize(u.left) + 1
        BY <2>6, <4>1
      <4> QED
        BY <2>4, <2>5, <2>6, <3>4, <4>2
    <3> QED
      BY <3>1, <3>2, <3>3, <3>4
  <2>8. ASSUME NEW s \in Int, s > Cardinality(P(u)) PROVE SelectFrom(u, s) = -1
    <3>1. /\ s > MySize(u.left) + 1 /\ s - (MySize(u.left) + 1) > Cardinality(R)
          /\ s - (MySize(u.left) + 1) \in Int
      BY <2>2, <2>6, <2>8
    <3> QED
      BY <2>4, <2>5, <2>6, <3>1
  <2> QED
    BY <2>7, <2>8
<1>3. Trees \subseteq T
  <2> HIDE DEF T
  <2> QED
    BY <1>1, <1>2, TreesInduction
<1> QED
  BY <1>3

-----------------------------------------------------------------------------
(* rank and select of the tree of words.                                   *)
Worded(t, S) ==
  /\ SearchTree(t) /\ Words(Entries(t)) /\ Counts(Entries(t), IntBit, S)
  /\ \A x \in Entries(t) : OnesIn(x, IntBit, S) = Shifted(x.item.data, x.elem)

(* The word of a node, and its subtrees.                                   *)
LEMMA WordedNode ==
  ASSUME NEW S, S \subseteq Int, IsFiniteSet(S), NEW t \in Trees, t # Nil, Worded(t, S)
  PROVE  /\ t.left \in Trees /\ t.right \in Trees /\ Worded(t.left, S) /\ Worded(t.right, S)
         /\ t.elem \in Int /\ OnesIn(Entry(t), IntBit, S) = Shifted(t.item.data, t.elem)
         /\ IsFiniteSet(t.item.data) /\ t.item.data \subseteq Int /\ OwnOnes(t) = GetOnes(t.item.data)
<1>1. /\ t.left \in Trees /\ t.right \in Trees /\ SearchTree(t.left) /\ SearchTree(t.right)
      /\ Entries(t) = {Entry(t)} \cup Entries(t.left) \cup Entries(t.right)
      /\ t.elem \in Int /\ Entry(t) \in Entries(t) /\ Entry(t).elem = t.elem /\ Entry(t).item = t.item
      /\ Entry(t).own = OwnOnes(t)
  BY Subtree, EntryFields DEF Worded
<1>2. Counts(Entries(t.left), IntBit, S) /\ Counts(Entries(t.right), IntBit, S)
  BY IntBitAssumption, OnesOfNode DEF Worded
<1>3. Words(Entries(t.left)) /\ Words(Entries(t.right)) /\ t.item.data \subseteq 0 .. IntBit - 1
  BY <1>1, WordsNode DEF Worded
<1>4. OwnOnes(t) = GetOnes(t.item.data)
  BY <1>1 DEF Worded, Words, WordEntry
<1>5. IsFiniteSet(t.item.data) /\ t.item.data \subseteq Int
  <2>1. IntBit - 1 \in Int /\ 0 \in Int
    BY IntBitAssumption
  <2>2. IsFiniteSet(0 .. IntBit - 1)
    BY <2>1, FS_Interval
  <2>3. IsFiniteSet(t.item.data)
    BY <1>3, <2>2, FS_Subset
  <2>4. t.item.data \subseteq Int
    BY <1>3
  <2> QED
    BY <2>3, <2>4
<1> QED
  BY <1>1, <1>2, <1>3, <1>4, <1>5 DEF Worded

(* rank, on the tree of words.                                             *)
LEMMA RankBitsCounts ==
  ASSUME NEW S, S \subseteq Int, IsFiniteSet(S), NEW e \in Int
  PROVE  \A t \in Trees : Worded(t, S) => RankBits(t, e) = CountUpTo(OnesOf(Entries(t), IntBit, S), e)
<1> DEFINE P(u) == OnesOf(Entries(u), IntBit, S)
           T == {u \in Trees : Worded(u, S) => RankBits(u, e) = CountUpTo(P(u), e)}
<1>1. Nil \in T
  BY NoOnes, RankBitsIs, TreesAre
<1>2. ASSUME NEW u \in Node(Trees), u \in Trees, u.left \in T, u.right \in T PROVE u \in T
  <2> SUFFICES ASSUME Worded(u, S) PROVE RankBits(u, e) = CountUpTo(P(u), e)
    BY <1>2
  <2> DEFINE O == OnesIn(Entry(u), IntBit, S)
  <2>1. u # Nil
    BY NilIsNoNode
  <2>2. /\ Worded(u.left, S) /\ Worded(u.right, S) /\ u.elem \in Int /\ O = Shifted(u.item.data, u.elem)
        /\ IsFiniteSet(u.item.data) /\ u.item.data \subseteq Int
    BY <1>2, <2>1, WordedNode
  <2>3. RankBits(u.left, e) = CountUpTo(P(u.left), e) /\ RankBits(u.right, e) = CountUpTo(P(u.right), e)
    BY <1>2, <2>2
  <2>4. RankBits(u, e) = IF e < u.elem THEN RankBits(u.left, e)
                         ELSE GetOnes2(u.item.data, e - u.elem) + MySize(u.left) + RankBits(u.right, e)
    BY <1>2, <2>1, RankBitsIs
  <2>5. GetOnes2(u.item.data, e - u.elem) = CountUpTo(O, e)
    <3>1. CountUpTo(Shifted(u.item.data, u.elem), e) = CountUpTo(u.item.data, e - u.elem)
      BY <2>2, ShiftCounts
    <3> QED
      BY <2>2, <3>1 DEF GetOnes2, CountUpTo
  <2>6. /\ MySize(u.left) \in Nat /\ CountUpTo(O, e) \in Nat /\ CountUpTo(P(u.right), e) \in Nat
        /\ e < u.elem => CountUpTo(P(u), e) = CountUpTo(P(u.left), e)
        /\ e >= u.elem => CountUpTo(P(u), e) = MySize(u.left) + CountUpTo(O, e) + CountUpTo(P(u.right), e)
    <3>1. SearchTree(u) /\ Counts(Entries(u), IntBit, S) /\ IntBit \in Nat \ {0}
      BY IntBitAssumption DEF Worded
    <3> QED
      BY <1>2, <2>1, <3>1, CountNode
  <2> HIDE DEF P, O
  <2> QED
    BY <2>2, <2>3, <2>4, <2>5, <2>6
<1>3. Trees \subseteq T
  <2> HIDE DEF T
  <2> QED
    BY <1>1, <1>2, TreesInduction
<1> QED
  BY <1>3

(* The place of a one in a word, by its number.                            *)
LEMMA XOnePosFinds ==
  ASSUME NEW D, IsFiniteSet(D), D \subseteq Int, NEW k \in D
  PROVE  GetXOnePos(D, CountUpTo(D, k)) = k
<1>1. \A j \in D : GetOnes2(D, j) = CountUpTo(D, j)
  BY DEF GetOnes2, CountUpTo
<1>2. \A j \in D : CountUpTo(D, j) = CountUpTo(D, k) => j = k
  BY CountTells
<1>3. \A j \in D : GetOnes2(D, j) = CountUpTo(D, k) <=> j = k
  BY <1>1, <1>2
<1> QED
  BY <1>3 DEF GetXOnePos

(* select, on the tree of words.                                           *)
LEMMA SelectBitsFinds ==
  ASSUME NEW S, S \subseteq Int, IsFiniteSet(S)
  PROVE  \A t \in Trees : Worded(t, S) =>
           /\ \A p \in OnesOf(Entries(t), IntBit, S) :
                SelectBitsFrom(t, CountUpTo(OnesOf(Entries(t), IntBit, S), p)) = p
           /\ \A s \in Int : s > Cardinality(OnesOf(Entries(t), IntBit, S)) => SelectBitsFrom(t, s) = -1
<1> DEFINE P(u) == OnesOf(Entries(u), IntBit, S)
           Post(u) == /\ \A p \in P(u) : SelectBitsFrom(u, CountUpTo(P(u), p)) = p
                      /\ \A s \in Int : s > Cardinality(P(u)) => SelectBitsFrom(u, s) = -1
           T == {u \in Trees : Worded(u, S) => Post(u)}
<1>1. Nil \in T
  BY NoOnes, SelectBitsFromIs, TreesAre
<1>2. ASSUME NEW u \in Node(Trees), u \in Trees, u.left \in T, u.right \in T PROVE u \in T
  <2> SUFFICES ASSUME Worded(u, S) PROVE Post(u)
    BY <1>2
  <2> DEFINE O == OnesIn(Entry(u), IntBit, S)
             L == P(u.left)
             R == P(u.right)
             D == u.item.data
  <2>1. u # Nil
    BY NilIsNoNode
  <2>2. /\ Worded(u.left, S) /\ Worded(u.right, S) /\ u.elem \in Int /\ O = Shifted(D, u.elem)
        /\ IsFiniteSet(D) /\ D \subseteq Int /\ OwnOnes(u) = GetOnes(D)
    BY <1>2, <2>1, WordedNode
  <2>3. Post(u.left) /\ Post(u.right)
    BY <1>2, <2>2
  <2>4. /\ \A p \in L : SelectBitsFrom(u.left, CountUpTo(L, p)) = p
        /\ \A p \in R : SelectBitsFrom(u.right, CountUpTo(R, p)) = p
        /\ \A s \in Int : s > Cardinality(R) => SelectBitsFrom(u.right, s) = -1
    BY <2>3
  <2>5. \A s \in Int :
          SelectBitsFrom(u, s) = IF s <= MySize(u.left) THEN SelectBitsFrom(u.left, s)
                                 ELSE IF s <= MySize(u.left) + OwnOnes(u)
                                 THEN u.elem + GetXOnePos(D, s - MySize(u.left))
                                 ELSE SelectBitsFrom(u.right, s - (MySize(u.left) + OwnOnes(u)))
    <3> HIDE DEF Post, T, L, R, O
    <3> QED
      BY <1>2, <2>1, <2>2, SelectBitsFromIs
  <2>6. /\ MySize(u.left) \in Nat /\ MySize(u.right) \in Nat /\ MySize(u.right) = Cardinality(R)
        /\ OwnOnes(u) \in Nat
        /\ Cardinality(P(u)) = MySize(u.left) + OwnOnes(u) + MySize(u.right)
        /\ \A e \in Int :
             /\ e < u.elem => CountUpTo(P(u), e) = CountUpTo(L, e)
             /\ e >= u.elem => CountUpTo(P(u), e) = MySize(u.left) + CountUpTo(O, e) + CountUpTo(R, e)
             /\ e < u.elem + IntBit => CountUpTo(R, e) = 0
             /\ e >= u.elem + IntBit - 1 => CountUpTo(O, e) = OwnOnes(u)
             /\ e \in L => e < u.elem /\ CountUpTo(L, e) \in 1 .. MySize(u.left)
             /\ e \in O => u.elem <= e /\ e < u.elem + IntBit /\ CountUpTo(O, e) \in 1 .. OwnOnes(u)
             /\ e \in R => u.elem + IntBit <= e /\ CountUpTo(R, e) \in 1 .. MySize(u.right)
        /\ P(u) = Union3(L, O, R) /\ P(u) \subseteq Int
    <3>1. SearchTree(u) /\ Counts(Entries(u), IntBit, S) /\ IntBit \in Nat \ {0}
      BY IntBitAssumption DEF Worded
    <3> HIDE DEF Post, T
    <3> QED
      BY <1>2, <2>1, <3>1, CountNode DEF Union3
  <2> HIDE DEF P, O, L, R, D
  <2>7. ASSUME NEW p \in P(u) PROVE SelectBitsFrom(u, CountUpTo(P(u), p)) = p
    <3>1. p \in Int /\ (p \in L \/ p \in O \/ p \in R)
      BY <2>6 DEF Union3
    <3>2. CASE p \in L
      <4>1. CountUpTo(P(u), p) = CountUpTo(L, p) /\ CountUpTo(L, p) \in 1 .. MySize(u.left)
        BY <2>6, <3>1, <3>2
      <4> QED
        BY <2>4, <2>5, <2>6, <3>2, <4>1
    <3>3. CASE p \in O
      <4>1. PICK k \in D : p = u.elem + k
        BY <2>2, <3>3 DEF Shifted
      <4>2. p - u.elem = k /\ k \in Int
        BY <2>2, <4>1
      <4>3. CountUpTo(O, p) = CountUpTo(D, k)
        BY <2>2, <3>1, <4>2, ShiftCounts
      <4>4. /\ CountUpTo(P(u), p) = MySize(u.left) + CountUpTo(D, k)
            /\ CountUpTo(D, k) \in 1 .. OwnOnes(u)
        <5>1. u.elem <= p /\ p < u.elem + IntBit /\ CountUpTo(O, p) \in 1 .. OwnOnes(u)
          BY <2>6, <3>1, <3>3
        <5>2. CountUpTo(P(u), p) = MySize(u.left) + CountUpTo(O, p) + 0
          BY <2>2, <2>6, <3>1, <5>1
        <5> QED
          BY <2>6, <4>3, <5>1, <5>2
      <4>5. SelectBitsFrom(u, CountUpTo(P(u), p)) = u.elem + GetXOnePos(D, CountUpTo(D, k))
        BY <2>5, <2>6, <4>4
      <4>6. GetXOnePos(D, CountUpTo(D, k)) = k
        BY <2>2, XOnePosFinds
      <4> QED
        BY <4>1, <4>5, <4>6
    <3>4. CASE p \in R
      <4>0. u.elem + IntBit <= p /\ CountUpTo(R, p) \in 1 .. MySize(u.right)
        BY <2>6, <3>1, <3>4
      <4>1. CountUpTo(P(u), p) = MySize(u.left) + OwnOnes(u) + CountUpTo(R, p)
        <5>1. p >= u.elem /\ p >= u.elem + IntBit - 1
          BY <2>2, <3>1, <4>0, IntBitAssumption
        <5>2. CountUpTo(O, p) = OwnOnes(u)
          BY <2>6, <3>1, <5>1
        <5> QED
          BY <2>6, <3>1, <5>1, <5>2
      <4>2. /\ CountUpTo(P(u), p) - (MySize(u.left) + OwnOnes(u)) = CountUpTo(R, p)
            /\ CountUpTo(P(u), p) \in Int /\ CountUpTo(P(u), p) > MySize(u.left) + OwnOnes(u)
        BY <2>6, <4>0, <4>1
      <4> QED
        BY <2>4, <2>5, <2>6, <3>4, <4>2
    <3> QED
      BY <3>1, <3>2, <3>3, <3>4
  <2>8. ASSUME NEW s \in Int, s > Cardinality(P(u)) PROVE SelectBitsFrom(u, s) = -1
    <3>1. /\ s > MySize(u.left) + OwnOnes(u) /\ s - (MySize(u.left) + OwnOnes(u)) > Cardinality(R)
          /\ s - (MySize(u.left) + OwnOnes(u)) \in Int
      BY <2>6, <2>8
    <3> QED
      BY <2>4, <2>5, <2>6, <3>1
  <2> QED
    BY <2>7, <2>8
<1>3. Trees \subseteq T
  <2> HIDE DEF T
  <2> QED
    BY <1>1, <1>2, TreesInduction
<1> QED
  BY <1>3

-----------------------------------------------------------------------------
(* rank and select of the tree of blocks.                                  *)
OnesAt(block) == {k \in Bits : block[k] = 1}

(* The ones of a block, counted as rank does.                              *)
LEMMA OnesAtIs ==
  ASSUME NEW block
  PROVE  /\ IsFiniteSet(OnesAt(block)) /\ OnesAt(block) \subseteq Int
         /\ \A k \in Bits : Ones(block, 0, k) = CountUpTo(OnesAt(block), k)
<1>1. ChunkBits \in Nat /\ Bits = 0 .. ChunkBits - 1
  BY Numbers
<1>2. IsFiniteSet(Bits)
  BY <1>1, FS_Interval
<1>3. OnesAt(block) \in SUBSET Bits
  BY DEF OnesAt
<1>4. IsFiniteSet(OnesAt(block))
  BY <1>2, <1>3, FS_Subset
<1>5. OnesAt(block) \subseteq Int
  BY <1>1, <1>3
<1>6. ASSUME NEW k \in Bits PROVE Ones(block, 0, k) = CountUpTo(OnesAt(block), k)
  <2>1. {j \in 0 .. k : block[j] = 1} = {j \in OnesAt(block) : j <= k}
    BY <1>1 DEF OnesAt
  <2> QED
    BY <2>1 DEF Ones, CountUpTo
<1> QED
  BY <1>4, <1>5, <1>6

(* The place of a one in a block, by its number.                           *)
LEMMA BlockOneFinds ==
  ASSUME NEW block, NEW k \in OnesAt(block)
  PROVE  (CHOOSE j \in Bits : block[j] = 1 /\ Ones(block, 0, j) = CountUpTo(OnesAt(block), k)) = k
<1>1. ASSUME NEW j \in Bits
      PROVE  block[j] = 1 /\ Ones(block, 0, j) = CountUpTo(OnesAt(block), k) <=> j = k
  <2>1. Ones(block, 0, j) = CountUpTo(OnesAt(block), j)
    BY OnesAtIs
  <2>2. block[j] = 1 <=> j \in OnesAt(block)
    BY DEF OnesAt
  <2>3. j \in OnesAt(block) /\ CountUpTo(OnesAt(block), j) = CountUpTo(OnesAt(block), k) => j = k
    BY OnesAtIs, CountTells
  <2> QED
    BY <2>1, <2>2, <2>3
<1>2. k \in Bits
  BY DEF OnesAt
<1> QED
  BY <1>1, <1>2

Stocked(t, st, S) ==
  /\ SearchTree(t) /\ Blocks(Entries(t), ChunkBits) /\ Counts(Entries(t), ChunkBits, S)
  /\ \A x \in Entries(t) : OnesIn(x, ChunkBits, S) = Shifted(OnesAt(Held(x, st)), x.elem)

(* The block of a node, and its subtrees.                                  *)
LEMMA StockedNode ==
  ASSUME NEW S, S \subseteq Int, IsFiniteSet(S), NEW st, NEW t \in Trees, t # Nil, Stocked(t, st, S)
  PROVE  /\ t.left \in Trees /\ t.right \in Trees /\ Stocked(t.left, st, S) /\ Stocked(t.right, st, S)
         /\ t.elem \in Int /\ t.item.bits = ChunkBits
         /\ OnesIn(Entry(t), ChunkBits, S) = Shifted(OnesAt(Unpacked(st, t.item.ptr)), t.elem)
<1>1. /\ t.left \in Trees /\ t.right \in Trees /\ SearchTree(t.left) /\ SearchTree(t.right)
      /\ Entries(t) = {Entry(t)} \cup Entries(t.left) \cup Entries(t.right)
      /\ t.elem \in Int /\ Entry(t) \in Entries(t) /\ Entry(t).elem = t.elem /\ Entry(t).item = t.item
  BY Subtree, EntryFields DEF Stocked
<1>2. Counts(Entries(t.left), ChunkBits, S) /\ Counts(Entries(t.right), ChunkBits, S)
  BY Numbers, OnesOfNode DEF Stocked
<1>3. Blocks(Entries(t.left), ChunkBits) /\ Blocks(Entries(t.right), ChunkBits) /\ t.item.bits = ChunkBits
  BY <1>1, Numbers, BlocksNode DEF Stocked
<1>4. OnesIn(Entry(t), ChunkBits, S) = Shifted(OnesAt(Unpacked(st, t.item.ptr)), t.elem)
  <2>1. OnesIn(Entry(t), ChunkBits, S) = Shifted(OnesAt(Held(Entry(t), st)), Entry(t).elem)
    BY <1>1 DEF Stocked
  <2> QED
    BY <1>1, <2>1 DEF Held
<1> QED
  BY <1>1, <1>2, <1>3, <1>4 DEF Stocked

(* What rank makes of a block that counts in part.                         *)
PartOf(r, st, e) ==
  IF r.node = Nil THEN 0 ELSE Ones(Unpacked(st, r.node.item.ptr), 0, e - r.node.elem)

(* rank, on the tree of blocks: the ones of whole blocks and of the last   *)
(* one, as far as it counts.                                               *)
LEMMA RankBlocksCounts ==
  ASSUME NEW S, S \subseteq Int, IsFiniteSet(S), NEW st, NEW e \in Int
  PROVE  \A t \in Trees : Stocked(t, st, S) =>
           LET r == RankBlocks(t, e)
           IN  /\ r = [elements |-> r.elements, node |-> r.node]
               /\ r.elements \in Int /\ PartOf(r, st, e) \in Int
               /\ r.elements + PartOf(r, st, e) = CountUpTo(OnesOf(Entries(t), ChunkBits, S), e)
<1> DEFINE P(u) == OnesOf(Entries(u), ChunkBits, S)
           Post(u, r) == /\ r = [elements |-> r.elements, node |-> r.node]
                         /\ r.elements \in Int /\ PartOf(r, st, e) \in Int
                         /\ r.elements + PartOf(r, st, e) = CountUpTo(P(u), e)
           T == {u \in Trees : Stocked(u, st, S) => Post(u, RankBlocks(u, e))}
<1>1. Nil \in T
  <2>1. RankBlocks(Nil, e) = [elements |-> 0, node |-> Nil]
    BY RankBlocksIs, TreesAre
  <2>2. CountUpTo(P(Nil), e) = 0
    BY NoOnes
  <2> QED
    BY <2>1, <2>2, TreesAre DEF PartOf
<1>2. ASSUME NEW u \in Node(Trees), u \in Trees, u.left \in T, u.right \in T PROVE u \in T
  <2> SUFFICES ASSUME Stocked(u, st, S) PROVE Post(u, RankBlocks(u, e))
    BY <1>2
  <2> DEFINE O == OnesIn(Entry(u), ChunkBits, S)
             L == P(u.left)
             R == P(u.right)
             block == Unpacked(st, u.item.ptr)
             rl == RankBlocks(u.left, e)
             rr == RankBlocks(u.right, e)
  <2>1. u # Nil
    BY NilIsNoNode
  <2>2. /\ Stocked(u.left, st, S) /\ Stocked(u.right, st, S) /\ u.elem \in Int
        /\ u.item.bits = ChunkBits /\ O = Shifted(OnesAt(block), u.elem)
    BY <1>2, <2>1, StockedNode
  <2>3. Post(u.left, rl) /\ Post(u.right, rr)
    BY <1>2, <2>2
  <2>4. RankBlocks(u, e) = IF e < u.elem THEN rl
                           ELSE IF e - u.elem >= ChunkBits - 1
                           THEN [rr EXCEPT !.elements = @ + MySize(u.left) + OwnOnes(u)]
                           ELSE [elements |-> MySize(u.left), node |-> u]
    BY <1>2, <2>1, <2>2, RankBlocksIs
  <2>5. /\ MySize(u.left) \in Nat /\ OwnOnes(u) \in Nat
        /\ e < u.elem => CountUpTo(P(u), e) = CountUpTo(L, e)
        /\ e >= u.elem => CountUpTo(P(u), e) = MySize(u.left) + CountUpTo(O, e) + CountUpTo(R, e)
        /\ e < u.elem + ChunkBits => CountUpTo(R, e) = 0
        /\ e >= u.elem + ChunkBits - 1 => CountUpTo(O, e) = OwnOnes(u)
        /\ CountUpTo(O, e) \in Nat /\ CountUpTo(R, e) \in Nat
    <3>1. SearchTree(u) /\ Counts(Entries(u), ChunkBits, S) /\ ChunkBits \in Nat \ {0}
      BY Numbers DEF Stocked
    <3> HIDE DEF Post, T, rl, rr
    <3> QED
      BY <1>2, <2>1, <3>1, CountNode
  <2>6. ChunkBits \in Nat \ {0}
    BY Numbers
  <2> HIDE DEF P, O, L, R, block, rl, rr
  <2>7. CASE e < u.elem
    <3>1. RankBlocks(u, e) = rl
      BY <2>4, <2>7
    <3>2. CountUpTo(P(u), e) = CountUpTo(P(u.left), e)
      BY <2>5, <2>7 DEF L
    <3> QED
      BY <2>3, <3>1, <3>2
  <2>8. CASE e >= u.elem /\ e - u.elem >= ChunkBits - 1
    <3> DEFINE r == [elements |-> rr.elements + MySize(u.left) + OwnOnes(u), node |-> rr.node]
    <3>1. RankBlocks(u, e) = r
      <4>1. RankBlocks(u, e) = [rr EXCEPT !.elements = @ + MySize(u.left) + OwnOnes(u)]
        BY <2>2, <2>4, <2>8
      <4>2. rr = [elements |-> rr.elements, node |-> rr.node]
        BY <2>3
      <4> QED
        BY <4>1, <4>2
    <3>2. CountUpTo(P(u), e) = MySize(u.left) + OwnOnes(u) + CountUpTo(R, e)
      <4>1. e >= u.elem /\ e >= u.elem + ChunkBits - 1
        BY <2>2, <2>6, <2>8
      <4> QED
        BY <2>5, <4>1
    <3>3. PartOf(r, st, e) = PartOf(rr, st, e)
      BY DEF PartOf
    <3>4. /\ rr.elements \in Int /\ PartOf(rr, st, e) \in Int
          /\ rr.elements + PartOf(rr, st, e) = CountUpTo(R, e)
      BY <2>3 DEF R
    <3>5. /\ r = [elements |-> r.elements, node |-> r.node]
          /\ r.elements = rr.elements + MySize(u.left) + OwnOnes(u)
      OBVIOUS
    <3> HIDE DEF r
    <3>6. Post(u, r)
      BY <2>5, <3>2, <3>3, <3>4, <3>5
    <3> QED
      BY <3>1, <3>6
  <2>9. CASE e >= u.elem /\ e - u.elem < ChunkBits - 1
    <3> DEFINE r == [elements |-> MySize(u.left), node |-> u]
    <3>1. RankBlocks(u, e) = r
      BY <2>2, <2>4, <2>6, <2>9
    <3>2. e - u.elem \in Bits /\ e - u.elem \in Int
      BY <2>2, <2>6, <2>9, Numbers
    <3>3. CountUpTo(P(u), e) = MySize(u.left) + CountUpTo(O, e)
      <4>1. e >= u.elem /\ e < u.elem + ChunkBits
        BY <2>2, <2>6, <2>9
      <4> QED
        BY <2>5, <4>1
    <3>4. CountUpTo(O, e) = Ones(block, 0, e - u.elem)
      <4>1. CountUpTo(Shifted(OnesAt(block), u.elem), e) = CountUpTo(OnesAt(block), e - u.elem)
        BY <2>2, OnesAtIs, ShiftCounts
      <4>2. Ones(block, 0, e - u.elem) = CountUpTo(OnesAt(block), e - u.elem)
        BY <3>2, OnesAtIs
      <4> QED
        BY <2>2, <4>1, <4>2
    <3>5. PartOf(r, st, e) = Ones(block, 0, e - u.elem)
      BY <2>1 DEF PartOf, block
    <3>6. r = [elements |-> r.elements, node |-> r.node] /\ r.elements = MySize(u.left)
      OBVIOUS
    <3> HIDE DEF r
    <3>7. Post(u, r)
      BY <2>5, <3>3, <3>4, <3>5, <3>6
    <3> QED
      BY <3>1, <3>7
  <2> QED
    BY <2>2, <2>6, <2>7, <2>8, <2>9
<1>3. Trees \subseteq T
  <2> HIDE DEF T
  <2> QED
    BY <1>1, <1>2, TreesInduction
<1> QED
  BY <1>3

-----------------------------------------------------------------------------
(* What select makes of a block, and of none.                              *)
PlaceIn(r, st) ==
  LET block == Unpacked(st, r.node.item.ptr)
  IN  IF r.node = Nil THEN -1
      ELSE r.node.elem + CHOOSE k \in Bits : block[k] = 1 /\ Ones(block, 0, k) = r.ones

(* select, on the tree of blocks.                                          *)
LEMMA SelectBlockFinds ==
  ASSUME NEW S, S \subseteq Int, IsFiniteSet(S), NEW st
  PROVE  \A t \in Trees : Stocked(t, st, S) =>
           /\ \A p \in OnesOf(Entries(t), ChunkBits, S) :
                PlaceIn(SelectBlockFrom(t, CountUpTo(OnesOf(Entries(t), ChunkBits, S), p)), st) = p
           /\ \A s \in Int : s > Cardinality(OnesOf(Entries(t), ChunkBits, S))
                               => PlaceIn(SelectBlockFrom(t, s), st) = -1
<1> DEFINE P(u) == OnesOf(Entries(u), ChunkBits, S)
           Place(u, s) == PlaceIn(SelectBlockFrom(u, s), st)
           Post(u) == /\ \A p \in P(u) : Place(u, CountUpTo(P(u), p)) = p
                      /\ \A s \in Int : s > Cardinality(P(u)) => Place(u, s) = -1
           T == {u \in Trees : Stocked(u, st, S) => Post(u)}
<1>1. Nil \in T
  <2>1. \A s \in Int : SelectBlockFrom(Nil, s) = [ones |-> -1, node |-> Nil]
    BY SelectBlockFromIs, TreesAre
  <2>2. \A s \in Int : Place(Nil, s) = -1
    BY <2>1 DEF PlaceIn
  <2>3. P(Nil) = {}
    BY NoOnes
  <2> QED
    BY <2>2, <2>3, TreesAre
<1>2. ASSUME NEW u \in Node(Trees), u \in Trees, u.left \in T, u.right \in T PROVE u \in T
  <2> SUFFICES ASSUME Stocked(u, st, S) PROVE Post(u)
    BY <1>2
  <2> DEFINE O == OnesIn(Entry(u), ChunkBits, S)
             L == P(u.left)
             R == P(u.right)
             block == Unpacked(st, u.item.ptr)
             D == OnesAt(block)
  <2>1. u # Nil
    BY NilIsNoNode
  <2>2. /\ Stocked(u.left, st, S) /\ Stocked(u.right, st, S) /\ u.elem \in Int
        /\ O = Shifted(D, u.elem) /\ ChunkBits \in Nat \ {0}
    BY <1>2, <2>1, StockedNode, Numbers
  <2>3. Post(u.left) /\ Post(u.right)
    BY <1>2, <2>2
  <2>4. /\ \A p \in L : Place(u.left, CountUpTo(L, p)) = p
        /\ \A p \in R : Place(u.right, CountUpTo(R, p)) = p
        /\ \A s \in Int : s > Cardinality(R) => Place(u.right, s) = -1
    BY <2>3
  <2>5. \A s \in Int :
          /\ s <= MySize(u.left) => Place(u, s) = Place(u.left, s)
          /\ s > MySize(u.left) /\ s <= MySize(u.left) + OwnOnes(u)
               => Place(u, s) = PlaceIn([ones |-> s - MySize(u.left), node |-> u], st)
          /\ s > MySize(u.left) /\ s > MySize(u.left) + OwnOnes(u)
               => Place(u, s) = Place(u.right, s - (MySize(u.left) + OwnOnes(u)))
    <3>1. MySize(u.left) \in Int /\ OwnOnes(u) \in Int
      <4>1. u \in AllTrees /\ u.left \in AllTrees
        BY <1>2, <2>1, Subtree, AllTreesAre, TreesAre DEF Stocked, Node
      <4> QED
        BY <2>1, <4>1, TreeNumbers
    <3>2. \A s \in Int :
            SelectBlockFrom(u, s)
              = IF s <= MySize(u.left) THEN SelectBlockFrom(u.left, s)
                ELSE IF s <= MySize(u.left) + OwnOnes(u) THEN [ones |-> s - MySize(u.left), node |-> u]
                ELSE SelectBlockFrom(u.right, s - (MySize(u.left) + OwnOnes(u)))
      BY <1>2, <2>1, SelectBlockFromIs
    <3> TAKE s \in Int
    <3> HIDE DEF Post, T, L, R, O, D
    <3>3. s <= MySize(u.left) => Place(u, s) = Place(u.left, s)
      BY <3>2
    <3>4. s > MySize(u.left) /\ s <= MySize(u.left) + OwnOnes(u)
               => Place(u, s) = PlaceIn([ones |-> s - MySize(u.left), node |-> u], st)
      BY <3>1, <3>2
    <3>5. s > MySize(u.left) /\ s > MySize(u.left) + OwnOnes(u)
               => Place(u, s) = Place(u.right, s - (MySize(u.left) + OwnOnes(u)))
      BY <3>1, <3>2
    <3> QED
      BY <3>3, <3>4, <3>5
  <2>6. /\ MySize(u.left) \in Nat /\ MySize(u.right) \in Nat /\ MySize(u.right) = Cardinality(R)
        /\ OwnOnes(u) \in Nat
        /\ Cardinality(P(u)) = MySize(u.left) + OwnOnes(u) + MySize(u.right)
        /\ \A e \in Int :
             /\ e < u.elem => CountUpTo(P(u), e) = CountUpTo(L, e)
             /\ e >= u.elem => CountUpTo(P(u), e) = MySize(u.left) + CountUpTo(O, e) + CountUpTo(R, e)
             /\ e < u.elem + ChunkBits => CountUpTo(R, e) = 0
             /\ e >= u.elem + ChunkBits - 1 => CountUpTo(O, e) = OwnOnes(u)
             /\ e \in L => e < u.elem /\ CountUpTo(L, e) \in 1 .. MySize(u.left)
             /\ e \in O => u.elem <= e /\ e < u.elem + ChunkBits /\ CountUpTo(O, e) \in 1 .. OwnOnes(u)
             /\ e \in R => u.elem + ChunkBits <= e /\ CountUpTo(R, e) \in 1 .. MySize(u.right)
        /\ P(u) = Union3(L, O, R) /\ P(u) \subseteq Int
    <3>1. SearchTree(u) /\ Counts(Entries(u), ChunkBits, S) /\ ChunkBits \in Nat \ {0}
      BY Numbers DEF Stocked
    <3> HIDE DEF Post, T, Place
    <3> QED
      BY <1>2, <2>1, <3>1, CountNode DEF Union3
  <2> HIDE DEF P, O, L, R, D, Place
  <2>7. ASSUME NEW p \in P(u) PROVE Place(u, CountUpTo(P(u), p)) = p
    <3>1. p \in Int /\ (p \in L \/ p \in O \/ p \in R)
      BY <2>6 DEF Union3
    <3>2. CASE p \in L
      <4>1. CountUpTo(P(u), p) = CountUpTo(L, p) /\ CountUpTo(L, p) \in 1 .. MySize(u.left)
        BY <2>6, <3>1, <3>2
      <4>2. CountUpTo(L, p) \in Int /\ CountUpTo(L, p) <= MySize(u.left)
        BY <2>6, <4>1
      <4>3. Place(u, CountUpTo(L, p)) = Place(u.left, CountUpTo(L, p))
        BY <2>5, <4>2
      <4> QED
        BY <2>4, <3>2, <4>1, <4>3
    <3>3. CASE p \in O
      <4>1. PICK k \in D : p = u.elem + k
        BY <2>2, <3>3 DEF Shifted
      <4>2. p - u.elem = k /\ k \in Int /\ IsFiniteSet(D) /\ D \subseteq Int
        <5>1. IsFiniteSet(D) /\ D \subseteq Int
          BY OnesAtIs DEF D
        <5> QED
          BY <2>2, <4>1, <5>1
      <4>3. CountUpTo(O, p) = CountUpTo(D, k)
        BY <2>2, <3>1, <4>2, ShiftCounts
      <4>4. /\ CountUpTo(P(u), p) = MySize(u.left) + CountUpTo(D, k)
            /\ CountUpTo(D, k) \in 1 .. OwnOnes(u)
        <5>1. u.elem <= p /\ p < u.elem + ChunkBits /\ CountUpTo(O, p) \in 1 .. OwnOnes(u)
          BY <2>6, <3>1, <3>3
        <5>2. CountUpTo(P(u), p) = MySize(u.left) + CountUpTo(O, p) + 0
          BY <2>2, <2>6, <3>1, <5>1
        <5> QED
          BY <2>6, <4>3, <5>1, <5>2
      <4>5. Place(u, CountUpTo(P(u), p)) = PlaceIn([ones |-> CountUpTo(D, k), node |-> u], st)
        <5> DEFINE s == CountUpTo(P(u), p)
        <5>1. s \in Int /\ s > MySize(u.left) /\ s <= MySize(u.left) + OwnOnes(u)
              /\ s - MySize(u.left) = CountUpTo(D, k)
          BY <2>6, <4>4
        <5> HIDE DEF s
        <5>2. Place(u, s) = PlaceIn([ones |-> s - MySize(u.left), node |-> u], st)
          BY <2>5, <5>1
        <5> QED
          BY <5>1, <5>2 DEF s
      <4>6. PlaceIn([ones |-> CountUpTo(D, k), node |-> u], st)
              = u.elem + CHOOSE j \in Bits : block[j] = 1 /\ Ones(block, 0, j) = CountUpTo(D, k)
        BY <2>1 DEF PlaceIn
      <4>7. (CHOOSE j \in Bits : block[j] = 1 /\ Ones(block, 0, j) = CountUpTo(D, k)) = k
        <5>1. k \in OnesAt(block)
          BY <4>1 DEF D
        <5> QED
          BY <5>1, BlockOneFinds DEF D
      <4> QED
        BY <4>1, <4>5, <4>6, <4>7
    <3>4. CASE p \in R
      <4>0. u.elem + ChunkBits <= p /\ CountUpTo(R, p) \in 1 .. MySize(u.right)
        BY <2>6, <3>1, <3>4
      <4>1. CountUpTo(P(u), p) = MySize(u.left) + OwnOnes(u) + CountUpTo(R, p)
        <5>1. p >= u.elem /\ p >= u.elem + ChunkBits - 1
          BY <2>2, <3>1, <4>0
        <5>2. CountUpTo(O, p) = OwnOnes(u)
          BY <2>6, <3>1, <5>1
        <5> QED
          BY <2>6, <3>1, <5>1, <5>2
      <4>2. /\ CountUpTo(P(u), p) - (MySize(u.left) + OwnOnes(u)) = CountUpTo(R, p)
            /\ CountUpTo(P(u), p) \in Int /\ CountUpTo(P(u), p) > MySize(u.left) + OwnOnes(u)
            /\ CountUpTo(P(u), p) > MySize(u.left)
        BY <2>6, <4>0, <4>1
      <4> QED
        BY <2>4, <2>5, <3>4, <4>2
    <3> QED
      BY <3>1, <3>2, <3>3, <3>4
  <2>8. ASSUME NEW s \in Int, s > Cardinality(P(u)) PROVE Place(u, s) = -1
    <3>1. /\ s > MySize(u.left) + OwnOnes(u) /\ s - (MySize(u.left) + OwnOnes(u)) > Cardinality(R)
          /\ s - (MySize(u.left) + OwnOnes(u)) \in Int /\ s > MySize(u.left)
      BY <2>6, <2>8
    <3> QED
      BY <2>4, <2>5, <3>1
  <2> QED
    BY <2>7, <2>8
<1>3. Trees \subseteq T
  <2> HIDE DEF T
  <2> QED
    BY <1>1, <1>2, TreesInduction
<1> QED
  BY <1>3

-----------------------------------------------------------------------------
(* In each of the trees, the ones are those of the vectors.                *)
LEMMA SetPlaced ==
  ASSUME NEW c \in Nat, NEW t, SetFits(t, c)
  PROVE  LET S == ElemsOf(Entries(t))
         IN  Placed(t, S) /\ OnesOf(Entries(t), 1, S) = S
<1> DEFINE E == Entries(t)
           S == ElemsOf(E)
<1>1. SearchTree(t) /\ Plain(E) /\ S \subseteq 0 .. c - 1
  BY DEF SetFits
<1>2. \A x \in E : x.elem \in Int /\ x.elem \in S /\ x.own = 1
  BY <1>1 DEF Plain, NewRecord, ElemsOf
<1> HIDE DEF E
<1>3. Spaced(E, 1)
  BY <1>2 DEF Spaced
<1>4. \A x \in E : x.own = Cardinality(OnesIn(x, 1, S))
  <2> TAKE x \in E
  <2>1. \A p \in S : p \in Int
    BY <1>1
  <2>2. OnesIn(x, 1, S) = {x.elem}
    <3>1. \A p \in S : x.elem <= p /\ p < x.elem + 1 <=> p = x.elem
      BY <1>2, <2>1
    <3> HIDE DEF S
    <3> QED
      BY <1>2, <3>1 DEF OnesIn, Covers
  <2> QED
    BY <1>2, <2>2, FS_Singleton
<1>5. OnesOf(E, 1, S) = S
  <2>1. \A p \in S : \E x \in E : Covers(x, 1, p)
    BY <1>2 DEF ElemsOf, Covers
  <2> QED
    BY <2>1 DEF OnesOf
<1> QED
  BY <1>1, <1>3, <1>4, <1>5 DEF Placed, Counts, E

(* So they are in the tree of words.                                       *)
LEMMA WordsPlaced ==
  ASSUME NEW c \in Nat, NEW S, S \subseteq 0 .. c - 1, NEW t \in Trees, WordsFit(t, c, S)
  PROVE  Worded(t, S) /\ OnesOf(Entries(t), IntBit, S) = S
<1> DEFINE E == Entries(t)
<1>1. /\ SearchTree(t) /\ Words(E) /\ Spaced(E, IntBit) /\ \A x \in E : WordEntry(x)
      /\ \A x \in E : x.elem \in Nat
      /\ \A p \in 0 .. c - 1 : \E x \in E : Covers(x, IntBit, p)
      /\ \A x, y \in E : x.elem = y.elem => x = y
  BY EntryByElem DEF WordsFit, Words, Tiled
<1>2. \A e \in Int : HasBit(E, e) <=> e \in S
  BY DEF WordsFit
<1>3. OnesOf(E, IntBit, S) = S
  BY <1>1 DEF OnesOf
<1> HIDE DEF E
<1>4. ASSUME NEW x \in E
      PROVE  OnesIn(x, IntBit, S) = Shifted(x.item.data, x.elem)
             /\ x.own = Cardinality(OnesIn(x, IntBit, S))
  <2> DEFINE D == x.item.data
  <2>1. x.elem \in Nat /\ D \subseteq 0 .. IntBit - 1 /\ x.own = GetOnes(D) /\ IntBit \in Nat \ {0}
    BY <1>1, IntBitAssumption DEF WordEntry
  <2>2. \A k \in D : k \in 0 .. IntBit - 1 /\ x.elem + k \in Int /\ (x.elem + k) - x.elem = k
    BY <2>1
  <2>3. \A k \in D : x.elem + k \in S /\ Covers(x, IntBit, x.elem + k)
    <3> TAKE k \in D
    <3>1. HasBit(E, x.elem + k)
      BY <2>2 DEF HasBit
    <3>2. x.elem + k \in S
      BY <1>2, <2>2, <3>1
    <3> QED
      BY <2>1, <2>2, <3>2 DEF Covers
  <2>4. \A p \in S : Covers(x, IntBit, p) => \E k \in D : p = x.elem + k
    <3> SUFFICES ASSUME NEW p \in S, Covers(x, IntBit, p) PROVE \E k \in D : p = x.elem + k
      OBVIOUS
    <3>1. p \in Int
      OBVIOUS
    <3>2. PICK y \in E : p - y.elem \in y.item.data
      BY <1>2, <3>1 DEF HasBit
    <3>3. y.elem \in Nat /\ y.item.data \subseteq 0 .. IntBit - 1
      BY <1>1 DEF WordEntry
    <3>4. p - y.elem \in 0 .. IntBit - 1
      BY <3>2, <3>3
    <3>5. y.elem <= p /\ p < y.elem + IntBit /\ x.elem <= p /\ p < x.elem + IntBit
      BY <2>1, <3>1, <3>3, <3>4 DEF Covers
    <3>6. y.elem = x.elem
      <4>1. (x.elem < y.elem => x.elem + IntBit <= y.elem) /\ (y.elem < x.elem => y.elem + IntBit <= x.elem)
        BY <1>1 DEF Spaced
      <4> QED
        BY <2>1, <3>1, <3>3, <3>5, <4>1
    <3>7. y = x
      BY <1>1, <3>6
    <3>8. p = x.elem + (p - x.elem)
      BY <2>1, <3>1
    <3> QED
      BY <3>2, <3>7, <3>8
  <2>5. OnesIn(x, IntBit, S) = Shifted(D, x.elem)
    BY <2>3, <2>4 DEF OnesIn, Shifted
  <2>6. IsFiniteSet(D) /\ D \subseteq Int
    <3>1. IsFiniteSet(0 .. IntBit - 1)
      BY <2>1, FS_Interval
    <3>2. IsFiniteSet(D)
      BY <2>1, <3>1, FS_Subset
    <3> QED
      BY <2>1, <3>2
  <2>7. Cardinality(Shifted(D, x.elem)) = Cardinality(D)
    BY <2>1, <2>6, ShiftCounts
  <2> QED
    BY <2>1, <2>5, <2>7 DEF GetOnes
<1> QED
  BY <1>1, <1>3, <1>4 DEF Worded, Counts, E

(* So they are in the tree of blocks.                                      *)
LEMMA BlocksPlaced ==
  ASSUME NEW c \in Nat, NEW S, S \subseteq 0 .. c - 1, NEW t, NEW st, BlocksFit(t, st, c, S)
  PROVE  Stocked(t, st, S) /\ OnesOf(Entries(t), ChunkBits, S) = S
<1> DEFINE E == Entries(t)
<1>1. /\ SearchTree(t) /\ Blocks(E, ChunkBits) /\ Spaced(E, ChunkBits)
      /\ \A x \in E : x.elem \in Nat
      /\ \A p \in 0 .. c - 1 : \E x \in E : Covers(x, ChunkBits, p)
      /\ BitsAre(E, st, S)
      /\ \A x \in E : x.own = Ones(Held(x, st), 0, ChunkBits - 1)
  BY DEF BlocksFit, Blocks, Tiled, Stored
<1>2. ChunkBits \in Nat \ {0} /\ Bits = 0 .. ChunkBits - 1
  BY Numbers
<1>3. OnesOf(E, ChunkBits, S) = S
  BY <1>1 DEF OnesOf
<1> HIDE DEF E
<1>4. ASSUME NEW x \in E
      PROVE  OnesIn(x, ChunkBits, S) = Shifted(OnesAt(Held(x, st)), x.elem)
             /\ x.own = Cardinality(OnesIn(x, ChunkBits, S))
  <2> DEFINE D == OnesAt(Held(x, st))
  <2>1. x.elem \in Nat /\ D \subseteq Bits
    BY <1>1 DEF OnesAt
  <2>2. \A k \in Bits : k \in D <=> x.elem + k \in S
    BY <1>1 DEF BitsAre, OnesAt
  <2> HIDE DEF D
  <2>3. \A k \in D : x.elem + k \in S /\ Covers(x, ChunkBits, x.elem + k)
    BY <1>2, <2>1, <2>2 DEF Covers
  <2>4. \A p \in S : Covers(x, ChunkBits, p) => \E k \in D : p = x.elem + k
    <3> SUFFICES ASSUME NEW p \in S, Covers(x, ChunkBits, p) PROVE \E k \in D : p = x.elem + k
      OBVIOUS
    <3>1. p \in Int
      OBVIOUS
    <3>2. p - x.elem \in Bits /\ x.elem + (p - x.elem) = p
      BY <1>2, <2>1, <3>1 DEF Covers
    <3> QED
      BY <2>2, <3>2
  <2>5. OnesIn(x, ChunkBits, S) = Shifted(D, x.elem)
    BY <2>3, <2>4 DEF OnesIn, Shifted
  <2>6. IsFiniteSet(D) /\ D \subseteq Int
    BY OnesAtIs DEF D
  <2>7. Cardinality(Shifted(D, x.elem)) = Cardinality(D)
    <3>1. x.elem \in Int
      BY <2>1
    <3> QED
      BY <2>6, <3>1, ShiftCounts
  <2>8. x.own = Cardinality(D)
    <3>1. {k \in 0 .. ChunkBits - 1 : Held(x, st)[k] = 1} = D
      BY <1>2 DEF D, OnesAt
    <3> QED
      BY <1>1, <3>1 DEF Ones
  <2> QED
    BY <2>5, <2>7, <2>8 DEF D
<1> QED
  BY <1>1, <1>3, <1>4 DEF Stocked, Counts, E

(* The ones of the vectors, for rank and select of each.                   *)
LEMMA OnesAre ==
  ASSUME Invariant
  PROVE  LET S == ElemsOf(Entries(setTree))
         IN  /\ SetBits = S /\ IsFiniteSet(S) /\ S \subseteq Int
             /\ setTree \in Trees /\ Placed(setTree, S) /\ OnesOf(Entries(setTree), 1, S) = S
             /\ wordTree \in Trees /\ Worded(wordTree, S) /\ OnesOf(Entries(wordTree), IntBit, S) = S
             /\ blockTree \in Trees /\ Stocked(blockTree, store, S)
             /\ OnesOf(Entries(blockTree), ChunkBits, S) = S
<1> DEFINE c == counter * ChunkBits
           S == ElemsOf(Entries(setTree))
<1>1. /\ counter \in 0 .. MaxBlocks /\ SetFits(setTree, c) /\ WordsFit(wordTree, c, S)
      /\ BlocksFit(blockTree, store, c, S)
  BY DEF Invariant
<1>2. c \in Nat /\ S \subseteq 0 .. c - 1
  BY <1>1, Numbers DEF SetFits
<1>3. IsFiniteSet(S)
  <2>1. IsFiniteSet(0 .. c - 1)
    BY <1>2, FS_Interval
  <2> QED
    BY <1>2, <2>1, FS_Subset
<1>4. SetBits = S
  <2>1. \A p \in 0 .. LastBit : AccessSet(p) = IF p \in S THEN 1 ELSE 0
    BY AccessIs
  <2>2. LastBit = c - 1
    BY DEF LastBit
  <2>3. S \subseteq 0 .. LastBit
    BY <1>2, <2>2
  <2> HIDE DEF S, c
  <2>4. \A p \in 0 .. LastBit : AccessSet(p) = 1 <=> p \in S
    BY <2>1
  <2> QED
    BY <2>3, <2>4 DEF SetBits
<1>5. setTree \in Trees /\ wordTree \in Trees /\ blockTree \in Trees
  BY InTheTrees
<1>6. Placed(setTree, S) /\ OnesOf(Entries(setTree), 1, S) = S
  BY <1>1, <1>2, SetPlaced
<1> HIDE DEF S, c
<1>7. Worded(wordTree, S) /\ OnesOf(Entries(wordTree), IntBit, S) = S
  BY <1>1, <1>2, <1>5, WordsPlaced
<1>8. Stocked(blockTree, store, S) /\ OnesOf(Entries(blockTree), ChunkBits, S) = S
  BY <1>1, <1>2, BlocksPlaced
<1>9. S \subseteq Int
  BY <1>2
<1> QED
  BY <1>3, <1>4, <1>5, <1>6, <1>7, <1>8, <1>9 DEF S

(* rank counts the ones up to a bit, in each of the three bit vectors.     *)
THEOREM RankCorrect == Spec => []RankRight
<1>1. Invariant => RankRight
  <2> SUFFICES ASSUME Invariant, NEW pos \in 0 .. LastBit
               PROVE  /\ Rank(setTree, pos) = CountUpTo(SetBits, pos)
                      /\ RankBits(wordTree, pos) = CountUpTo(SetBits, pos)
                      /\ RankBlock(pos) = CountUpTo(SetBits, pos)
    BY DEF RankRight
  <2> DEFINE S == ElemsOf(Entries(setTree))
  <2>1. /\ SetBits = S /\ IsFiniteSet(S) /\ S \subseteq Int
        /\ setTree \in Trees /\ Placed(setTree, S) /\ OnesOf(Entries(setTree), 1, S) = S
        /\ wordTree \in Trees /\ Worded(wordTree, S) /\ OnesOf(Entries(wordTree), IntBit, S) = S
        /\ blockTree \in Trees /\ Stocked(blockTree, store, S)
        /\ OnesOf(Entries(blockTree), ChunkBits, S) = S
    BY OnesAre
  <2>2. pos \in Int
    OBVIOUS
  <2> HIDE DEF S
  <2>3. Rank(setTree, pos) = CountUpTo(S, pos)
    BY <2>1, <2>2, RankCounts
  <2>4. RankBits(wordTree, pos) = CountUpTo(S, pos)
    BY <2>1, <2>2, RankBitsCounts
  <2>5. RankBlock(pos) = CountUpTo(S, pos)
    <3> DEFINE r == RankBlocks(blockTree, pos)
    <3>1. r.elements + PartOf(r, store, pos) = CountUpTo(S, pos)
      BY <2>1, <2>2, RankBlocksCounts
    <3>2. RankBlock(pos) = r.elements + PartOf(r, store, pos)
      BY DEF RankBlock, PartOf, Unpacked
    <3> QED
      BY <3>1, <3>2
  <2> QED
    BY <2>1, <2>3, <2>4, <2>5
<1> QED
  BY <1>1, Fits, PTL

(* select finds the place of every one, and none behind the last.          *)
THEOREM SelectCorrect == Spec => []SelectRight
<1>1. Invariant => SelectRight
  <2> SUFFICES ASSUME Invariant PROVE SelectRight
    OBVIOUS
  <2> DEFINE S == ElemsOf(Entries(setTree))
             Finds(num, p) ==
               Select(setTree, num) = p /\ SelectBits(wordTree, num) = p /\ SelectPlace(num) = p
  <2>1. /\ SetBits = S /\ IsFiniteSet(S) /\ S \subseteq Int
        /\ setTree \in Trees /\ Placed(setTree, S) /\ OnesOf(Entries(setTree), 1, S) = S
        /\ wordTree \in Trees /\ Worded(wordTree, S) /\ OnesOf(Entries(wordTree), IntBit, S) = S
        /\ blockTree \in Trees /\ Stocked(blockTree, store, S)
        /\ OnesOf(Entries(blockTree), ChunkBits, S) = S
    BY OnesAre
  <2> HIDE DEF S
  <2>2. /\ \A p \in S : SelectFrom(setTree, CountUpTo(S, p)) = p
        /\ \A s \in Int : s > Cardinality(S) => SelectFrom(setTree, s) = -1
    BY <2>1, SelectFinds
  <2>3. /\ \A p \in S : SelectBitsFrom(wordTree, CountUpTo(S, p)) = p
        /\ \A s \in Int : s > Cardinality(S) => SelectBitsFrom(wordTree, s) = -1
    BY <2>1, SelectBitsFinds
  <2>4. /\ \A p \in S : PlaceIn(SelectBlockFrom(blockTree, CountUpTo(S, p)), store) = p
        /\ \A s \in Int : s > Cardinality(S) => PlaceIn(SelectBlockFrom(blockTree, s), store) = -1
    BY <2>1, SelectBlockFinds
  <2>5. \A num : SelectPlace(num) = PlaceIn(SelectBlock(blockTree, num), store)
    BY DEF SelectPlace, PlaceIn, Unpacked
  <2>6. ASSUME NEW p \in S PROVE Finds(CountUpTo(S, p) - 1, p)
    <3>1. CountUpTo(S, p) \in Nat
      BY <2>1, CountIn
    <3>2. (CountUpTo(S, p) - 1) + 1 = CountUpTo(S, p)
      BY <3>1
    <3> QED
      BY <2>2, <2>3, <2>4, <2>5, <3>2 DEF Select, SelectBits, SelectBlock
  <2>7. Finds(Cardinality(S), -1)
    <3>1. Cardinality(S) \in Nat
      BY <2>1, FS_CardinalityType
    <3>2. Cardinality(S) + 1 \in Int /\ Cardinality(S) + 1 > Cardinality(S)
      BY <3>1
    <3> QED
      BY <2>2, <2>3, <2>4, <2>5, <3>2 DEF Select, SelectBits, SelectBlock
  <2> QED
    BY <2>1, <2>6, <2>7 DEF SelectRight
<1> QED
  BY <1>1, Fits, PTL
=============================================================================
