-------------------------- MODULE NaiveGraph_proofs --------------------------
(***************************************************************************)
(* Proofs about NaiveGraph, for any graph: the search puts every vertex    *)
(* into one component, and the components are the connected ones.          *)
(*                                                                         *)
(* The first part is about the search of ConnectedComponents alone: there  *)
(* m is the number of vertices, and F[v] are the ends of the edges that    *)
(* are followed from v.                                                    *)
(***************************************************************************)
EXTENDS NaiveGraph, TLAPS

Searching == pc \notin {"load", "exit"}
Inside    == pc \in {"while", "edges"}

SearchOK(m) ==
  /\ pc \in {"load", "roots", "while", "edges", "done", "exit"}
  /\ root \in Nat /\ idx \in Nat \ {0}
  /\ queue \in Seq(0 .. m - 1) /\ component \in Seq(0 .. m - 1)
  /\ output \in Seq(Seq(0 .. m - 1))
  /\ Searching => visited \in [0 .. m - 1 -> BOOLEAN]
  /\ ~Searching => output = <<>> /\ root = 0
  /\ ~Inside => queue = <<>> /\ component = <<>>
  /\ Inside => root \in 0 .. m - 1 /\ visited[root]
  /\ pc = "edges" => current \in Elements(component)
  /\ pc = "done" => root >= m

-----------------------------------------------------------------------------
(* What the steps of the search do to the elements of its queues.          *)
LEMMA AppendElements ==
  ASSUME NEW S, NEW q \in Seq(S), NEW x \in S
  PROVE  /\ Elements(Append(q, x)) = Elements(q) \cup {x}
         /\ Append(q, x) \in Seq(S)
<1>1. Len(Append(q, x)) = Len(q) + 1 /\ Append(q, x) \in Seq(S)
  OBVIOUS
<1>2. \A k \in 1 .. Len(q) : Append(q, x)[k] = q[k]
  OBVIOUS
<1>3. Append(q, x)[Len(q) + 1] = x
  OBVIOUS
<1>4. Len(q) \in Nat
  OBVIOUS
<1> QED BY <1>1, <1>2, <1>3, <1>4 DEF Elements

LEMMA TailElements ==
  ASSUME NEW S, NEW q \in Seq(S), q # <<>>
  PROVE  /\ Elements(q) = {Head(q)} \cup Elements(Tail(q))
         /\ Head(q) \in S /\ Tail(q) \in Seq(S) /\ Head(q) \in Elements(q)
<1>1. Len(q) \in Nat \ {0} /\ Len(Tail(q)) = Len(q) - 1 /\ Tail(q) \in Seq(S)
  OBVIOUS
<1>2. \A k \in 1 .. Len(q) - 1 : Tail(q)[k] = q[k + 1]
  OBVIOUS
<1>3. Head(q) = q[1] /\ Head(q) \in S
  OBVIOUS
<1>4. ASSUME NEW k \in 1 .. Len(q)
      PROVE  q[k] = Head(q) \/ (k - 1 \in 1 .. Len(Tail(q)) /\ Tail(q)[k - 1] = q[k])
  <2>1. CASE k = 1
    BY <2>1, <1>3
  <2>2. CASE k > 1
    <3>1. k - 1 \in 1 .. Len(q) - 1 /\ (k - 1) + 1 = k
      BY <2>2, <1>1
    <3> QED BY <3>1, <1>1, <1>2
  <2> QED BY <2>1, <2>2, <1>1
<1>5. ASSUME NEW k \in 1 .. Len(Tail(q))
      PROVE  k + 1 \in 1 .. Len(q) /\ Tail(q)[k] = q[k + 1]
  BY <1>1, <1>2
<1>6. Elements(q) = {q[k] : k \in 1 .. Len(q)}
      /\ Elements(Tail(q)) = {Tail(q)[k] : k \in 1 .. Len(Tail(q))}
  BY DEF Elements
<1> HIDE DEF Elements
<1>7. Elements(Tail(q)) \subseteq Elements(q)
  BY <1>5, <1>6
<1>8. Elements(q) \subseteq {Head(q)} \cup Elements(Tail(q))
  BY <1>4, <1>6
<1>9. Head(q) \in Elements(q)
  BY <1>1, <1>3, <1>6
<1> QED BY <1>1, <1>3, <1>7, <1>8, <1>9

LEMMA ElementsIn ==
  ASSUME NEW S, NEW q \in Seq(S)
  PROVE  Elements(q) \subseteq S
BY DEF Elements

LEMMA AppendOnce ==
  ASSUME NEW S, NEW q \in Seq(S), NEW x \in S, Once(q), x \notin Elements(q)
  PROVE  Once(Append(q, x))
<1>1. Len(Append(q, x)) = Len(q) + 1 /\ Len(q) \in Nat
  OBVIOUS
<1>2. \A k \in 1 .. Len(q) : Append(q, x)[k] = q[k]
  OBVIOUS
<1>3. Append(q, x)[Len(q) + 1] = x
  OBVIOUS
<1>4. \A k \in 1 .. Len(q) : q[k] # x
  BY DEF Elements
<1> QED BY <1>1, <1>2, <1>3, <1>4 DEF Once

LEMMA TailOnce ==
  ASSUME NEW S, NEW q \in Seq(S), q # <<>>, Once(q)
  PROVE  Once(Tail(q)) /\ Head(q) \notin Elements(Tail(q))
<1>1. Len(q) \in Nat \ {0} /\ Len(Tail(q)) = Len(q) - 1 /\ Head(q) = q[1]
  OBVIOUS
<1>2. \A k \in 1 .. Len(Tail(q)) : Tail(q)[k] = q[k + 1] /\ k + 1 \in 1 .. Len(q) /\ k + 1 # 1
  BY <1>1
<1>3. 1 \in 1 .. Len(q)
  BY <1>1
<1> QED BY <1>1, <1>2, <1>3 DEF Once, Elements

LEMMA ApartDisjoint ==
  ASSUME NEW p, NEW q
  PROVE  Apart(p, q) <=> Elements(p) \cap Elements(q) = {}
BY DEF Apart, Elements

LEMMA EmptyElements == Elements(<<>>) = {} /\ Once(<<>>)
BY DEF Elements, Once

LEMMA AppendSequence ==
  ASSUME NEW S, NEW output0 \in Seq(Seq(S)), NEW q \in Seq(S), NEW output1,
         output1 = Append(output0, q)
  PROVE  /\ output1 \in Seq(Seq(S)) /\ Len(output0) \in Nat /\ Len(output1) = Len(output0) + 1
         /\ \A j \in 1 .. Len(output0) : output1[j] = output0[j]
         /\ output1[Len(output0) + 1] = q
         /\ \A j \in 1 .. Len(output1) : j \in 1 .. Len(output0) \/ j = Len(output0) + 1
OBVIOUS
-----------------------------------------------------------------------------
(* Every step keeps the types; and a vertex in one place.                  *)
LEMMA SearchTypes ==
  ASSUME NEW m \in Nat, NEW targets \in Seq(0 .. m - 1), SearchOK(m), Search(m, targets)
  PROVE  SearchOK(m)'
<1>1. Len(<<>>) = 0 /\ <<>> \in Seq(0 .. m - 1)
  OBVIOUS
<1>2. CASE StartSearch(m)
  BY <1>2 DEF SearchOK, Searching, Inside, StartSearch
<1>3. CASE SkipRoot(m)
  BY <1>3 DEF SearchOK, Searching, Inside, SkipRoot
<1>4. CASE EnterRoot(m)
  <2>1. root \in 0 .. m - 1
    BY <1>4 DEF SearchOK, EnterRoot
  <2>2. queue' \in Seq(0 .. m - 1)
    BY <1>4, <2>1 DEF SearchOK, EnterRoot
  <2>3. visited' \in [0 .. m - 1 -> BOOLEAN] /\ visited'[root]
    BY <1>4, <2>1 DEF SearchOK, Searching, EnterRoot
  <2> QED BY <1>4, <2>1, <2>2, <2>3 DEF SearchOK, Searching, Inside, EnterRoot
<1>5. CASE TakeFront
  <2>1. Head(queue) \in 0 .. m - 1 /\ queue' \in Seq(0 .. m - 1)
    BY <1>5, TailElements DEF SearchOK, TakeFront
  <2>2. /\ component' \in Seq(0 .. m - 1) /\ current' = Head(queue)
        /\ Elements(component') = Elements(component) \cup {current'}
    BY <1>5, <2>1, AppendElements DEF SearchOK, TakeFront
  <2> QED BY <1>5, <2>1, <2>2 DEF SearchOK, Searching, Inside, TakeFront
<1>6. CASE FollowEdge(targets)
  <2>1. targets[idx] \in 0 .. m - 1
    <3>1. idx \in Nat \ {0} /\ idx <= Len(targets) /\ Len(targets) \in Nat
      BY <1>6 DEF SearchOK, FollowEdge
    <3>2. idx \in 1 .. Len(targets)
      BY <3>1
    <3> QED BY <3>2
  <2>2. queue' \in Seq(0 .. m - 1)
    <3>1. queue \in Seq(0 .. m - 1)
      BY DEF SearchOK
    <3>2. queue' = queue \/ queue' = Append(queue, targets[idx])
      BY <1>6 DEF FollowEdge
    <3>3. Append(queue, targets[idx]) \in Seq(0 .. m - 1)
      BY <2>1, <3>1, AppendElements
    <3> QED BY <3>1, <3>2, <3>3
  <2>3. visited' \in [0 .. m - 1 -> BOOLEAN] /\ (visited[root] => visited'[root])
    BY <1>6, <2>1 DEF SearchOK, Searching, Inside, FollowEdge
  <2>4. /\ pc = "edges" /\ idx' = idx + 1
        /\ UNCHANGED <<pc, root, current, component, output>>
    BY <1>6 DEF FollowEdge
  <2>5. Searching /\ Searching' /\ Inside /\ Inside'
    BY <2>4 DEF Searching, Inside
  <2>6. idx' \in Nat \ {0}
    BY <2>4 DEF SearchOK
  <2> HIDE DEF Searching, Inside
  <2> QED BY <2>2, <2>3, <2>4, <2>5, <2>6 DEF SearchOK
<1>7. CASE EdgesFollowed(targets)
  BY <1>7 DEF SearchOK, Searching, Inside, EdgesFollowed, searchButPc
<1>8. CASE CloseComponent
  <2>1. output' \in Seq(Seq(0 .. m - 1))
    BY <1>8, AppendSequence DEF SearchOK, CloseComponent
  <2> QED BY <1>1, <1>8, <2>1 DEF SearchOK, Searching, Inside, CloseComponent
<1>9. CASE Finish(m)
  BY <1>9 DEF SearchOK, Searching, Inside, Finish, searchButPc
<1> QED BY <1>2, <1>3, <1>4, <1>5, <1>6, <1>7, <1>8, <1>9 DEF Search

LEMMA SearchOnce ==
  ASSUME NEW m \in Nat, NEW targets \in Seq(0 .. m - 1), SearchOK(m), EachOnce,
         Search(m, targets)
  PROVE  EachOnce'
<1>1. CASE StartSearch(m)
  <2>1. /\ Elements(queue') = {} /\ Elements(component') = {}
        /\ Len(output') = 0 /\ Once(queue') /\ Once(component')
    BY <1>1, EmptyElements DEF SearchOK, Searching, Inside, StartSearch
  <2>2. \A v \in DOMAIN visited' : ~visited'[v]
    BY <1>1 DEF StartSearch
  <2> QED BY <2>1, <2>2, ApartDisjoint DEF EachOnce
<1>2. CASE SkipRoot(m)
  BY <1>2 DEF SkipRoot, EachOnce
<1>3. CASE EnterRoot(m)
  <2>1. root \in 0 .. m - 1 /\ queue \in Seq(0 .. m - 1) /\ Searching
        /\ visited \in [0 .. m - 1 -> BOOLEAN]
    BY <1>3 DEF SearchOK, Searching, EnterRoot
  <2>2. /\ root \notin Elements(queue) \cup Elements(component)
        /\ \A j \in 1 .. Len(output) : root \notin Elements(output[j])
    BY <1>3, <2>1 DEF EnterRoot, EachOnce, Searching
  <2>3. Once(queue') /\ Elements(queue') = Elements(queue) \cup {root}
    BY <1>3, <2>1, <2>2, AppendOnce, AppendElements DEF EnterRoot, EachOnce
  <2>4. /\ DOMAIN visited' = DOMAIN visited
        /\ \A v \in DOMAIN visited : visited'[v] <=> visited[v] \/ v = root
    BY <1>3, <2>1 DEF EnterRoot
  <2>5. component' = component /\ output' = output /\ Searching
    BY <1>3 DEF EnterRoot, Searching
  <2> QED BY <2>2, <2>3, <2>4, <2>5, ApartDisjoint DEF EachOnce, Searching
<1>4. CASE TakeFront
  <2>1. queue \in Seq(0 .. m - 1) /\ queue # <<>> /\ component \in Seq(0 .. m - 1) /\ Searching
    BY <1>4 DEF SearchOK, Searching, TakeFront
  <2>2. /\ Elements(queue) = {Head(queue)} \cup Elements(queue') /\ Head(queue) \in 0 .. m - 1
        /\ Once(queue') /\ Head(queue) \notin Elements(queue') /\ Head(queue) \in Elements(queue)
    BY <1>4, <2>1, TailElements, TailOnce DEF TakeFront, EachOnce
  <2>3. Elements(queue) \cap Elements(component) = {}
    BY ApartDisjoint DEF EachOnce
  <2>4. Once(component') /\ Elements(component') = Elements(component) \cup {Head(queue)}
    BY <1>4, <2>1, <2>2, <2>3, AppendOnce, AppendElements DEF TakeFront, EachOnce
  <2>5. visited' = visited /\ output' = output
    BY <1>4 DEF TakeFront
  <2> QED BY <2>1, <2>2, <2>3, <2>4, <2>5, ApartDisjoint DEF EachOnce, Searching
<1>5. CASE FollowEdge(targets)
  <2> DEFINE t == targets[idx]
  <2>0. idx \in Nat \ {0} /\ idx <= Len(targets) /\ Len(targets) \in Nat
    BY <1>5 DEF SearchOK, FollowEdge
  <2>1. t \in 0 .. m - 1 /\ queue \in Seq(0 .. m - 1) /\ Searching
        /\ visited \in [0 .. m - 1 -> BOOLEAN]
    BY <1>5, <2>0 DEF SearchOK, Searching, FollowEdge
  <2>2. component' = component /\ output' = output /\ pc' = pc
    BY <1>5 DEF FollowEdge
  <2>3. CASE visited[t]
    BY <1>5, <2>2, <2>3 DEF EachOnce, FollowEdge
  <2>4. CASE ~visited[t]
    <3>1. queue' = Append(queue, t) /\ visited' = [visited EXCEPT ![t] = TRUE]
      BY <1>5, <2>4 DEF FollowEdge
    <3> HIDE DEF t
    <3>2. /\ t \notin Elements(queue) \cup Elements(component)
          /\ \A j \in 1 .. Len(output) : t \notin Elements(output[j])
      BY <2>1, <2>4 DEF EachOnce, Searching
    <3>3. Once(queue') /\ Elements(queue') = Elements(queue) \cup {t}
      BY <2>1, <3>1, <3>2, AppendOnce, AppendElements DEF EachOnce
    <3>4. /\ DOMAIN visited' = DOMAIN visited
          /\ \A v \in DOMAIN visited : visited'[v] <=> visited[v] \/ v = t
      BY <2>1, <3>1
    <3> QED BY <2>1, <2>2, <3>2, <3>3, <3>4, ApartDisjoint DEF EachOnce, Searching
  <2> QED BY <2>3, <2>4
<1>6. CASE EdgesFollowed(targets)
  BY <1>6 DEF EdgesFollowed, EachOnce, searchButPc
<1>7. CASE CloseComponent
  <2>1. /\ Len(output) \in Nat /\ Len(output') = Len(output) + 1
        /\ \A j \in 1 .. Len(output) : output'[j] = output[j]
        /\ output'[Len(output) + 1] = component
        /\ \A j \in 1 .. Len(output') : j \in 1 .. Len(output) \/ j = Len(output) + 1
    BY <1>7, AppendSequence DEF SearchOK, CloseComponent
  <2>2. Searching /\ Searching' /\ visited' = visited /\ queue' = queue /\ component' = <<>>
    BY <1>7 DEF CloseComponent, Searching
  <2>3. Elements(queue) = {} /\ Elements(queue') = {} /\ Once(queue')
    BY <1>7, <2>2, EmptyElements DEF CloseComponent
  <2>4. Elements(component') = {} /\ Once(component')
    BY <2>2, EmptyElements
  <2>5. ASSUME NEW v
        PROVE  (\E j \in 1 .. Len(output') : v \in Elements(output'[j]))
                 <=> \/ v \in Elements(component)
                     \/ \E j \in 1 .. Len(output) : v \in Elements(output[j])
    BY <2>1
  <2>6. \A v \in DOMAIN visited' :
          visited'[v] <=> \/ v \in Elements(queue') \cup Elements(component')
                          \/ \E j \in 1 .. Len(output') : v \in Elements(output'[j])
    BY <2>2, <2>3, <2>4, <2>5 DEF EachOnce, Searching
  <2>7. /\ Once(component)
        /\ \A j \in 1 .. Len(output) : Once(output[j]) /\ Elements(component) \cap Elements(output[j]) = {}
        /\ \A i, j \in 1 .. Len(output) : i # j => Elements(output[i]) \cap Elements(output[j]) = {}
    BY ApartDisjoint DEF EachOnce
  <2>8. \A j \in 1 .. Len(output') : Once(output'[j])
    BY <2>1, <2>7
  <2>9. \A i, j \in 1 .. Len(output') : i # j => Elements(output'[i]) \cap Elements(output'[j]) = {}
    <3> SUFFICES ASSUME NEW i \in 1 .. Len(output'), NEW j \in 1 .. Len(output'), i # j
                 PROVE  Elements(output'[i]) \cap Elements(output'[j]) = {}
      OBVIOUS
    <3>1. CASE i \in 1 .. Len(output) /\ j \in 1 .. Len(output)
      BY <2>1, <2>7, <3>1
    <3>2. CASE i \in 1 .. Len(output) /\ j = Len(output) + 1
      BY <2>1, <2>7, <3>2
    <3>3. CASE i = Len(output) + 1 /\ j \in 1 .. Len(output)
      BY <2>1, <2>7, <3>3
    <3> QED BY <2>1, <3>1, <3>2, <3>3
  <2> QED BY <2>3, <2>4, <2>6, <2>8, <2>9, ApartDisjoint DEF EachOnce
<1>8. CASE Finish(m)
  BY <1>8 DEF Finish, EachOnce, searchButPc
<1> QED BY <1>1, <1>2, <1>3, <1>4, <1>5, <1>6, <1>7, <1>8 DEF Search
-----------------------------------------------------------------------------
(* What the search takes from the queue comes from the root.               *)
ClosedUnder(F, S) == \A v \in S : Elements(F[v]) \subseteq S

FromRoot ==
  /\ Inside => \/ component = <<>> /\ queue = <<root>>
               \/ component # <<>> /\ component[1] = root
  /\ \A j \in 1 .. Len(output) : output[j] # <<>>

ReachedIn(S) ==
  /\ \A j \in 1 .. Len(output) : output[j][1] \in S => Elements(output[j]) \subseteq S
  /\ Inside /\ root \in S => Elements(queue) \cup Elements(component) \subseteq S

FollowedFrom(F) == IF pc = "edges" THEN F[current] ELSE <<>>

LEMMA FollowedType ==
  ASSUME NEW m \in Nat, NEW F \in [0 .. m - 1 -> Seq(0 .. m - 1)], SearchOK(m)
  PROVE  /\ FollowedFrom(F) \in Seq(0 .. m - 1)
         /\ pc = "edges" => current \in 0 .. m - 1
<1>1. component \in Seq(0 .. m - 1) /\ (pc = "edges" => current \in Elements(component))
  BY DEF SearchOK
<1>2. pc = "edges" => current \in 0 .. m - 1
  BY <1>1, ElementsIn
<1>3. <<>> \in Seq(0 .. m - 1)
  OBVIOUS
<1> QED BY <1>2, <1>3 DEF FollowedFrom

LEMMA SearchFromRoot ==
  ASSUME NEW m \in Nat, NEW targets \in Seq(0 .. m - 1), SearchOK(m), FromRoot,
         Search(m, targets)
  PROVE  FromRoot'
<1>0. Len(<<>>) = 0
  OBVIOUS
<1>1. CASE StartSearch(m)
  BY <1>0, <1>1 DEF SearchOK, Searching, Inside, StartSearch, FromRoot
<1>2. CASE SkipRoot(m)
  BY <1>2 DEF SkipRoot, FromRoot, Inside
<1>3. CASE EnterRoot(m)
  <2>1. queue = <<>> /\ component = <<>>
    BY <1>3 DEF SearchOK, Inside, EnterRoot
  <2> QED BY <1>3, <2>1 DEF EnterRoot, FromRoot
<1>4. CASE TakeFront
  <2>1. queue \in Seq(0 .. m - 1) /\ component \in Seq(0 .. m - 1) /\ queue # <<>> /\ Inside
    BY <1>4 DEF SearchOK, Inside, TakeFront
  <2>2. Head(queue) \in 0 .. m - 1
    BY <2>1, TailElements
  <2>3. component' = Append(component, Head(queue)) /\ root' = root /\ output' = output
    BY <1>4 DEF TakeFront
  <2>4. component' # <<>>
    BY <2>1, <2>2, <2>3
  <2>5. CASE component = <<>> /\ queue = <<root>>
    BY <2>3, <2>4, <2>5 DEF FromRoot
  <2>6. CASE component # <<>> /\ component[1] = root
    <3>1. component'[1] = component[1]
      BY <2>1, <2>2, <2>3, <2>6
    <3> QED BY <2>3, <2>4, <2>6, <3>1 DEF FromRoot
  <2> QED BY <2>1, <2>5, <2>6 DEF FromRoot
<1>5. CASE FollowEdge(targets)
  <2>1. component # <<>>
    BY <1>5, EmptyElements DEF SearchOK, FollowEdge
  <2> QED BY <1>5, <2>1 DEF FollowEdge, FromRoot, Inside
<1>6. CASE EdgesFollowed(targets)
  BY <1>6 DEF EdgesFollowed, FromRoot, Inside, searchButPc
<1>7. CASE CloseComponent
  <2>1. component # <<>>
    BY <1>7 DEF CloseComponent, FromRoot, Inside
  <2>2. /\ \A j \in 1 .. Len(output) : output'[j] = output[j]
        /\ output'[Len(output) + 1] = component
        /\ \A j \in 1 .. Len(output') : j \in 1 .. Len(output) \/ j = Len(output) + 1
    BY <1>7, AppendSequence DEF SearchOK, CloseComponent
  <2> QED BY <1>7, <2>1, <2>2 DEF CloseComponent, FromRoot, Inside
<1>8. CASE Finish(m)
  BY <1>8 DEF Finish, FromRoot, Inside, searchButPc
<1> QED BY <1>1, <1>2, <1>3, <1>4, <1>5, <1>6, <1>7, <1>8 DEF Search

(* A closed set that has the root has all that is found from it.           *)
LEMMA SearchReached ==
  ASSUME NEW m \in Nat, NEW F \in [0 .. m - 1 -> Seq(0 .. m - 1)], NEW S, ClosedUnder(F, S),
         SearchOK(m), FromRoot, ReachedIn(S), Search(m, FollowedFrom(F))
  PROVE  ReachedIn(S)'
<1>0. Len(<<>>) = 0
  OBVIOUS
<1>1. CASE StartSearch(m)
  BY <1>0, <1>1 DEF SearchOK, Searching, Inside, StartSearch, ReachedIn
<1>2. CASE SkipRoot(m)
  BY <1>2 DEF SkipRoot, ReachedIn, Inside
<1>3. CASE EnterRoot(m)
  <2>1. queue = <<>> /\ component = <<>> /\ root \in 0 .. m - 1 /\ queue \in Seq(0 .. m - 1)
    BY <1>3 DEF SearchOK, Inside, EnterRoot
  <2>2. Elements(queue') = Elements(queue) \cup {root}
    <3> DEFINE V == 0 .. m - 1
    <3>1. root \in V /\ queue \in Seq(V)
      BY <2>1
    <3> HIDE DEF V
    <3>2. Elements(Append(queue, root)) = Elements(queue) \cup {root}
      BY <3>1, AppendElements
    <3> QED BY <1>3, <3>2 DEF EnterRoot
  <2>3. Elements(queue) = {} /\ Elements(component') = {}
    BY <1>3, <2>1, EmptyElements DEF EnterRoot
  <2> QED BY <1>3, <2>2, <2>3 DEF EnterRoot, ReachedIn
<1>4. CASE TakeFront
  <2>1. queue \in Seq(0 .. m - 1) /\ component \in Seq(0 .. m - 1) /\ queue # <<>> /\ Inside
    BY <1>4 DEF SearchOK, Inside, TakeFront
  <2>2. /\ Elements(queue) = {Head(queue)} \cup Elements(queue') /\ Head(queue) \in 0 .. m - 1
    BY <1>4, <2>1, TailElements DEF TakeFront
  <2>3. Elements(component') = Elements(component) \cup {Head(queue)}
    BY <1>4, <2>1, <2>2, AppendElements DEF TakeFront
  <2> QED BY <1>4, <2>1, <2>2, <2>3 DEF TakeFront, ReachedIn
<1>5. CASE FollowEdge(FollowedFrom(F))
  <2> DEFINE t == FollowedFrom(F)[idx]
  <2>1. /\ pc = "edges" /\ FollowedFrom(F) = F[current] /\ F[current] \in Seq(0 .. m - 1)
        /\ current \in Elements(component) /\ queue \in Seq(0 .. m - 1)
        /\ idx \in Nat \ {0} /\ idx <= Len(F[current])
    BY <1>5, FollowedType DEF FollowEdge, SearchOK, FollowedFrom
  <2>2. idx \in 1 .. Len(F[current])
    BY <2>1
  <2>3. t \in Elements(F[current]) /\ t \in 0 .. m - 1
    BY <2>1, <2>2 DEF Elements
  <2>4. queue' = queue \/ queue' = Append(queue, t)
    BY <1>5 DEF FollowEdge
  <2> HIDE DEF t
  <2>5. Elements(queue') \subseteq Elements(queue) \cup {t}
    <3> DEFINE V == 0 .. m - 1
    <3>1. queue \in Seq(V) /\ t \in V
      BY <2>1, <2>3
    <3> HIDE DEF V
    <3>2. Elements(Append(queue, t)) = Elements(queue) \cup {t}
      BY <3>1, AppendElements
    <3> QED BY <2>4, <3>2
  <2>6. root \in S => t \in S
    BY <2>1, <2>3 DEF ReachedIn, Inside, ClosedUnder
  <2> QED BY <1>5, <2>1, <2>5, <2>6 DEF FollowEdge, ReachedIn, Inside
<1>6. CASE EdgesFollowed(FollowedFrom(F))
  BY <1>6 DEF EdgesFollowed, ReachedIn, Inside, searchButPc
<1>7. CASE CloseComponent
  <2>1. component # <<>> /\ component[1] = root
    BY <1>7 DEF CloseComponent, FromRoot, Inside
  <2>2. /\ \A j \in 1 .. Len(output) : output'[j] = output[j]
        /\ output'[Len(output) + 1] = component
        /\ \A j \in 1 .. Len(output') : j \in 1 .. Len(output) \/ j = Len(output) + 1
    BY <1>7, AppendSequence DEF SearchOK, CloseComponent
  <2> QED BY <1>7, <2>1, <2>2 DEF CloseComponent, ReachedIn, Inside
<1>8. CASE Finish(m)
  BY <1>8 DEF Finish, ReachedIn, Inside, searchButPc
<1> QED BY <1>1, <1>2, <1>3, <1>4, <1>5, <1>6, <1>7, <1>8 DEF Search
-----------------------------------------------------------------------------
(* No followed edge leads out of what has been searched.                   *)
Covered(F) ==
  /\ Searching => \A v \in DOMAIN visited : v < root => visited[v]
  /\ \A v \in Elements(component) :
        \/ pc = "edges" /\ v = current
        \/ \A w \in Elements(F[v]) : visited[w]
  /\ pc = "edges" => \A k \in 1 .. Len(F[current]) : k < idx => visited[F[current][k]]

Symmetric(m, F) == \A v, w \in 0 .. m - 1 : w \in Elements(F[v]) <=> v \in Elements(F[w])

Separate(F) == \A j \in 1 .. Len(output) : ClosedUnder(F, Elements(output[j]))

LEMMA SearchCovered ==
  ASSUME NEW m \in Nat, NEW F \in [0 .. m - 1 -> Seq(0 .. m - 1)],
         SearchOK(m), Covered(F), Search(m, FollowedFrom(F))
  PROVE  Covered(F)'
<1>1. CASE StartSearch(m)
  <2>1. Elements(component') = {}
    BY <1>1, EmptyElements DEF SearchOK, Inside, StartSearch
  <2>2. ASSUME NEW v \in DOMAIN visited', v < root' PROVE visited'[v]
    BY <1>1, <2>2 DEF SearchOK, Searching, StartSearch
  <2> QED BY <1>1, <2>1, <2>2 DEF StartSearch, Covered
<1>2. CASE SkipRoot(m)
  <2>1. root \in Nat /\ visited \in [0 .. m - 1 -> BOOLEAN] /\ visited[root]
    BY <1>2 DEF SkipRoot, SearchOK, Searching
  <2>2. \A v \in 0 .. m - 1 : v < root + 1 => v < root \/ v = root
    BY <2>1
  <2> QED BY <1>2, <2>1, <2>2 DEF SkipRoot, Covered, Searching
<1>3. CASE EnterRoot(m)
  <2>1. Elements(component') = {}
    BY <1>3, EmptyElements DEF SearchOK, Inside, EnterRoot
  <2>2. visited \in [0 .. m - 1 -> BOOLEAN] /\ visited' = [visited EXCEPT ![root] = TRUE]
    BY <1>3 DEF SearchOK, Searching, EnterRoot
  <2>3. \A v \in 0 .. m - 1 : visited[v] => visited'[v]
    BY <2>2
  <2> QED BY <1>3, <2>1, <2>2, <2>3 DEF EnterRoot, Covered, Searching
<1>4. CASE TakeFront
  <2>1. queue \in Seq(0 .. m - 1) /\ component \in Seq(0 .. m - 1) /\ queue # <<>>
    BY <1>4 DEF SearchOK, Inside, TakeFront
  <2>2. Head(queue) \in 0 .. m - 1
    BY <2>1, TailElements
  <2>3. Elements(component') = Elements(component) \cup {Head(queue)}
    BY <1>4, <2>1, <2>2, AppendElements DEF TakeFront
  <2>4. F[Head(queue)] \in Seq(0 .. m - 1) /\ Len(F[Head(queue)]) \in Nat
    BY <2>2
  <2> QED BY <1>4, <2>3, <2>4 DEF TakeFront, Covered, Searching
<1>5. CASE FollowEdge(FollowedFrom(F))
  <2>1. /\ pc = "edges" /\ FollowedFrom(F) = F[current] /\ F[current] \in Seq(0 .. m - 1)
        /\ current \in 0 .. m - 1 /\ idx \in Nat \ {0} /\ idx <= Len(F[current])
        /\ visited \in [0 .. m - 1 -> BOOLEAN] /\ component \in Seq(0 .. m - 1)
    BY <1>5, FollowedType DEF FollowEdge, SearchOK, FollowedFrom, Searching
  <2>2. idx \in 1 .. Len(F[current])
    BY <2>1
  <2>3. F[current][idx] \in 0 .. m - 1
    BY <2>1, <2>2
  <2>4. visited' = visited \/ visited' = [visited EXCEPT ![F[current][idx]] = TRUE]
    BY <1>5, <2>1 DEF FollowEdge
  <2>5. (\A v \in 0 .. m - 1 : visited[v] => visited'[v]) /\ DOMAIN visited' = 0 .. m - 1
    BY <2>1, <2>4
  <2>6. visited'[F[current][idx]]
    BY <1>5, <2>1, <2>3 DEF FollowEdge
  <2>7. /\ component' = component /\ current' = current /\ pc' = "edges" /\ root' = root
        /\ idx' = idx + 1
    BY <1>5, <2>1 DEF FollowEdge
  <2>8. \A k \in 1 .. Len(F[current]) : k < idx + 1 => k < idx \/ k = idx
    BY <2>1
  <2>9. \A k \in 1 .. Len(F[current]) : F[current][k] \in 0 .. m - 1
    BY <2>1
  <2>10. \A k \in 1 .. Len(F[current]) : k < idx + 1 => visited'[F[current][k]]
    BY <2>1, <2>5, <2>6, <2>8, <2>9 DEF Covered
  <2>11. ASSUME NEW v \in Elements(component), v # current
         PROVE  \A w \in Elements(F[v]) : visited'[w]
    <3>1. v \in 0 .. m - 1
      BY <2>1, ElementsIn
    <3>2. Elements(F[v]) \subseteq 0 .. m - 1
      BY <3>1, ElementsIn
    <3> QED BY <2>5, <2>11, <3>2 DEF Covered
  <2>12. \A v \in 0 .. m - 1 : v < root => visited'[v]
    BY <2>1, <2>5 DEF Covered, Searching
  <2> QED BY <2>5, <2>7, <2>10, <2>11, <2>12 DEF Covered
<1>6. CASE EdgesFollowed(FollowedFrom(F))
  <2>1. /\ pc = "edges" /\ FollowedFrom(F) = F[current] /\ F[current] \in Seq(0 .. m - 1)
        /\ idx \in Nat \ {0} /\ idx > Len(F[current])
    BY <1>6, FollowedType DEF EdgesFollowed, SearchOK, FollowedFrom
  <2>2. \A k \in 1 .. Len(F[current]) : k < idx
    BY <2>1
  <2>3. \A w \in Elements(F[current]) : visited[w]
    BY <2>1, <2>2 DEF Covered, Elements
  <2>4. /\ component' = component /\ visited' = visited /\ root' = root
        /\ pc' = "while"
    BY <1>6 DEF EdgesFollowed, searchButPc
  <2> QED BY <2>1, <2>3, <2>4 DEF Covered, Searching
<1>7. CASE CloseComponent
  <2>1. root \in 0 .. m - 1 /\ visited[root] /\ visited \in [0 .. m - 1 -> BOOLEAN]
    BY <1>7 DEF CloseComponent, SearchOK, Inside, Searching
  <2>2. \A v \in 0 .. m - 1 : v < root + 1 => v < root \/ v = root
    BY <2>1
  <2>3. Elements(component') = {}
    BY <1>7, EmptyElements DEF CloseComponent
  <2> QED BY <1>7, <2>1, <2>2, <2>3 DEF CloseComponent, Covered, Searching
<1>8. CASE Finish(m)
  BY <1>8 DEF Finish, Covered, Searching, searchButPc
<1> QED BY <1>1, <1>2, <1>3, <1>4, <1>5, <1>6, <1>7, <1>8 DEF Search

(* A component that is complete is closed, if the edges are followed both  *)
(* ways: what an edge leads to is visited, and not in another component,   *)
(* from which the edge would have led back before.                         *)
LEMMA SearchSeparate ==
  ASSUME NEW m \in Nat, NEW F \in [0 .. m - 1 -> Seq(0 .. m - 1)], Symmetric(m, F),
         SearchOK(m), EachOnce, Covered(F), Separate(F), Search(m, FollowedFrom(F))
  PROVE  Separate(F)'
<1>1. CASE output' = output
  BY <1>1 DEF Separate
<1>2. CASE CloseComponent
  <2>1. /\ \A j \in 1 .. Len(output) : output'[j] = output[j]
        /\ output'[Len(output) + 1] = component
        /\ \A j \in 1 .. Len(output') : j \in 1 .. Len(output) \/ j = Len(output) + 1
    BY <1>2, AppendSequence DEF SearchOK, CloseComponent
  <2>2. /\ pc = "while" /\ Elements(queue) = {} /\ Elements(component) \subseteq 0 .. m - 1
        /\ visited \in [0 .. m - 1 -> BOOLEAN] /\ Searching
    BY <1>2, EmptyElements, ElementsIn DEF CloseComponent, SearchOK, Searching
  <2>3. ASSUME NEW v \in Elements(component), NEW w \in Elements(F[v])
        PROVE  w \in Elements(component)
    <3>1. v \in 0 .. m - 1 /\ w \in 0 .. m - 1
      BY <2>2, <2>3, ElementsIn
    <3>2. visited[w]
      BY <2>2, <2>3 DEF Covered
    <3>3. w \in Elements(component) \/ \E j \in 1 .. Len(output) : w \in Elements(output[j])
      BY <2>2, <3>1, <3>2 DEF EachOnce, Searching
    <3>4. ASSUME NEW j \in 1 .. Len(output), w \in Elements(output[j]) PROVE FALSE
      <4>1. v \in Elements(F[w])
        BY <2>3, <3>1 DEF Symmetric
      <4>2. v \in Elements(output[j])
        BY <3>4, <4>1 DEF Separate, ClosedUnder
      <4>3. Elements(component) \cap Elements(output[j]) = {}
        BY ApartDisjoint DEF EachOnce
      <4> QED BY <2>3, <4>2, <4>3
    <3> QED BY <3>3, <3>4
  <2>4. ClosedUnder(F, Elements(component))
    BY <2>3 DEF ClosedUnder
  <2> QED BY <2>1, <2>4 DEF Separate
<1> QED BY <1>1, <1>2 DEF Search, StartSearch, SkipRoot, EnterRoot, TakeFront, FollowEdge,
                          EdgesFollowed, Finish, searchButPc

(* The result: the components are the classes of the vertices that edges   *)
(* connect.                                                                *)
LEMMA SearchResult ==
  ASSUME NEW m \in Nat, NEW F \in [0 .. m - 1 -> Seq(0 .. m - 1)], Symmetric(m, F),
         pc = "done", SearchOK(m), EachOnce, FromRoot, Covered(F), Separate(F),
         \A S \in SUBSET (0 .. m - 1) : ClosedUnder(F, S) => ReachedIn(S)
  PROVE  /\ \A v \in 0 .. m - 1 : \E j \in 1 .. Len(output) : v \in Elements(output[j])
         /\ \A j \in 1 .. Len(output) :
              /\ ClosedUnder(F, Elements(output[j]))
              /\ \A S \in SUBSET Elements(output[j]) :
                   ClosedUnder(F, S) => S \in {{}, Elements(output[j])}
<1>1. /\ visited \in [0 .. m - 1 -> BOOLEAN] /\ root \in Nat /\ root >= m
      /\ Elements(queue) = {} /\ Elements(component) = {} /\ output \in Seq(Seq(0 .. m - 1))
  BY EmptyElements DEF SearchOK, Searching, Inside
<1>2. ASSUME NEW v \in 0 .. m - 1
      PROVE  \E j \in 1 .. Len(output) : v \in Elements(output[j])
  <2>1. v < root
    BY <1>1
  <2>2. visited[v]
    BY <1>1, <2>1 DEF Covered, Searching
  <2> QED BY <1>1, <2>2 DEF EachOnce
<1>3. ASSUME NEW j \in 1 .. Len(output), NEW S \in SUBSET Elements(output[j]), ClosedUnder(F, S)
      PROVE  S \in {{}, Elements(output[j])}
  <2> DEFINE T == Elements(output[j]) \ S
  <2>1. output[j] \in Seq(0 .. m - 1) /\ output[j] # <<>>
    BY <1>1 DEF FromRoot
  <2>2. Elements(output[j]) \subseteq 0 .. m - 1 /\ output[j][1] \in Elements(output[j])
    BY <2>1, ElementsIn, TailElements
  <2>3. ClosedUnder(F, T)
    <3> SUFFICES ASSUME NEW v \in T, NEW w \in Elements(F[v]) PROVE w \in T
      BY DEF ClosedUnder
    <3>1. w \in Elements(output[j])
      BY DEF Separate, ClosedUnder
    <3>2. v \in Elements(F[w])
      BY <2>2, <3>1 DEF Symmetric
    <3>3. w \notin S
      BY <1>3, <3>2 DEF ClosedUnder
    <3> QED BY <3>1, <3>3
  <2>4. S \in SUBSET (0 .. m - 1) /\ T \in SUBSET (0 .. m - 1)
    BY <2>2
  <2>5. CASE output[j][1] \in S
    <3>1. ReachedIn(S)
      BY <1>3, <2>4
    <3> QED BY <2>5, <3>1 DEF ReachedIn
  <2>6. CASE output[j][1] \notin S
    <3>1. ReachedIn(T) /\ output[j][1] \in T
      BY <2>2, <2>3, <2>4, <2>6
    <3>2. Elements(output[j]) \subseteq T
      BY <3>1 DEF ReachedIn
    <3> QED BY <3>2
  <2> QED BY <2>5, <2>6
<1> QED BY <1>2, <1>3 DEF Separate
-----------------------------------------------------------------------------
(* The graph that is searched.                                             *)

EdgeSet == [target : Nat, type : Nat, timestamp : Timestamp]
NodeSet == [type : Nat, timestamp : Timestamp, in : Seq(EdgeSet), out : Seq(EdgeSet)]

GraphOK ==
  /\ node_list \in Seq(NodeSet)
  /\ follows_in \in BOOLEAN
  /\ \A v \in Vertices : /\ \A k \in 1 .. Len(Out(v)) : Out(v)[k].target \in Vertices
                         /\ \A k \in 1 .. Len(In(v)) : In(v)[k].target \in Vertices

GraphInv == GraphOK /\ Mirrored
-----------------------------------------------------------------------------
(* The graph.                                                              *)
LEMMA EnumNat ==
  /\ \A text \in DOMAIN VertexStrToEnum : VertexStrToEnum[text] \in Nat
  /\ \A text \in DOMAIN EdgeStrToEnum : EdgeStrToEnum[text] \in Nat
BY DEF VertexStrToEnum, EdgeStrToEnum

(* What insert_edge does to the lists of a vertex.                         *)
LEMMA InsertEdgeEffect ==
  ASSUME GraphOK, NEW v1 \in Vertices, NEW v2 \in Vertices, NEW type \in Nat,
         NEW ts \in Timestamp, InsertEdge(v1, v2, type, ts)
  PROVE  /\ n' = n /\ node_list' \in Seq(NodeSet)
         /\ \A v \in Vertices :
              /\ Out(v)' = IF v = v1 THEN Append(Out(v), Edge(v2, type, ts)) ELSE Out(v)
              /\ In(v)'  = IF v = v2 THEN Append(In(v), Edge(v1, type, ts)) ELSE In(v)
<1> DEFINE mid == [node_list EXCEPT ![v1 + 1] = AddOutNeighbour(@, Edge(v2, type, ts))]
<1>0. n \in Nat /\ v1 + 1 \in 1 .. n /\ v2 + 1 \in 1 .. n /\ node_list \in Seq(NodeSet)
  BY DEF GraphOK, n, Vertices
<1>1. Edge(v2, type, ts) \in EdgeSet /\ Edge(v1, type, ts) \in EdgeSet
  BY <1>0 DEF Edge, EdgeSet, Vertices
<1>2. ASSUME NEW node \in NodeSet, NEW edge \in EdgeSet
      PROVE  /\ AddOutNeighbour(node, edge) \in NodeSet /\ AddInNeighbour(node, edge) \in NodeSet
             /\ AddOutNeighbour(node, edge).out = Append(node.out, edge)
             /\ AddOutNeighbour(node, edge).in = node.in
             /\ AddInNeighbour(node, edge).in = Append(node.in, edge)
             /\ AddInNeighbour(node, edge).out = node.out
  <2>1. /\ node.type \in Nat /\ node.timestamp \in Timestamp
        /\ node.in \in Seq(EdgeSet) /\ node.out \in Seq(EdgeSet)
    BY DEF NodeSet
  <2>2. Append(node.in, edge) \in Seq(EdgeSet) /\ Append(node.out, edge) \in Seq(EdgeSet)
    BY <2>1
  <2> QED BY <2>1, <2>2 DEF AddOutNeighbour, AddInNeighbour, Node, NodeSet
<1> DEFINE first  == AddOutNeighbour(node_list[v1 + 1], Edge(v2, type, ts))
<1>3. /\ first \in NodeSet /\ mid \in Seq(NodeSet) /\ Len(mid) = n
      /\ \A k \in 1 .. n : mid[k] = IF k = v1 + 1 THEN first ELSE node_list[k]
  <2>1. node_list[v1 + 1] \in NodeSet
    BY <1>0 DEF n
  <2>2. first \in NodeSet
    BY <1>1, <1>2, <2>1
  <2> HIDE DEF first
  <2>3. mid = [node_list EXCEPT ![v1 + 1] = first]
    BY DEF first
  <2> HIDE DEF mid
  <2> QED BY <1>0, <2>2, <2>3 DEF n
<1> DEFINE second == AddInNeighbour(mid[v2 + 1], Edge(v1, type, ts))
<1>4. /\ second \in NodeSet /\ node_list' \in Seq(NodeSet) /\ Len(node_list') = n
      /\ \A k \in 1 .. n : node_list'[k] = IF k = v2 + 1 THEN second ELSE mid[k]
  <2>1. node_list' = [mid EXCEPT ![v2 + 1] = second]
    BY DEF InsertEdge, WithEdge
  <2> HIDE DEF mid, first
  <2>2. mid[v2 + 1] \in NodeSet
    BY <1>0, <1>3
  <2>3. second \in NodeSet
    BY <1>1, <1>2, <2>2
  <2> HIDE DEF second
  <2> QED BY <1>0, <1>3, <2>1, <2>3
<1>5. ASSUME NEW v \in Vertices
      PROVE  /\ node_list'[v + 1].out = IF v = v1 THEN Append(node_list[v + 1].out, Edge(v2, type, ts))
                                                 ELSE node_list[v + 1].out
             /\ node_list'[v + 1].in  = IF v = v2 THEN Append(node_list[v + 1].in, Edge(v1, type, ts))
                                                 ELSE node_list[v + 1].in
  <2>1. v + 1 \in 1 .. n /\ (v = v1 <=> v + 1 = v1 + 1) /\ (v = v2 <=> v + 1 = v2 + 1)
    BY <1>0 DEF Vertices
  <2>2. node_list[v + 1] \in NodeSet /\ node_list[v1 + 1] \in NodeSet
    BY <1>0, <2>1 DEF n
  <2> HIDE DEF mid
  <2>3. /\ mid[v + 1] \in NodeSet /\ mid[v2 + 1] \in NodeSet
        /\ mid[v + 1] = IF v = v1 THEN first ELSE node_list[v + 1]
    BY <2>1, <1>0, <1>3
  <2>4. /\ first.out = Append(node_list[v1 + 1].out, Edge(v2, type, ts))
        /\ first.in = node_list[v1 + 1].in
    BY <1>1, <1>2, <2>2
  <2>5. /\ second.in = Append(mid[v2 + 1].in, Edge(v1, type, ts))
        /\ second.out = mid[v2 + 1].out
    BY <1>1, <1>2, <2>3
  <2>6. node_list'[v + 1] = IF v = v2 THEN second ELSE mid[v + 1]
    BY <2>1, <1>4
  <2> HIDE DEF first, second
  <2> QED BY <2>3, <2>4, <2>5, <2>6
<1> QED BY <1>4, <1>5 DEF Out, In, n

LEMMA InsertVertexEffect ==
  ASSUME GraphOK, NEW v \in 0 .. n, NEW type \in Nat, NEW ts \in Timestamp,
         InsertVertex(v, type, ts)
  PROVE  /\ n' = n + 1 /\ node_list' \in Seq(NodeSet)
         /\ \A u \in Vertices : Out(u)' = Out(u) /\ In(u)' = In(u)
         /\ \A u \in Vertices' \ Vertices : Out(u)' = <<>> /\ In(u)' = <<>>
         /\ Vertices' = Vertices \cup {n} /\ n \in Nat /\ n \notin Vertices
<1> DEFINE new == Node(type, ts, <<>>, <<>>)
<1>1. new \in NodeSet /\ new.in = <<>> /\ new.out = <<>>
  BY DEF Node, NodeSet
<1>2. node_list \in Seq(NodeSet) /\ node_list' = Append(node_list, new)
  BY DEF GraphOK, InsertVertex
<1> HIDE DEF new
<1>3. /\ node_list' \in Seq(NodeSet) /\ Len(node_list') = Len(node_list) + 1
      /\ \A k \in 1 .. Len(node_list) : node_list'[k] = node_list[k]
      /\ node_list'[Len(node_list) + 1] = new /\ Len(node_list) \in Nat
  BY <1>1, <1>2
<1>4. \A u \in Vertices : u + 1 \in 1 .. Len(node_list)
  BY <1>3 DEF Vertices, n
<1>5. /\ 0 .. Len(node_list) + 1 - 1 = (0 .. Len(node_list) - 1) \cup {Len(node_list)}
      /\ Len(node_list) \notin 0 .. Len(node_list) - 1
  BY <1>3
<1>7. Vertices' = Vertices \cup {n} /\ n \in Nat /\ n \notin Vertices /\ n' = n + 1
  BY <1>3, <1>5 DEF Vertices, n
<1> QED BY <1>1, <1>3, <1>4, <1>7 DEF Out, In, n

LEMMA TargetsElements ==
  ASSUME NEW edges \in Seq(EdgeSet)
  PROVE  \A w : w \in Elements(Targets(edges)) <=> \E k \in 1 .. Len(edges) : edges[k].target = w
<1>1. Len(edges) \in Nat
  OBVIOUS
<1>2. Len(Targets(edges)) = Len(edges) /\ \A k \in 1 .. Len(edges) : Targets(edges)[k] = edges[k].target
  BY <1>1 DEF Targets
<1> QED BY <1>2 DEF Elements

LEMMA AppendTargets ==
  ASSUME NEW edges \in Seq(EdgeSet), NEW edge \in EdgeSet
  PROVE  /\ Elements(Targets(Append(edges, edge))) = Elements(Targets(edges)) \cup {edge.target}
         /\ Append(edges, edge) \in Seq(EdgeSet)
<1>1. /\ Append(edges, edge) \in Seq(EdgeSet) /\ Len(Append(edges, edge)) = Len(edges) + 1
      /\ \A k \in 1 .. Len(edges) : Append(edges, edge)[k] = edges[k]
      /\ Append(edges, edge)[Len(edges) + 1] = edge /\ Len(edges) \in Nat
  OBVIOUS
<1>2. \A w : w \in Elements(Targets(Append(edges, edge)))
               <=> w \in Elements(Targets(edges)) \/ w = edge.target
  <2>1. \A w : w \in Elements(Targets(Append(edges, edge)))
                 <=> \E k \in 1 .. Len(edges) + 1 : Append(edges, edge)[k].target = w
    <3> DEFINE longer == Append(edges, edge)
    <3>1. longer \in Seq(EdgeSet) /\ Len(longer) = Len(edges) + 1
      BY <1>1
    <3> HIDE DEF longer
    <3>2. \A w : w \in Elements(Targets(longer)) <=> \E k \in 1 .. Len(longer) : longer[k].target = w
      BY <3>1, TargetsElements
    <3>3. \A w : w \in Elements(Targets(longer))
                   <=> \E k \in 1 .. Len(edges) + 1 : longer[k].target = w
      BY <3>1, <3>2
    <3> QED BY <3>3 DEF longer
  <2>2. \A w : w \in Elements(Targets(edges)) <=> \E k \in 1 .. Len(edges) : edges[k].target = w
    BY TargetsElements
  <2> QED BY <1>1, <2>1, <2>2
<1> QED BY <1>1, <1>2

(* The lists of a vertex, and the vertices at the other ends.              *)
LEMMA ListTypes ==
  ASSUME GraphOK, NEW v \in Vertices
  PROVE  /\ Out(v) \in Seq(EdgeSet) /\ In(v) \in Seq(EdgeSet)
         /\ Elements(Targets(Out(v))) \subseteq Vertices
         /\ Elements(Targets(In(v))) \subseteq Vertices
<1>1. v + 1 \in 1 .. Len(node_list)
  BY DEF GraphOK, Vertices, n
<1>2. node_list[v + 1] \in NodeSet
  BY <1>1 DEF GraphOK
<1>3. Out(v) \in Seq(EdgeSet) /\ In(v) \in Seq(EdgeSet)
  BY <1>2 DEF Out, In, NodeSet
<1> QED BY <1>3, TargetsElements DEF GraphOK

LEMMA InsertVertexGraph ==
  ASSUME GraphInv, NEW v \in 0 .. n, NEW type \in Nat, NEW ts \in Timestamp,
         InsertVertex(v, type, ts)
  PROVE  GraphInv'
<1> USE DEF GraphInv
<1>1. /\ n' = n + 1 /\ node_list' \in Seq(NodeSet)
      /\ \A u \in Vertices : Out(u)' = Out(u) /\ In(u)' = In(u)
      /\ \A u \in Vertices' \ Vertices : Out(u)' = <<>> /\ In(u)' = <<>>
      /\ Vertices' = Vertices \cup {n} /\ n \in Nat /\ n \notin Vertices
  BY InsertVertexEffect
<1>2. follows_in' \in BOOLEAN
  BY DEF InsertVertex, GraphOK
<1>3. Elements(Targets(<<>>)) = {} /\ Len(<<>>) = 0
  BY DEF Elements, Targets
<1>4. ASSUME NEW u \in Vertices'
      PROVE  /\ \A k \in 1 .. Len(Out(u)') : Out(u)'[k].target \in Vertices'
             /\ \A k \in 1 .. Len(In(u)') : In(u)'[k].target \in Vertices'
  <2>1. CASE u \in Vertices
    BY <1>1, <2>1 DEF GraphOK
  <2>2. CASE u \notin Vertices
    BY <1>1, <1>3, <2>2
  <2> QED BY <2>1, <2>2
<1>5. GraphOK'
  BY <1>1, <1>2, <1>4 DEF GraphOK
<1>6. ASSUME NEW u \in Vertices', NEW w \in Vertices'
      PROVE  w \in Elements(Targets(Out(u)')) <=> u \in Elements(Targets(In(w)'))
  <2>1. \A x \in Vertices : /\ Elements(Targets(Out(x))) \subseteq Vertices
                            /\ Elements(Targets(In(x))) \subseteq Vertices
    BY ListTypes
  <2>2. CASE u \in Vertices /\ w \in Vertices
    BY <1>1, <2>2 DEF Mirrored
  <2>3. CASE u \in Vertices /\ w \notin Vertices
    BY <1>1, <1>3, <2>1, <2>3
  <2>4. CASE u \notin Vertices /\ w \in Vertices
    BY <1>1, <1>3, <2>1, <2>4
  <2>5. CASE u \notin Vertices /\ w \notin Vertices
    BY <1>1, <1>3, <2>5
  <2> QED BY <2>2, <2>3, <2>4, <2>5
<1>7. Mirrored'
  BY <1>6 DEF Mirrored
<1> QED BY <1>5, <1>7

LEMMA InsertEdgeGraph ==
  ASSUME GraphInv, NEW v1 \in Vertices, NEW v2 \in Vertices, NEW type \in Nat,
         NEW ts \in Timestamp, InsertEdge(v1, v2, type, ts)
  PROVE  GraphInv'
<1> USE DEF GraphInv
<1>1. /\ n' = n /\ node_list' \in Seq(NodeSet)
      /\ \A v \in Vertices :
           /\ Out(v)' = IF v = v1 THEN Append(Out(v), Edge(v2, type, ts)) ELSE Out(v)
           /\ In(v)'  = IF v = v2 THEN Append(In(v), Edge(v1, type, ts)) ELSE In(v)
  BY InsertEdgeEffect
<1>2. Vertices' = Vertices
  BY <1>1 DEF Vertices
<1>3. follows_in' \in BOOLEAN
  BY DEF InsertEdge, GraphOK
<1>4. /\ Edge(v2, type, ts) \in EdgeSet /\ Edge(v1, type, ts) \in EdgeSet
      /\ Edge(v2, type, ts).target = v2 /\ Edge(v1, type, ts).target = v1
  BY DEF Edge, EdgeSet, Vertices
<1>5. ASSUME NEW v \in Vertices
      PROVE  /\ Out(v)' \in Seq(EdgeSet) /\ In(v)' \in Seq(EdgeSet)
             /\ Elements(Targets(Out(v)')) = Elements(Targets(Out(v))) \cup
                                              IF v = v1 THEN {v2} ELSE {}
             /\ Elements(Targets(In(v)')) = Elements(Targets(In(v))) \cup
                                             IF v = v2 THEN {v1} ELSE {}
  <2>1. Out(v) \in Seq(EdgeSet) /\ In(v) \in Seq(EdgeSet)
    BY ListTypes
  <2>2. /\ Append(Out(v), Edge(v2, type, ts)) \in Seq(EdgeSet)
        /\ Elements(Targets(Append(Out(v), Edge(v2, type, ts))))
              = Elements(Targets(Out(v))) \cup {v2}
    BY <1>4, <2>1, AppendTargets
  <2>3. /\ Append(In(v), Edge(v1, type, ts)) \in Seq(EdgeSet)
        /\ Elements(Targets(Append(In(v), Edge(v1, type, ts))))
              = Elements(Targets(In(v))) \cup {v1}
    BY <1>4, <2>1, AppendTargets
  <2> QED BY <1>1, <2>1, <2>2, <2>3
<1>6. ASSUME NEW v \in Vertices
      PROVE  /\ \A k \in 1 .. Len(Out(v)') : Out(v)'[k].target \in Vertices
             /\ \A k \in 1 .. Len(In(v)') : In(v)'[k].target \in Vertices
  <2>1. /\ Elements(Targets(Out(v)')) \subseteq Vertices
        /\ Elements(Targets(In(v)')) \subseteq Vertices
    BY <1>5, ListTypes
  <2> QED BY <1>5, <2>1, TargetsElements
<1>7. GraphOK'
  BY <1>1, <1>2, <1>3, <1>6 DEF GraphOK
<1>8. ASSUME NEW v \in Vertices, NEW w \in Vertices
      PROVE  w \in Elements(Targets(Out(v)')) <=> v \in Elements(Targets(In(w)'))
  BY <1>5 DEF Mirrored
<1>9. Mirrored'
  BY <1>2, <1>8 DEF Mirrored
<1> QED BY <1>7, <1>9
-----------------------------------------------------------------------------
(* The edges that are followed, as a function of the vertex.               *)
Follow == [v \in Vertices |-> Followed(v)]

LEMMA TargetsType ==
  ASSUME GraphOK, NEW v \in Vertices
  PROVE  Targets(Out(v)) \in Seq(Vertices) /\ Targets(In(v)) \in Seq(Vertices)
<1>1. Out(v) \in Seq(EdgeSet) /\ In(v) \in Seq(EdgeSet)
  BY ListTypes
<1>2. Len(Out(v)) \in Nat /\ Len(In(v)) \in Nat
  BY <1>1
<1>3. /\ \A k \in 1 .. Len(Out(v)) : Out(v)[k].target \in Vertices
      /\ \A k \in 1 .. Len(In(v)) : In(v)[k].target \in Vertices
  BY DEF GraphOK
<1> HIDE DEF Vertices
<1> QED BY <1>2, <1>3 DEF Targets

LEMMA ConcatElements ==
  ASSUME NEW S, NEW p \in Seq(S), NEW q \in Seq(S)
  PROVE  Elements(p \o q) = Elements(p) \cup Elements(q) /\ p \o q \in Seq(S)
<1>1. /\ Len(p) \in Nat /\ Len(q) \in Nat /\ Len(p \o q) = Len(p) + Len(q) /\ p \o q \in Seq(S)
      /\ \A k \in 1 .. Len(p) : (p \o q)[k] = p[k]
      /\ \A k \in 1 .. Len(q) : (p \o q)[k + Len(p)] = q[k]
  OBVIOUS
<1>2. ASSUME NEW k \in 1 .. Len(p) + Len(q)
      PROVE  k \in 1 .. Len(p) \/ (k - Len(p) \in 1 .. Len(q) /\ (k - Len(p)) + Len(p) = k)
  BY <1>1
<1>3. /\ \A k \in 1 .. Len(p) : k \in 1 .. Len(p) + Len(q)
      /\ \A k \in 1 .. Len(q) : k + Len(p) \in 1 .. Len(p) + Len(q)
  BY <1>1
<1>4. Elements(p \o q) \subseteq Elements(p) \cup Elements(q)
  <2> SUFFICES ASSUME NEW k \in 1 .. Len(p) + Len(q)
               PROVE  (p \o q)[k] \in Elements(p) \cup Elements(q)
    BY <1>1 DEF Elements
  <2>1. CASE k \in 1 .. Len(p)
    BY <1>1, <2>1 DEF Elements
  <2>2. CASE k - Len(p) \in 1 .. Len(q) /\ (k - Len(p)) + Len(p) = k
    <3>1. (p \o q)[k] = q[k - Len(p)]
      BY <1>1, <2>2
    <3> QED BY <2>2, <3>1 DEF Elements
  <2> QED BY <1>2, <2>1, <2>2
<1>5. Elements(p) \cup Elements(q) \subseteq Elements(p \o q)
  BY <1>1, <1>3 DEF Elements
<1> QED BY <1>1, <1>4, <1>5

LEMMA FollowType ==
  ASSUME GraphOK
  PROVE  /\ n \in Nat /\ Vertices = 0 .. n - 1
         /\ Follow \in [Vertices -> Seq(Vertices)]
         /\ \A v \in Vertices : Follow[v] = Followed(v)
<1>1. ASSUME NEW v \in Vertices PROVE Followed(v) \in Seq(Vertices)
  <2>1. Targets(Out(v)) \in Seq(Vertices) /\ Targets(In(v)) \in Seq(Vertices)
    BY TargetsType
  <2>2. <<>> \in Seq(Vertices)
    OBVIOUS
  <2> HIDE DEF Vertices
  <2> QED BY <2>1, <2>2, ConcatElements DEF Followed
<1> QED BY <1>1 DEF Follow, n, Vertices, GraphOK

(* Edges that are followed both ways.                                      *)
LEMMA FollowSymmetric ==
  ASSUME GraphInv, follows_in, NEW v \in Vertices, NEW w \in Vertices
  PROVE  w \in Elements(Follow[v]) <=> v \in Elements(Follow[w])
<1>1. ASSUME NEW u \in Vertices
      PROVE  Elements(Follow[u]) = Elements(Targets(Out(u))) \cup Elements(Targets(In(u)))
  <2>1. Targets(Out(u)) \in Seq(Vertices) /\ Targets(In(u)) \in Seq(Vertices)
    BY TargetsType DEF GraphInv
  <2>2. Elements(Targets(Out(u)) \o Targets(In(u))) = Elements(Targets(Out(u))) \cup Elements(Targets(In(u)))
    BY <2>1, ConcatElements
  <2> QED BY <2>2 DEF Follow, Followed
<1> QED BY <1>1 DEF GraphInv, Mirrored
-----------------------------------------------------------------------------
(* The inductive invariant.                                                *)
SearchInv ==
  /\ SearchOK(n) /\ EachOnce /\ FromRoot
  /\ Covered(Follow)
  /\ follows_in => Separate(Follow)
  /\ \A S \in SUBSET Vertices : ClosedUnder(Follow, S) => ReachedIn(S)

Inv == GraphInv /\ SearchInv

(* While the input is read the search has no state.                        *)
Idle ==
  /\ pc \in {"load", "exit"} /\ root = 0 /\ idx \in Nat \ {0}
  /\ queue = <<>> /\ component = <<>> /\ output = <<>>

LEMMA IdleInv ==
  ASSUME Idle PROVE SearchInv
<1>1. /\ Elements(queue) = {} /\ Elements(component) = {} /\ Once(queue) /\ Once(component)
      /\ Len(output) = 0
  BY EmptyElements DEF Idle
<1>2. ~Searching /\ ~Inside /\ pc # "edges" /\ pc # "done"
  BY DEF Idle, Searching, Inside
<1>3. SearchOK(n)
  BY <1>2 DEF Idle, SearchOK
<1>4. EachOnce
  BY <1>1, <1>2, ApartDisjoint DEF EachOnce, Searching
<1>5. FromRoot /\ Covered(Follow) /\ Separate(Follow) /\ \A S \in SUBSET Vertices : ReachedIn(S)
  BY <1>1, <1>2 DEF FromRoot, Covered, Separate, ReachedIn
<1> QED BY <1>3, <1>4, <1>5 DEF SearchInv

LEMMA IdleInvNext ==
  ASSUME Idle' PROVE SearchInv'
<1>1. /\ Elements(queue') = {} /\ Elements(component') = {} /\ Once(queue') /\ Once(component')
      /\ Len(output') = 0
  BY EmptyElements DEF Idle
<1>2. ~Searching' /\ ~Inside' /\ pc' # "edges" /\ pc' # "done"
  BY DEF Idle, Searching, Inside
<1>3. SearchOK(n)'
  BY <1>2 DEF Idle, SearchOK
<1>4. EachOnce'
  BY <1>1, <1>2, ApartDisjoint DEF EachOnce, Searching
<1>5. FromRoot' /\ Covered(Follow)' /\ Separate(Follow)' /\ \A S \in SUBSET Vertices' : ReachedIn(S)'
  BY <1>1, <1>2 DEF FromRoot, Covered, Separate, ReachedIn
<1> QED BY <1>3, <1>4, <1>5 DEF SearchInv

LEMMA LoadStep ==
  ASSUME Inv, LoadGraph PROVE Inv'
<1>1. pc = "load" /\ n \in Nat
  BY FollowType DEF LoadGraph, InsertVertex, InsertEdge, UnableToInsert, MalformedLine, Exit,
                    Inv, GraphInv
<1>2. Idle
  BY <1>1 DEF Inv, SearchInv, SearchOK, Searching, Inside, Idle
<1>3. ASSUME NEW v \in 0 .. n, NEW text \in VertexText, NEW ts \in Timestamp,
             text \in DOMAIN VertexStrToEnum, InsertVertex(v, VertexStrToEnum[text], ts)
      PROVE  GraphInv' /\ Idle'
  <2>1. GraphInv'
    BY <1>3, EnumNat, InsertVertexGraph DEF Inv
  <2> QED BY <1>2, <1>3, <2>1 DEF InsertVertex, searchVars, Idle
<1>4. ASSUME NEW v1 \in 0 .. n, NEW v2 \in 0 .. n, NEW text \in EdgeText, NEW ts \in Timestamp,
             text \in DOMAIN EdgeStrToEnum, InsertEdge(v1, v2, EdgeStrToEnum[text], ts)
      PROVE  GraphInv' /\ Idle'
  <2>1. v1 \in Vertices /\ v2 \in Vertices
    BY <1>1, <1>4 DEF InsertEdge, Vertices
  <2>2. GraphInv'
    BY <1>4, <2>1, EnumNat, InsertEdgeGraph DEF Inv
  <2> QED BY <1>2, <1>4, <2>2 DEF InsertEdge, searchVars, Idle
<1>5. ASSUME Exit, UNCHANGED <<node_list, follows_in>>
      PROVE  GraphInv' /\ Idle'
  BY <1>2, <1>5 DEF Exit, searchButPc, Idle, Inv, GraphInv, GraphOK, Mirrored, Vertices, n, In, Out
<1>6. GraphInv' /\ Idle'
  BY <1>3, <1>4, <1>5 DEF LoadGraph, MalformedLine, UnableToInsert
<1> QED BY <1>6, IdleInvNext DEF Inv

LEMMA SearchStep ==
  ASSUME Inv, ExtractConnectedComponents PROVE Inv'
<1>1. n \in Nat /\ Vertices = 0 .. n - 1 /\ Follow \in [Vertices -> Seq(Vertices)]
  BY FollowType DEF Inv, GraphInv
<1>2. n' = n /\ Vertices' = Vertices /\ Follow' = Follow /\ follows_in' = follows_in
  BY DEF ExtractConnectedComponents, n, Vertices, Follow, Followed, In, Out
<1>3. GraphInv'
  BY <1>2 DEF ExtractConnectedComponents, Inv, GraphInv, GraphOK, Mirrored, Vertices, n, In, Out
<1>4. PICK m \in Nat : m = n
  BY <1>1
<1>5. PICK F : F = Follow
  OBVIOUS
<1>6. F \in [0 .. m - 1 -> Seq(0 .. m - 1)]
  BY <1>1, <1>4, <1>5
<1>7. /\ SearchOK(m) /\ EachOnce /\ FromRoot /\ Covered(F) /\ (follows_in => Separate(F))
      /\ \A S \in SUBSET (0 .. m - 1) : ClosedUnder(F, S) => ReachedIn(S)
  BY <1>1, <1>4, <1>5 DEF Inv, SearchInv
<1>8. FollowedFrom(F) = IF pc = "edges" THEN Followed(current) ELSE <<>>
  BY <1>1, <1>4, <1>5, <1>6, <1>7, FollowedType DEF FollowedFrom, Follow
<1>9. Search(m, FollowedFrom(F)) /\ FollowedFrom(F) \in Seq(0 .. m - 1)
  BY <1>4, <1>6, <1>7, <1>8, FollowedType DEF ExtractConnectedComponents
<1>10. SearchOK(m)' /\ EachOnce' /\ FromRoot'
  BY <1>7, <1>9, SearchTypes, SearchOnce, SearchFromRoot
<1>11. Covered(F)'
  BY <1>6, <1>7, <1>9, SearchCovered
<1>12. ASSUME follows_in PROVE Separate(F)'
  <2>1. Symmetric(m, F)
    BY <1>1, <1>4, <1>5, <1>12, FollowSymmetric DEF Inv, Symmetric
  <2> QED BY <1>6, <1>7, <1>9, <1>12, <2>1, SearchSeparate
<1>13. ASSUME NEW S \in SUBSET (0 .. m - 1), ClosedUnder(F, S) PROVE ReachedIn(S)'
  BY <1>6, <1>7, <1>9, <1>13, SearchReached
<1>14. SearchInv'
  BY <1>1, <1>2, <1>4, <1>5, <1>10, <1>11, <1>12, <1>13 DEF SearchInv
<1> QED BY <1>3, <1>14 DEF Inv

LEMMA Inductive ==
  ASSUME Inv, [Next]_vars PROVE Inv'
<1>1. CASE Next
  BY <1>1, LoadStep, SearchStep DEF Next
<1>2. CASE UNCHANGED vars
  <2>1. n' = n /\ Vertices' = Vertices /\ Follow' = Follow
    BY <1>2 DEF vars, n, Vertices, Follow, Followed, In, Out
  <2>2. GraphInv'
    BY <1>2 DEF vars, Inv, GraphInv, GraphOK, Mirrored, Vertices, n, In, Out
  <2>3. SearchOK(n)' /\ EachOnce' /\ FromRoot' /\ Covered(Follow)' /\ (follows_in' => Separate(Follow)')
    BY <1>2, <2>1 DEF vars, searchVars, Inv, SearchInv, SearchOK, Searching, Inside, EachOnce,
                      FromRoot, Covered, Separate
  <2>4. \A S \in SUBSET Vertices' : ClosedUnder(Follow, S)' => ReachedIn(S)'
    BY <1>2, <2>1 DEF vars, searchVars, Inv, SearchInv, ReachedIn, Inside, ClosedUnder
  <2> QED BY <2>1, <2>2, <2>3, <2>4 DEF Inv, SearchInv
<1> QED BY <1>1, <1>2

LEMMA Initial ==
  ASSUME Init PROVE Inv
<1>1. Idle
  BY DEF Init, InitSearch, Idle
<1>2. n = 0 /\ Vertices = {}
  BY DEF Init, n, Vertices
<1>3. GraphInv
  BY <1>2 DEF Init, GraphInv, GraphOK, Mirrored
<1> QED BY <1>1, <1>3, IdleInv DEF Inv

LEMMA InvSafe == Spec => []Inv
BY Initial, Inductive, PTL DEF Spec

-----------------------------------------------------------------------------
(* The two lists of a graph of any size tell of the same edges, however    *)
(* the lines that insert vertices and edges are mixed.                     *)
THEOREM MirroredCorrect == Spec => []Mirrored
<1>1. Inv => Mirrored
  BY DEF Inv, GraphInv
<1> QED BY <1>1, InvSafe, PTL

(* The search, in a graph of any size, whether or not it follows the edges *)
(* that come in, puts no vertex into two components or twice into one.     *)
THEOREM EachOnceCorrect == Spec => []EachOnce
<1>1. Inv => EachOnce
  BY DEF Inv, SearchInv
<1> QED BY <1>1, InvSafe, PTL

LEMMA ClosedSets ==
  ASSUME GraphOK, NEW S \in SUBSET Vertices
  PROVE  Closed(S) <=> ClosedUnder(Follow, S)
BY FollowType DEF Closed, ClosedUnder

(* What the search finds can be reached from the root, in any graph.       *)
THEOREM OnlyReachableCorrect == Spec => []OnlyReachable
<1>1. Inv => OnlyReachable
  BY ClosedSets DEF Inv, GraphInv, SearchInv, SearchOK, OnlyReachable, ReachedIn, Inside
<1> QED BY <1>1, InvSafe, PTL

(* The fixed program, which follows the edges both ways, finds the         *)
(* connected components of any graph.                                      *)
THEOREM FindsComponentsCorrect == Spec => []FindsComponents
<1>1. ASSUME Inv, pc = "done", follows_in
      PROVE  /\ \A v \in Vertices : \E j \in 1 .. Len(output) : v \in Elements(output[j])
             /\ \A j \in 1 .. Len(output) :
                  /\ Closed(Elements(output[j]))
                  /\ \A S \in SUBSET Elements(output[j]) : Closed(S) => S \in {{}, Elements(output[j])}
  <2>1. n \in Nat /\ Vertices = 0 .. n - 1 /\ Follow \in [Vertices -> Seq(Vertices)]
    BY <1>1, FollowType DEF Inv, GraphInv
  <2>2. PICK m \in Nat : m = n
    BY <2>1
  <2>3. PICK F : F = Follow
    OBVIOUS
  <2>4. F \in [0 .. m - 1 -> Seq(0 .. m - 1)]
    BY <2>1, <2>2, <2>3
  <2>5. Symmetric(m, F)
    BY <1>1, <2>1, <2>2, <2>3, FollowSymmetric DEF Inv, Symmetric
  <2>6. /\ SearchOK(m) /\ EachOnce /\ FromRoot /\ Covered(F) /\ Separate(F)
        /\ \A S \in SUBSET (0 .. m - 1) : ClosedUnder(F, S) => ReachedIn(S)
    BY <1>1, <2>1, <2>2, <2>3 DEF Inv, SearchInv
  <2>7. /\ \A v \in 0 .. m - 1 : \E j \in 1 .. Len(output) : v \in Elements(output[j])
        /\ \A j \in 1 .. Len(output) :
              /\ ClosedUnder(F, Elements(output[j]))
              /\ \A S \in SUBSET Elements(output[j]) :
                   ClosedUnder(F, S) => S \in {{}, Elements(output[j])}
    BY <1>1, <2>4, <2>5, <2>6, SearchResult
  <2>8. \A j \in 1 .. Len(output) : Elements(output[j]) \subseteq Vertices
    <3>1. output \in Seq(Seq(Vertices))
      BY <2>1, <2>2, <2>6 DEF SearchOK
    <3> HIDE DEF Vertices
    <3> QED BY <3>1, ElementsIn
  <2>9. \A S \in SUBSET Vertices : Closed(S) <=> ClosedUnder(F, S)
    BY <1>1, <2>3, ClosedSets DEF Inv, GraphInv
  <2> QED BY <2>1, <2>2, <2>7, <2>8, <2>9
<1>2. Inv => FindsComponents
  BY <1>1 DEF FindsComponents
<1> QED BY <1>2, InvSafe, PTL
=============================================================================
