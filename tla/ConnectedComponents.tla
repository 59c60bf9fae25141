------------------------ MODULE ConnectedComponents ------------------------
(***************************************************************************)
(* extract_connected_components, which each of the graph experiments has a *)
(* copy of: a search, breadth first, from every vertex that no earlier     *)
(* search has visited. The graph is given by arguments: n is the number of *)
(* vertices 0 .. n - 1, and targets the other ends of the edges that are   *)
(* followed from the current vertex, in the order of the code.             *)
(***************************************************************************)
EXTENDS Integers, Sequences

VARIABLES pc,          \* "load", "roots", "while", "edges", "done", "exit"
          root,        \* i of the outer loop
          current,
          idx,         \* i of the inner loops, from 1
          visited,
          queue,
          component,
          output

searchVars == <<pc, root, current, idx, visited, queue, component, output>>
searchButPc == <<root, current, idx, visited, queue, component, output>>

Elements(q) == {q[k] : k \in 1 .. Len(q)}

InitSearch ==
  /\ pc = "load" /\ root = 0 /\ current = 0 /\ idx = 1
  /\ visited = <<>> /\ queue = <<>> /\ component = <<>> /\ output = <<>>

(* The input has ended: extract_connected_components is called.            *)
StartSearch(n) ==
  /\ pc = "load"
  /\ pc' = "roots"
  /\ visited' = [v \in 0 .. n - 1 |-> FALSE]
  /\ UNCHANGED <<root, current, idx, queue, component, output>>

SkipRoot(n) ==
  /\ pc = "roots" /\ root < n /\ visited[root]
  /\ root' = root + 1
  /\ UNCHANGED <<pc, current, idx, visited, queue, component, output>>

EnterRoot(n) ==
  /\ pc = "roots" /\ root < n /\ ~visited[root]
  /\ pc' = "while"
  /\ visited' = [visited EXCEPT ![root] = TRUE]
  /\ queue' = Append(queue, root)
  /\ UNCHANGED <<root, current, idx, component, output>>

TakeFront ==
  /\ pc = "while" /\ queue # <<>>
  /\ pc' = "edges"
  /\ current' = Head(queue)
  /\ component' = Append(component, Head(queue))
  /\ queue' = Tail(queue)
  /\ idx' = 1
  /\ UNCHANGED <<root, visited, output>>

(* Mutant: the target of an edge is visited when it is taken from the      *)
(* queue, not when it is put there.                                        *)
FollowEdgeTwice(targets) ==
  /\ pc = "edges" /\ idx <= Len(targets)
  /\ IF visited[targets[idx]] /\ targets[idx] \in Elements(component)
     THEN UNCHANGED <<visited, queue>>
     ELSE /\ visited' = [visited EXCEPT ![targets[idx]] = TRUE]
          /\ queue' = Append(queue, targets[idx])
  /\ idx' = idx + 1
  /\ UNCHANGED <<pc, root, current, component, output>>

(* Mutant: the next edge only after one that led somewhere new.            *)
FollowEdgeStays(targets) ==
  /\ pc = "edges" /\ idx <= Len(targets)
  /\ IF visited[targets[idx]] THEN UNCHANGED <<visited, queue, idx>>
     ELSE /\ visited' = [visited EXCEPT ![targets[idx]] = TRUE]
          /\ queue' = Append(queue, targets[idx])
          /\ idx' = idx + 1
  /\ UNCHANGED <<pc, root, current, component, output>>

FollowEdge(targets) ==
  /\ pc = "edges" /\ idx <= Len(targets)
  /\ IF visited[targets[idx]] THEN UNCHANGED <<visited, queue>>
     ELSE /\ visited' = [visited EXCEPT ![targets[idx]] = TRUE]
          /\ queue' = Append(queue, targets[idx])
  /\ idx' = idx + 1
  /\ UNCHANGED <<pc, root, current, component, output>>

EdgesFollowed(targets) ==
  /\ pc = "edges" /\ idx > Len(targets)
  /\ pc' = "while"
  /\ UNCHANGED searchButPc

CloseComponent ==
  /\ pc = "while" /\ queue = <<>>
  /\ pc' = "roots"
  /\ output' = Append(output, component)
  /\ component' = <<>>
  /\ root' = root + 1
  /\ UNCHANGED <<current, idx, visited, queue>>

Finish(n) ==
  /\ pc = "roots" /\ root >= n
  /\ pc' = "done"
  /\ UNCHANGED searchButPc

(* A step of the search.                                                   *)
Search(n, targets) ==
  \/ StartSearch(n)
  \/ SkipRoot(n)
  \/ EnterRoot(n)
  \/ TakeFront
  \/ FollowEdge(targets)
  \/ EdgesFollowed(targets)
  \/ CloseComponent
  \/ Finish(n)

(* exit(1), or a failed assertion, while the input is read.                *)
Exit == pc = "load" /\ pc' = "exit" /\ UNCHANGED searchButPc
-----------------------------------------------------------------------------
(* A vertex is visited as soon as it is queued, and then it is in exactly  *)
(* one place, once: the queue, the component being built or one that is    *)
(* complete. No vertex is put into two components or twice into one.       *)
Once(q) == \A k, l \in 1 .. Len(q) : q[k] = q[l] => k = l
Apart(p, q) == \A k \in 1 .. Len(p), l \in 1 .. Len(q) : p[k] # q[l]

EachOnce ==
  /\ pc \notin {"load", "exit"} => \A v \in DOMAIN visited :
       visited[v] <=> \/ v \in Elements(queue) \cup Elements(component)
                      \/ \E j \in 1 .. Len(output) : v \in Elements(output[j])
  /\ Once(queue) /\ Once(component) /\ Apart(queue, component)
  /\ \A j \in 1 .. Len(output) : /\ Once(output[j])
                                 /\ Apart(queue, output[j]) /\ Apart(component, output[j])
  /\ \A i, j \in 1 .. Len(output) : i # j => Apart(output[i], output[j])
=============================================================================
