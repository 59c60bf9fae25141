----------------------------- MODULE NaiveGraph -----------------------------
(***************************************************************************)
(* src/memorymanager/experiment_stackexchange_naive_fix.cc and             *)
(* experiment_stackexchange_naive.cc: a graph as a list of vertices, each  *)
(* with the lists of its edges, is loaded from a file and its connected    *)
(* components are extracted. The two programs differ in whether the search *)
(* follows the edges that come in. They are what the experiments with bit  *)
(* vectors are compared with (BlockedGraph).                               *)
(*                                                                         *)
(* Vertex v of the code is node_list[v + 1].                               *)
(***************************************************************************)
EXTENDS ConnectedComponents

CONSTANTS VertexText, EdgeText,    \* the types that lines of the input name
          Timestamp

VARIABLES node_list,
          follows_in   \* does the program follow the edges that come in?

vars == <<node_list, follows_in, searchVars>>

(* The enums; a text that is none of them ends the program.                *)
VertexStrToEnum == [POST |-> 0, REPLY |-> 1, COMMENT |-> 2, USER |-> 3]
EdgeStrToEnum == [REPLY_TO |-> 0, POSTED |-> 1, VOTED_FOR |-> 2,
                  COMMENT_ON |-> 3, MADE_COMMENT |-> 4]

Edge(target, type, ts) == [target |-> target, type |-> type, timestamp |-> ts]
Node(type, ts, in, out) == [type |-> type, timestamp |-> ts, in |-> in, out |-> out]
AddOutNeighbour(node, edge) == Node(node.type, node.timestamp, node.in, Append(node.out, edge))
AddInNeighbour(node, edge)  == Node(node.type, node.timestamp, Append(node.in, edge), node.out)

n == Len(node_list)
Vertices == 0 .. n - 1
In(v)  == node_list[v + 1].in
Out(v) == node_list[v + 1].out

Targets(edges) == [k \in 1 .. Len(edges) |-> edges[k].target]

(* The ends of the edges followed from v: first those that go out, then,   *)
(* in the fixed program, those that come in.                               *)
Followed(v) == Targets(Out(v)) \o IF follows_in THEN Targets(In(v)) ELSE <<>>
-----------------------------------------------------------------------------
Init == /\ node_list = <<>>
        /\ follows_in \in BOOLEAN
        /\ InitSearch

(* insert_vertex: a vertex that is not the next one is ignored.            *)
InsertVertex(v, type, ts) ==
  /\ pc = "load"
  /\ v = n
  /\ node_list' = Append(node_list, Node(type, ts, <<>>, <<>>))
  /\ UNCHANGED <<follows_in, searchVars>>

WithEdge(v1, v2, type, ts) ==
  LET nodes == [node_list EXCEPT ![v1 + 1] = AddOutNeighbour(@, Edge(v2, type, ts))]
  IN  [nodes EXCEPT ![v2 + 1] = AddInNeighbour(@, Edge(v1, type, ts))]

InsertEdge(v1, v2, type, ts) ==
  /\ pc = "load"
  /\ n > v1 /\ n > v2
  /\ node_list' = WithEdge(v1, v2, type, ts)
  /\ UNCHANGED <<follows_in, searchVars>>

(* An edge of a vertex that does not exist.                                *)
UnableToInsert(v1, v2) ==
  /\ n <= v1 \/ n <= v2
  /\ Exit /\ UNCHANGED <<node_list, follows_in>>

(* A line that is malformed, or names a type that there is not.            *)
MalformedLine == Exit /\ UNCHANGED <<node_list, follows_in>>

(* load_graph reads a line; n stands for all the vertices there are not.   *)
LoadGraph ==
  \E ts \in Timestamp :
    \/ \E v \in 0 .. n, text \in VertexText :
         IF text \in DOMAIN VertexStrToEnum
         THEN InsertVertex(v, VertexStrToEnum[text], ts) ELSE MalformedLine
    \/ \E v1, v2 \in 0 .. n, text \in EdgeText :
         IF text \in DOMAIN EdgeStrToEnum
         THEN InsertEdge(v1, v2, EdgeStrToEnum[text], ts) \/ UnableToInsert(v1, v2)
         ELSE MalformedLine
    \/ MalformedLine

ExtractConnectedComponents ==
  /\ Search(n, IF pc = "edges" THEN Followed(current) ELSE <<>>)
  /\ UNCHANGED <<node_list, follows_in>>

Next == LoadGraph \/ ExtractConnectedComponents

Spec == Init /\ [][Next]_vars
-----------------------------------------------------------------------------
(* A set of vertices that no followed edge leaves.                         *)
Closed(S) == \A v \in S : Elements(Followed(v)) \subseteq S

(* What the search puts together can be reached from the first vertex of   *)
(* the component along followed edges: it is in every closed set with it.  *)
OnlyReachable ==
  pc \notin {"load", "exit"} =>
    \A S \in SUBSET Vertices : Closed(S) =>
      /\ \A j \in 1 .. Len(output) : output[j][1] \in S => Elements(output[j]) \subseteq S
      /\ pc # "roots" /\ pc # "done" /\ root \in S =>
           Elements(queue) \cup Elements(component) \subseteq S

(* The edges out of v to w are the edges into w from v.                    *)
Mirrored ==
  \A v, w \in Vertices : w \in Elements(Targets(Out(v))) <=> v \in Elements(Targets(In(w)))

(* The result of the program that follows the edges both ways is the       *)
(* connected components: every vertex is in one, no edge joins two of      *)
(* them, and none falls into parts without an edge between them.           *)
FindsComponents ==
  pc = "done" /\ follows_in =>
    /\ \A v \in Vertices : \E j \in 1 .. Len(output) : v \in Elements(output[j])
    /\ \A j \in 1 .. Len(output) :
         /\ Closed(Elements(output[j]))
         /\ \A S \in SUBSET Elements(output[j]) : Closed(S) => S \in {{}, Elements(output[j])}
=============================================================================
