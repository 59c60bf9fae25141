---------------------------- MODULE BlockedGraph ----------------------------
(***************************************************************************)
(* The programs src/memorymanager/experiment_stackexchange.cc, _fbv.cc and *)
(* _fbv_fix.cc: a graph whose lists of edges lie in the BlockArrayGroups   *)
(* of bags of numArrays vertices each is loaded from a file, its connected *)
(* components are extracted. Which of the programs it is shows in the      *)
(* vector they use and in whether the search follows the edges that come   *)
(* in, too.                                                                *)
(***************************************************************************)
EXTENDS ConnectedComponents, BlockArrayGroup

CONSTANTS Programs,                \* the programs: vector and follows_in
          VertexText, EdgeText,    \* the types that lines of the input name
          Timestamp,
          MaxVertices, MaxEdges    \* bounds on the input

(* A timestamp is a word, as read by load_graph.                           *)
ASSUME TimestampAssumption == Timestamp \subseteq Nat
ASSUME ProgramsAssumption ==
  Programs \subseteq [vector : {"flex", "stl", "words"}, follows_in : BOOLEAN]

VARIABLES in_bags, out_bags, node_types, node_ts,
          program

LOCAL Seqs == INSTANCE SequencesExt

graph == <<in_bags, out_bags, node_types, node_ts>>
vars  == <<graph, program, searchVars>>

VertexStrToEnum == [POST |-> 0, REPLY |-> 1, COMMENT |-> 2, USER |-> 3]
EdgeStrToEnum == [REPLY_TO |-> 0, POSTED |-> 1, VOTED_FOR |-> 2,
                  COMMENT_ON |-> 3, MADE_COMMENT |-> 4]

number_of_vertices == Len(node_types)
Vertices == 0 .. number_of_vertices - 1

BagId(v) == v \div numArrays
BagIndex(v) == v % numArrays

In(v)  == Bag(in_bags[BagId(v) + 1], BagIndex(v))
Out(v) == Bag(out_bags[BagId(v) + 1], BagIndex(v))

(* Edges in all the lists of some bags.                                    *)
EdgesIn(bags) ==
  Seqs!FoldLeft(LAMBDA sum, bv : sum + (Len(bv) - numArrays) \div serialized_length, 0, bags)

Targets(edges) == [k \in 1 .. Len(edges) |-> edges[k].target]

(* Mutant: no program follows the edges that come in.                      *)
FollowedOut(v) == Targets(Out(v))

Followed(v) == Targets(Out(v)) \o IF program.follows_in THEN Targets(In(v)) ELSE <<>>
-----------------------------------------------------------------------------
Init == /\ in_bags = <<>> /\ out_bags = <<>> /\ node_types = <<>> /\ node_ts = <<>>
        /\ program \in Programs
        /\ InitSearch

(* Mutant: the pair of bags is created one vertex too late.                *)
NeedsBagLate(v) == v \div numArrays > Len(in_bags)

NeedsBag(v) == v \div numArrays >= Len(in_bags)

InsertVertex(v, type, ts) ==
  /\ pc = "load" /\ number_of_vertices < MaxVertices
  /\ v = number_of_vertices
  /\ node_types' = Append(node_types, type)
  /\ node_ts' = Append(node_ts, ts)
  /\ in_bags'  = IF NeedsBag(v) THEN Append(in_bags, NewGroup) ELSE in_bags
  /\ out_bags' = IF NeedsBag(v) THEN Append(out_bags, NewGroup) ELSE out_bags
  /\ UNCHANGED <<program, searchVars>>

(* The assertion of insert_vertex: the program is aborted.                 *)
WrongVertex(v) ==
  /\ pc = "load" /\ v # number_of_vertices
  /\ pc' = "abort"
  /\ UNCHANGED <<graph, program, searchButPc>>

PushBack(bags, v, edge) ==
  [bags EXCEPT ![BagId(v) + 1] = PushBackBag(program.vector, @, BagIndex(v), edge)]

(* Mutant: the edge is put into the wrong list of incoming edges.          *)
InsertEdgeSwapped(v1, v2, type, ts) ==
  /\ pc = "load" /\ EdgesIn(in_bags) < MaxEdges
  /\ in_bags'  = PushBack(in_bags, v1, Edge(v2, type, ts))
  /\ out_bags' = PushBack(out_bags, v1, Edge(v2, type, ts))
  /\ UNCHANGED <<node_types, node_ts, program, searchVars>>

(* insert_edge, for vertices that have been inserted, which it does not    *)
(* check: the behaviour for others is undefined.                           *)
InsertEdge(v1, v2, type, ts) ==
  /\ pc = "load" /\ EdgesIn(in_bags) < MaxEdges
  /\ in_bags'  = PushBack(in_bags, v2, Edge(v1, type, ts))
  /\ out_bags' = PushBack(out_bags, v1, Edge(v2, type, ts))
  /\ UNCHANGED <<node_types, node_ts, program, searchVars>>

MalformedLine == Exit /\ UNCHANGED <<graph, program>>

(* load_graph reads a line.                                                *)
LoadGraph ==
  \E ts \in Timestamp :
    \/ \E v \in 0 .. MaxVertices, text \in VertexText :
         IF text \in DOMAIN VertexStrToEnum
         THEN InsertVertex(v, VertexStrToEnum[text], ts) \/ WrongVertex(v)
         ELSE MalformedLine
    \/ \E v1, v2 \in Vertices, text \in EdgeText :
         IF text \in DOMAIN EdgeStrToEnum
         THEN InsertEdge(v1, v2, EdgeStrToEnum[text], ts)
         ELSE MalformedLine
    \/ MalformedLine

ExtractConnectedComponents ==
  /\ Search(number_of_vertices, IF pc = "edges" THEN Followed(current) ELSE <<>>)
  /\ UNCHANGED <<graph, program>>

Next == LoadGraph \/ ExtractConnectedComponents

(* The program runs on its own once it has read the input: nothing but its *)
(* own end stops it. How long the input is nobody says.                    *)
Spec == Init /\ [][Next]_vars /\ WF_vars(ExtractConnectedComponents /\ pc # "load")
-----------------------------------------------------------------------------
TypeOK ==
  /\ pc \in {"load", "roots", "while", "edges", "done", "exit", "abort"}
  /\ Len(in_bags) = Len(out_bags) /\ Len(node_ts) = Len(node_types)
  /\ \A b \in 1 .. Len(in_bags) : in_bags[b] \in Seq(Nat) /\ out_bags[b] \in Seq(Nat)
  /\ DOMAIN visited \subseteq Vertices
  /\ Elements(queue) \cup Elements(component) \subseteq Vertices

(* The lengths at the start of a group account for all of its words, and   *)
(* every vertex has a list in the bags.                                    *)
BagsComplete ==
  /\ TypeOK
  /\ number_of_vertices <= numArrays * Len(in_bags)
  /\ \A b \in 1 .. Len(in_bags) :
       /\ GetArrayRange(in_bags[b], numArrays - 1).right = Len(in_bags[b])
       /\ GetArrayRange(out_bags[b], numArrays - 1).right = Len(out_bags[b])

(* A program that has read its input ends, whatever the graph.             *)
Terminates == pc = "roots" ~> pc = "done"

(* The graph in the bags is the graph of the naive program: edges come     *)
(* back from the bag of their vertex in the order in which they were put   *)
(* there, although those of other vertices are put in front of them. And   *)
(* both programs search it in the same steps. A vertex out of order is the *)
(* exception: the naive program ignores it, this one stops.                *)
Nodes == [k \in 1 .. number_of_vertices |->
            [type |-> node_types[k], timestamp |-> node_ts[k],
             in |-> In(k - 1), out |-> Out(k - 1)]]
Naive == INSTANCE NaiveGraph WITH node_list  <- Nodes,
                                  follows_in <- program.follows_in,
                                  pc         <- IF pc = "abort" THEN "load" ELSE pc
ImplementsGraph == Naive!Spec

(* What NaiveGraph states of the edges and of every search, and its result *)
(* if it follows the edges both ways: the components.                      *)
SearchesGraph == Naive!Mirrored /\ Naive!OnlyReachable
FindsComponents == Naive!FindsComponents
=============================================================================
