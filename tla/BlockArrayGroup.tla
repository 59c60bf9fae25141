-------------------------- MODULE BlockArrayGroup --------------------------
(***************************************************************************)
(* BlockArrayGroup of src/memorymanager/experiment_stackexchange*.cc: one  *)
(* vector of words bv for numArrays lists of edges. Its first numArrays    *)
(* words are the lengths of the lists; the edges of all the lists follow,  *)
(* three words each, one list after the other. Lists and places count from *)
(* 0 as in the code.                                                       *)
(*                                                                         *)
(* bv is a sequence of words. The experiments put three things there: a    *)
(* FlexibleBitVector, which inserts a block of words ("flex"), the wrapper *)
(* of a std::vector, which inserts its words one by one from the last on   *)
(* ("stl"), and a std::vector into which insert_into_bag itself inserts    *)
(* word by word ("words").                                                 *)
(***************************************************************************)
EXTENDS Integers, Sequences

CONSTANT numArrays          \* BAG_SIZE

ASSUME NumArraysAssumption == numArrays \in Nat \ {0}

(* An edge and its words.                                                  *)
Edge(target, type, ts) == [target |-> target, type |-> type, timestamp |-> ts]
Serialize(edge) == <<edge.target, edge.type, edge.timestamp>>
serialized_length == 3

NewGroup == [k \in 1 .. numArrays |-> 0]

(* get_array_range: where the words of a list begin and end.               *)
GetArrayRange(bv, arr) ==
  LET left[k \in 0 .. arr] ==
        IF k = 0 THEN numArrays ELSE left[k - 1] + serialized_length * bv[k]
  IN  [left |-> left[arr], right |-> left[arr] + serialized_length * bv[arr + 1]]

GetSize(bv, arr) ==
  LET range == GetArrayRange(bv, arr) IN (range.right - range.left) \div serialized_length

GetDataOffset(bv, arr, pos) == GetArrayRange(bv, arr).left + pos * serialized_length

AccessBag(bv, arr, pos) ==
  LET offset == GetDataOffset(bv, arr, pos)
  IN  Edge(bv[offset + 1], bv[offset + 2], bv[offset + 3])

InsertAt(bv, pos, data) == SubSeq(bv, 1, pos) \o data \o SubSeq(bv, pos + 1, Len(bv))

(* insertBlock of the two wrappers.                                        *)
FlexInsertBlock(bv, pos, data) == InsertAt(bv, pos, data)
StlInsertBlock(bv, pos, data) ==
  LET words[k \in 0 .. Len(data)] ==
        IF k = 0 THEN bv ELSE InsertAt(words[k - 1], pos, <<data[Len(data) + 1 - k]>>)
  IN  words[Len(data)]

(* The loop of the first experiment: the offset is computed anew for each  *)
(* word, while the length of the list is still the old one.                *)
InsertWords(bv, arr, pos, data) ==
  LET words[i \in 0 .. Len(data)] ==
        IF i = 0 THEN bv
        ELSE InsertAt(words[i - 1], GetDataOffset(words[i - 1], arr, pos) + i - 1, <<data[i]>>)
  IN  words[Len(data)]

InsertIntoBag(vector, bv, arr, pos, edge) ==
  LET new == CASE vector = "flex"  -> FlexInsertBlock(bv, GetDataOffset(bv, arr, pos), Serialize(edge))
               [] vector = "stl"   -> StlInsertBlock(bv, GetDataOffset(bv, arr, pos), Serialize(edge))
               [] vector = "words" -> InsertWords(bv, arr, pos, Serialize(edge))
  IN  [new EXCEPT ![arr + 1] = @ + 1]

(* Mutant: the edge comes first in its list.                               *)
PushFrontBag(vector, bv, arr, edge) == InsertIntoBag(vector, bv, arr, 0, edge)

PushBackBag(vector, bv, arr, edge) == InsertIntoBag(vector, bv, arr, GetSize(bv, arr), edge)

(* The edges of a list.                                                    *)
Bag(bv, arr) == [k \in 1 .. GetSize(bv, arr) |-> AccessBag(bv, arr, k - 1)]
=============================================================================
