--------------------------- MODULE CacheProvider ---------------------------
(***************************************************************************)
(* src/memorymanager/datastructures/CacheProvider.cc: elimNum buffers for  *)
(* decompressed arrays. A list holds them in the order of their last use,  *)
(* each with the pointer whose array it has, and a map leads from a        *)
(* pointer to its element of the list.                                     *)
(*                                                                         *)
(* An iterator outlives the moves of other elements. It is the buffer of   *)
(* the element here, which no two elements share (MapAgrees).              *)
(***************************************************************************)
EXTENDS Integers, Sequences

CONSTANTS elimNum,        \* buffers
          Ptrs,           \* the pointers that arrays have
          nullptr,
          Value           \* what a client keeps in a buffer

ASSUME ElimNumAssumption == elimNum \in Nat \ {0}
ASSUME NullAssumption == nullptr \notin Ptrs

VARIABLES list,           \* elements [first, second]: pointer and buffer
          myMap,          \* from pointers to elements of list
          arr             \* the buffers

Lists == INSTANCE SequencesExt

lruVars == <<list, myMap, arr>>

Buffers == 0 .. elimNum - 1
Find(ptr) == CHOOSE k \in 1 .. Len(list) : list[k].second = myMap[ptr]

(* new char[] leaves the buffers as they are.                              *)
LruInit ==
  /\ list = [k \in 1 .. elimNum |-> [first |-> nullptr, second |-> k - 1]]
  /\ myMap = [p \in {} |-> 0]
  /\ arr \in [Buffers -> Value]

(* Mutant: the element keeps its place.                                    *)
AccessInPlace(ptr) ==
  /\ ptr \in DOMAIN myMap
  /\ UNCHANGED <<list, myMap>>

(* access of a pointer that is cached. For another one it returns nullptr. *)
Access(ptr) ==
  /\ ptr \in DOMAIN myMap
  /\ LET element == list[Find(ptr)]
     IN  /\ list' = <<element>> \o Lists!RemoveAt(list, Find(ptr))
         /\ myMap' = [myMap EXCEPT ![ptr] = element.second]

(* Mutant: the map keeps the pointer whose buffer is taken.                *)
PutKeepsKey(ptr) ==
  LET element == [first |-> ptr, second |-> Lists!Last(list).second]
  IN  /\ list' = <<element>> \o Lists!Front(list)
      /\ myMap' = [p \in DOMAIN myMap \cup {ptr} |->
                     IF p = ptr THEN element.second ELSE myMap[p]]

(* put takes the buffer that was used longest ago. We assume ptr was not   *)
(* put into the cache yet, says the code: so does the client below.        *)
Put(ptr) ==
  LET last    == Lists!Last(list)
      element == [first |-> ptr, second |-> last.second]
  IN  /\ list' = <<element>> \o Lists!Front(list)
      /\ myMap' = [p \in (DOMAIN myMap \ {last.first}) \cup {ptr} |->
                     IF p = ptr THEN element.second ELSE myMap[p]]

(* A client asks for its array, and writes to the buffer that it gets; if  *)
(* it gets none, it puts the array into the cache.                         *)
Reads(ptr) == Access(ptr) /\ UNCHANGED arr
Writes(ptr, v) == Access(ptr) /\ arr' = [arr EXCEPT ![myMap'[ptr]] = v]
Loads(ptr, v) ==
  /\ ptr \notin DOMAIN myMap
  /\ Put(ptr)
  /\ arr' = [arr EXCEPT ![myMap'[ptr]] = v]

LruNext == \E ptr \in Ptrs : \/ Reads(ptr)
                               \/ \E v \in Value : Writes(ptr, v) \/ Loads(ptr, v)

LruSpec == LruInit /\ [][LruNext]_lruVars
-----------------------------------------------------------------------------
(* List and map tell of the same elements, and each buffer is in one of    *)
(* them: no two pointers get the same buffer, none gets one that has been  *)
(* given to another, and no buffer is lost.                                *)
MapAgrees ==
  /\ DOMAIN myMap = {list[k].first : k \in 1 .. Len(list)} \ {nullptr}
  /\ \A k \in 1 .. Len(list) :
       list[k].first # nullptr => myMap[list[k].first] = list[k].second
  /\ Len(list) = elimNum /\ {list[k].second : k \in 1 .. Len(list)} = Buffers

(* To its clients it is a cache that evicts the least recently used entry: *)
(* the elements with a pointer, which are the first of the list.           *)
Entries ==
  LET used == {k \in 1 .. Len(list) : list[k].first # nullptr}
  IN  [k \in used |-> [key |-> list[k].first, value |-> arr[list[k].second]]]
Lru == INSTANCE LruCache WITH entries <- Entries
ImplementsLru == Lru!Spec
=============================================================================
