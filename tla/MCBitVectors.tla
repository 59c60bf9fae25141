---------------------------- MODULE MCBitVectors ----------------------------
(***************************************************************************)
(* The bit vectors within several bounds, each for one question: the       *)
(* shapes of trees and slots, with many words that are all alike; the      *)
(* words, of two kinds; the ones, in a single vector. A behaviour keeps to *)
(* one of the bounds.                                                      *)
(***************************************************************************)
EXTENDS MCFlexibleBitVector

LOCAL Seqs == INSTANCE SequencesExt

CONSTANTS a, b              \* words whose ones are not counted

VARIABLE bounds

(* Of the words only 1 has a one.                                          *)
CountOne(w) == IF w = 1 THEN 1 ELSE 0

MCWord == {a, b, 0, 1}
MCData == SingleWords \cup {<<w, w, w>> : w \in {a, b, 0}} \cup {<<0, 0, 1>>}

Within(about, words, slots, vectors, maxWords) ==
  [about |-> about, words |-> words, slots |-> slots, vectors |-> vectors, maxWords |-> maxWords]

Bounds == {Within("shapes", {0},    3, 2, 7),
           Within("words",  {a, b}, 1, 2, 5),
           Within("words",  {a, b}, 2, 2, 4),
           Within("words",  {a, b}, 2, 1, 5),
           Within("ones",   {0, 1}, 1, 1, 5),
           Within("ones",   {0, 1}, 2, 1, 5)}

DataInBounds ==
  LET room == bounds.maxWords - AllWords
  IN  {data \in Data : Len(data) <= room /\ Seqs!ToSet(data) \subseteq bounds.words}

(* Vectors with words.                                                     *)
Used == {v \in Vector : Size(v) > 0}

InBounds == /\ AllWords <= bounds.maxWords
            /\ Cardinality(Used) <= bounds.vectors
            /\ Bounded(MaxShift)

InitInBounds == Init /\ bounds \in Bounds /\ Len(s.slots) = bounds.slots

NextInBounds ==
  /\ \/ bounds.about # "ones" /\ WordOperation(bounds.words, DataInBounds)
     \/ bounds.about = "ones" /\ OnesOperation(bounds.words, DataInBounds)
  /\ UNCHANGED bounds
  /\ InBounds'

SpecInBounds == InitInBounds /\ [][NextInBounds]_<<vars, bounds>>

WordSymmetry == Permutations({a, b}) \cup Permutations(Vector)
=============================================================================
