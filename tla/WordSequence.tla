---------------------------- MODULE WordSequence ----------------------------
(***************************************************************************)
(* What a bit vector promises: a sequence of 32-bit words per vector, into *)
(* which words are inserted and from which they are deleted at any place.  *)
(***************************************************************************)
EXTENDS Integers, Sequences

CONSTANTS Vector, Word

VARIABLE words

Init == words = [v \in Vector |-> <<>>]

InsertAt(q, i, new) == SubSeq(q, 1, i) \o new \o SubSeq(q, i + 1, Len(q))

(* Some words, together, at some place.                                    *)
Insert(old, new) ==
  LET n == Len(new) - Len(old)
  IN  /\ n > 0
      /\ \E i \in 0 .. Len(old) : new = InsertAt(old, i, SubSeq(new, i + 1, i + n))

Modify(old, new) ==
  /\ Len(new) = Len(old)
  /\ \E i \in 1 .. Len(old) : new = [old EXCEPT ![i] = new[i]]

Delete(old, new) ==
  /\ Len(new) = Len(old) - 1
  /\ \E i \in 1 .. Len(old) : new = SubSeq(old, 1, i - 1) \o SubSeq(old, i + 1, Len(old))

Operation(old, new) == Insert(old, new) \/ Modify(old, new) \/ Delete(old, new)

(* An operation on one vector; the others stay.                            *)
OnOneVector(old, new) ==
  /\ new \in [Vector -> Seq(Word)]
  /\ \E v \in Vector : /\ \A u \in Vector \ {v} : new[u] = old[u]
                       /\ Operation(old[v], new[v])

Next == OnOneVector(words, words')

Spec == Init /\ [][Next]_words
=============================================================================
