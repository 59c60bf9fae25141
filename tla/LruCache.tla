------------------------------ MODULE LruCache ------------------------------
(***************************************************************************)
(* What a cache that evicts the least recently used entry promises: it     *)
(* holds the entries used last, elimNum of them at most, the most recent   *)
(* first, and a value stays what was written until its entry is evicted.   *)
(***************************************************************************)
EXTENDS Integers, Sequences

CONSTANTS elimNum, Ptrs, Value

VARIABLE entries       \* sequence of [key, value]

Seqs == INSTANCE SequencesExt

Keys == {entries[k].key : k \in 1 .. Len(entries)}

Init == entries = <<>>

(* Entry k becomes the most recent one, with the value v.                  *)
Use(k, v) ==
  entries' = <<[key |-> entries[k].key, value |-> v]>> \o Seqs!RemoveAt(entries, k)

Access(k) == Use(k, entries[k].value)
Write(k, v) == Use(k, v)

Put(p, v) ==
  /\ p \notin Keys
  /\ entries' = <<[key |-> p, value |-> v]>>
                \o IF Len(entries) < elimNum THEN entries ELSE Seqs!Front(entries)

Next == \/ \E k \in 1 .. Len(entries) : Access(k) \/ \E v \in Value : Write(k, v)
        \/ \E p \in Ptrs, v \in Value : Put(p, v)

Spec == Init /\ [][Next]_entries
=============================================================================
