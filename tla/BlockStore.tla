----------------------------- MODULE BlockStore -----------------------------
(***************************************************************************)
(* What a memory manager promises to its clients: a pointer owns a block   *)
(* of the length it was created with, a fill replaces the contents of that *)
(* block, and no operation on one pointer changes the block of another.    *)
(* Where the blocks lie, and that they move when others are removed, is    *)
(* not visible here.                                                       *)
(***************************************************************************)
EXTENDS Integers

CONSTANTS Ptrs,        \* pointer objects a client can hold
          Lens,        \* block lengths a client asks for
          Cell,        \* values a byte of memory can hold
          Images(_)    \* Images(len): the data a client fills a block of length len with

VARIABLE content       \* content[p]: the block of p, for every p that owns one

Blocks(len) == [0..(len - 1) -> Cell]

TypeOK == /\ DOMAIN content \subseteq Ptrs
          /\ \A p \in DOMAIN content : \E len \in Lens : content[p] \in Blocks(len)

Init == content = [p \in {} |-> p]

(* A new block has the right length and whatever its bytes held before;    *)
(* the other blocks stay. (Written without a quantifier over all contents, *)
(* so that TLC need not enumerate them to check a step.)                   *)
Create(len, p) ==
  /\ p \notin DOMAIN content
  /\ DOMAIN content' = DOMAIN content \cup {p}
  /\ content'[p] \in Blocks(len)
  /\ content' = [q \in DOMAIN content \cup {p} |-> IF q = p THEN content'[p] ELSE content[q]]

Fill(p, img) ==
  /\ DOMAIN img = DOMAIN content[p]
  /\ content' = [content EXCEPT ![p] = img]

Remove(p) == content' = [q \in DOMAIN content \ {p} |-> content[q]]

Next == \/ \E len \in Lens, p \in Ptrs : Create(len, p)
        \/ \E p \in DOMAIN content : \E len \in Lens : \E img \in Images(len) : Fill(p, img)
        \/ \E p \in DOMAIN content : Remove(p)

Spec == Init /\ [][Next]_content
=============================================================================
