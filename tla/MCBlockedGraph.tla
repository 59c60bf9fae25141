--------------------------- MODULE MCBlockedGraph ---------------------------
EXTENDS BlockedGraph

(* experiment_stackexchange.cc, and _fbv_fix.cc with either of its vectors.*)
(* _fbv.cc has the vectors of the one and the search of the other.         *)
MCPrograms == {[vector |-> "words", follows_in |-> FALSE]}
              \cup [vector : {"flex", "stl"}, follows_in : {TRUE}]
=============================================================================
