------------------------ MODULE MCFlexibleBitVector ------------------------
EXTENDS FlexibleBitVector, TLC

(* Words 0 and 1 with as many ones, or words whose ones are not counted:   *)
(* no control decision reads a number of ones.                             *)
CountOnes(w) == w
CountNothing(w) == 0

(* Single words, with or without edges of three words.                     *)
SingleWords == {<<w>> : w \in Word}
OnesAndEdges == SingleWords \cup {<<0, 0, 1>>, <<0, 0, 0>>}

(* What a node's ptr leads to.                                             *)
StoredWords == Seq(Word) \cup {NoPtr}
=============================================================================
