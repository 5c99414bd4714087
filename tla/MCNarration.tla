----------------------------- MODULE MCNarration -----------------------------
(* Small instance of Narration: requests are interchangeable. *)
EXTENDS Narration, TLC

Symmetry == Permutations(Requests)
=============================================================================
