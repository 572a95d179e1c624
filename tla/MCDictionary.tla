----------------------------- MODULE MCDictionary -----------------------------
(* A dictionary of few nodes in short pages. *)
EXTENDS Dictionary, TLC

Symmetry == Permutations(Names)
=============================================================================
