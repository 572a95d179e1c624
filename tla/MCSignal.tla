------------------------------- MODULE MCSignal -------------------------------
(* Small instances of Signal for TLC. *)
EXTENDS Signal, TLC

Symmetry == Permutations(Objects)
=============================================================================
