--------------------------- MODULE MCMemoryManager ---------------------------
(* Small instances of MemoryManager: two or three pages of ten units. *)
EXTENDS MemoryManager

PageSymmetry == Permutations(Pages)
=============================================================================
