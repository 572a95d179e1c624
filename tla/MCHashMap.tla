------------------------------ MODULE MCHashMap ------------------------------
(* Two vectors or two maps; keys that meet at the end of every small table. *)
EXTENDS HashMap

CONSTANTS v1, v2, h1, h2

MCVectors == {v1, v2}
MCMaps == {h1, h2}
MCObjects == MCVectors \cup MCMaps
MCBlank == [o \in MCObjects |-> IF o \in MCMaps THEN [key |-> Unset, value |-> Unset, state |-> "UNUSED"] ELSE Unset]
MCKeys == {0, 3, 4, 7}
MCValues == {1, 2}
=============================================================================
