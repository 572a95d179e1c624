--------------------------- MODULE MCCommandQueue ---------------------------
(* Small instances of CommandQueue for TLC. *)
EXTENDS CommandQueue, TLC

MCPayloads == [format : {"METHOD", "CALLBACK_DATA"}]
MCSizeOf == [p \in Payloads |-> IF TakesData([payload |-> p]) THEN 2 ELSE 1]

Symmetry == Permutations(Queues) \cup Permutations(Blocks)
=============================================================================
