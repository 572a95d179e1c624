--------------------------- MODULE MCBufferQueue ---------------------------
(* Small instances of BufferQueue for TLC. *)
EXTENDS BufferQueue, TLC

MCSizeOf == [p \in Payloads |-> IF p = "empty" THEN 0 ELSE 2]

\* The two queues, and the blocks of the heap, are interchangeable.
Symmetry == Permutations(Queues) \cup Permutations(Blocks)
=============================================================================
