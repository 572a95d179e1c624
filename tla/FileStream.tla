------------------------------ MODULE FileStream ------------------------------
(***************************************************************************)
(* What the file streams of src/src/stream have in common: a handle, the   *)
(* position of the system in the file, and a buffer with a position in it. *)
(***************************************************************************)
EXTENDS Integers

CONSTANTS BufferSize,   \* FILE_WRITER_BUFFER_SIZE, FILE_READER_BUFFER_SIZE
          Sizes,        \* sizes of calls of write or read
          Positions     \* arguments of calls of seek

ASSUME StreamOK ==
    /\ BufferSize \in Nat \ {0}
    /\ Sizes \subseteq Nat
    /\ Positions \subseteq Nat

VARIABLES m_file,       \* is there a handle
          offset,       \* the position of the system in the file
          m_buffer, m_buffer_position
=============================================================================
