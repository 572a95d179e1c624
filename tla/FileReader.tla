------------------------------ MODULE FileReader ------------------------------
(***************************************************************************)
(* src/src/stream/file_reader.{hpp,cpp} on a file that does not change:    *)
(* small reads are served from a buffer that is filled from the file when  *)
(* m_buffer_position is 0, larger ones from the file.  A byte of the file  *)
(* is its place in it.                                                     *)
(*                                                                         *)
(* The buffer is not told from where it was filled, seek only moves        *)
(* m_buffer_position, and read does not look at how much there is.  The    *)
(* calls for which the code nevertheless is a file are those the ghost     *)
(* "regular" allows: no read past the end of the file, no empty read when  *)
(* the buffer is to be filled, and seeks only inside a first buffer.       *)
(***************************************************************************)
EXTENDS FileStream

CONSTANTS FileSizes,    \* sizes of the file
          MaxPosition,  \* bound: how far the caller reads
          Unknown       \* a byte of memory that was never set

ASSUME ReaderOK ==
    /\ FileSizes \subseteq Nat
    /\ MaxPosition \in Nat
    /\ Unknown \notin Nat

VARIABLES file_size,         \* the size of the file
          output,            \* what the latest call returned, if it was a read
          overrun,           \* read took bytes from behind the buffer
          position,          \* ghost: where the caller is in the file
          filled,            \* ghost: bytes the buffer got when last filled, or
                             \* 0 if the file was read past the buffer since
          regular            \* ghost: the calls so far are the supported ones

readerVars == <<file_size, m_file, offset, m_buffer, m_buffer_position, output,
                overrun, position, filled, regular>>

NoOutput == [ok |-> TRUE, from |-> 0, size |-> 0, byte |-> [i \in {} |-> Unknown]]
Smaller(m, n) == IF m < n THEN m ELSE n

-----------------------------------------------------------------------------
ReaderInit ==
    /\ file_size \in FileSizes
    /\ m_file = FALSE
    /\ offset = 0
    /\ m_buffer = [i \in 0 .. BufferSize - 1 |-> Unknown]
    /\ m_buffer_position = 0
    /\ output = NoOutput
    /\ overrun = FALSE
    /\ position = 0
    /\ filled = 0
    /\ regular = TRUE

\* Slip: open does not go back to the start.
OpenReader_KeepsPosition ==
    /\ ~overrun
    /\ m_file' = TRUE
    /\ offset' = 0
    /\ position' = 0
    /\ filled' = 0
    /\ regular' = TRUE
    /\ output' = NoOutput
    /\ UNCHANGED <<file_size, m_buffer, m_buffer_position, overrun>>

\* open.  A file that is open is not closed.
OpenReader ==
    /\ ~overrun
    /\ m_file' = TRUE
    /\ offset' = 0
    /\ m_buffer_position' = 0
    /\ position' = 0
    /\ filled' = 0
    /\ regular' = TRUE
    /\ output' = NoOutput
    /\ UNCHANGED <<file_size, m_buffer, overrun>>

\* open when the system refuses.
OpenReaderFails ==
    /\ ~overrun
    /\ m_file' = FALSE
    /\ m_buffer_position' = 0
    /\ output' = NoOutput
    /\ UNCHANGED <<file_size, offset, m_buffer, overrun, position, filled,
                   regular>>

\* close.
CloseReader ==
    /\ ~overrun
    /\ m_file' = FALSE
    /\ output' = NoOutput
    /\ UNCHANGED <<file_size, offset, m_buffer, m_buffer_position, overrun,
                   position, filled, regular>>

\* Slip: seek goes to the position in the buffer without asking if it is there.
SeekReader_Unchecked(p) ==
    /\ ~overrun
    /\ m_file
    /\ m_buffer_position' = p - (offset - filled)
    /\ position' = p
    /\ output' = NoOutput
    /\ UNCHANGED <<file_size, m_file, offset, m_buffer, overrun, filled, regular>>

\* seek.
SeekReader(p) ==
    /\ ~overrun
    /\ m_file
    /\ m_buffer_position' = p
    /\ position' = p
    /\ regular' = /\ regular
                  /\ offset = filled /\ p <= filled
                  /\ p > 0 \/ offset = 0
    /\ output' = NoOutput
    /\ UNCHANGED <<file_size, m_file, offset, m_buffer, overrun, filled>>

\* Slip: a read that ends where the buffer ends is taken for one that crosses.
Crossing_AtEnd(n) == m_buffer_position > 0 /\ m_buffer_position + n >= BufferSize

\* A read of n bytes takes what the buffer has left and goes on without it.
Crossing(n) == m_buffer_position > 0 /\ m_buffer_position + n > BufferSize

\* The bytes such a read has from the buffer.
Rest(n) == IF Crossing(n) THEN BufferSize - m_buffer_position ELSE 0

\* Where the rest of the read starts in the buffer; the buffer is filled at 0.
Start(n) == IF Crossing(n) THEN 0 ELSE m_buffer_position

\* What File::read stores of the next n bytes of the file.
Available(n) == Smaller(n, IF offset < file_size THEN file_size - offset ELSE 0)

\* The n bytes the caller gets: the rest of the old buffer and what follows it.
Delivered(n, tail) ==
    [i \in 0 .. n - 1 |->
        IF i < Rest(n) THEN m_buffer[m_buffer_position + i] ELSE tail[i - Rest(n)]]

Returned(ok, n, tail) ==
    output' = [ok |-> ok, from |-> position, size |-> n, byte |-> Delivered(n, tail)]

\* The rest is as large as the buffer or larger: the file is read directly.
ReadDirect(n) ==
    LET left == n - Rest(n)
        got  == Available(left)
    IN  /\ left >= BufferSize
        /\ Returned(got = left, n,
                    [i \in 0 .. left - 1 |-> IF i < got THEN offset + i ELSE Unknown])
        /\ offset' = offset + got
        /\ m_buffer_position' = Start(n)
        /\ filled' = 0
        /\ UNCHANGED m_buffer

\* The buffer after it was filled: what the file does not have stays as it was.
Filled == [i \in 0 .. BufferSize - 1 |->
              IF i < Available(BufferSize) THEN offset + i ELSE m_buffer[i]]

\* The rest comes from the buffer, which is filled first when it is used up.
ReadBuffered(n) ==
    LET left == n - Rest(n)
        fill == Start(n) = 0
        got  == IF fill THEN Available(BufferSize) ELSE 0
        buffer == IF fill THEN Filled ELSE m_buffer
    IN  /\ left < BufferSize
        /\ Returned(TRUE, n, [i \in 0 .. left - 1 |-> buffer[Start(n) + i]])
        /\ offset' = offset + got
        /\ m_buffer' = buffer
        /\ m_buffer_position' = Start(n) + left
        /\ filled' = IF got > 0 THEN got ELSE filled

\* read(n) with the position inside the buffer.
Read(n) ==
    /\ ~overrun
    /\ m_file
    /\ position + n <= MaxPosition
    /\ m_buffer_position <= BufferSize
    /\ ReadDirect(n) \/ ReadBuffered(n)
    /\ position' = position + n
    /\ regular' = /\ regular
                  /\ position + n <= file_size
                  /\ n > 0 \/ m_buffer_position > 0
    /\ UNCHANGED <<file_size, m_file, overrun>>

\* read with the position behind the buffer: BufferSize - m_buffer_position
\* wraps, and so many bytes are copied.
ReadBehind ==
    /\ ~overrun
    /\ m_file
    /\ m_buffer_position > BufferSize
    /\ overrun' = TRUE
    /\ UNCHANGED <<file_size, m_file, offset, m_buffer, m_buffer_position, output,
                   position, filled, regular>>

ReaderNext ==
    \/ OpenReader \/ OpenReaderFails \/ CloseReader
    \/ \E p \in Positions : SeekReader(p)
    \/ \E n \in Sizes : Read(n)
    \/ ReadBehind

ReaderSpec == ReaderInit /\ [][ReaderNext]_readerVars

-----------------------------------------------------------------------------
(* Correctness. *)

Memory == Nat \cup {Unknown}

\* Every variable has its type.
ReaderTypeOK ==
    /\ file_size \in FileSizes
    /\ m_file \in BOOLEAN
    /\ offset \in 0 .. file_size
    /\ m_buffer \in [0 .. BufferSize - 1 -> Memory]
    /\ m_buffer_position \in Nat
    /\ output.ok \in BOOLEAN
    /\ output.from \in Nat /\ output.size \in Nat
    /\ output.byte \in [0 .. output.size - 1 -> Memory]
    /\ overrun \in BOOLEAN
    /\ position \in Nat
    /\ filled \in 0 .. Smaller(BufferSize, offset)
    /\ regular \in BOOLEAN

\* The bytes read are those of the file at the position of the read.
Exact == \A i \in 0 .. output.size - 1 : output.byte[i] = output.from + i

\* However reads are cut by the ends of the buffer, mixed with large reads that
\* pass it by, and followed by seeks back into it: each read returns true and
\* the bytes of the file at the position of the caller.
ReadsExact == regular => output.ok /\ Exact

\* Slip: the first buffer is not told from the others.
ReaderPosition_NoFirst == IF m_file THEN offset - BufferSize + m_buffer_position ELSE 0

\* get_position.
ReaderPosition ==
    IF ~m_file THEN 0
    ELSE IF offset >= BufferSize THEN offset - BufferSize + m_buffer_position
    ELSE m_buffer_position

\* get_position is right wherever the buffer was filled whole, or is the first.
PositionInFullBuffers ==
    m_file /\ regular /\ (filled = BufferSize \/ offset < BufferSize) =>
        ReaderPosition = position

\* No supported call makes read take bytes from behind the buffer.
NoOverrun == regular => ~overrun

-----------------------------------------------------------------------------
(* What the tests say. *)

\* unit-tests.cpp:195-200: after a seek, a read returns the byte at the position.
SeeksExact == output.ok /\ output.from + output.size <= file_size => Exact

\* unit-tests.cpp:187, 193: get_position is the position of the caller.
PositionExact == m_file => ReaderPosition = position
=============================================================================
