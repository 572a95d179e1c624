------------------------------ MODULE FileWriter ------------------------------
(***************************************************************************)
(* src/src/stream/file_writer.{hpp,cpp} on one file of the system: small   *)
(* writes are collected in a buffer, which goes to the file when it is     *)
(* full, before a seek, and on flush and close.                            *)
(*                                                                         *)
(* The system may take only a part of a write, or nothing (disk full), and *)
(* may refuse to open.  The caller writes to open streams only, as         *)
(* Dictionary::write sees to.                                              *)
(***************************************************************************)
EXTENDS FileBytes, FileStream

CONSTANTS MaxWrites,    \* bound: calls of write
          MaxRefusals   \* bound: opens and writes the system does not do whole

ASSUME WriterOK ==
    /\ MaxWrites \in Nat
    /\ MaxRefusals \in Nat

VARIABLES disk,               \* the file
          result,             \* what the latest call returned
          writes,             \* calls of write so far, which name the bytes
          refusals,
          torn                \* ghost: the system took a part of the buffer

vars == <<disk, offset, m_file, m_buffer, m_buffer_position, result, writes,
          refusals, torn>>

-----------------------------------------------------------------------------
Init ==
    /\ disk = Empty
    /\ offset = 0
    /\ m_file = FALSE
    /\ m_buffer \in [0 .. BufferSize - 1 -> {Hole}]
    /\ m_buffer_position = 0
    /\ result = FALSE
    /\ writes = 0
    /\ refusals = 0
    /\ torn = FALSE

\* File::write: how many of n bytes the system takes.
Taken(n) == IF refusals < MaxRefusals THEN 0 .. n ELSE {n}

\* The buffer goes to the file if "needed" and it holds anything.  The rest of
\* the call goes on from what this leaves, if the system took all of it.
Flushes(needed) ==
    IF needed /\ m_buffer_position > 0
    THEN {[done |-> n = m_buffer_position,
           disk |-> Overlay(disk, offset, m_buffer, n),
           offset |-> offset + n,
           left |-> IF n = m_buffer_position THEN 0 ELSE m_buffer_position,
           torn |-> torn \/ n \notin {0, m_buffer_position}]
             : n \in Taken(m_buffer_position)}
    ELSE {[done |-> TRUE, disk |-> disk, offset |-> offset,
           left |-> m_buffer_position, torn |-> torn]}

\* What a refused flush leaves behind: the call returns false.
Refused(f) ==
    /\ ~f.done
    /\ disk' = f.disk
    /\ offset' = f.offset
    /\ torn' = f.torn
    /\ refusals' = refusals + 1
    /\ result' = FALSE
    /\ UNCHANGED <<m_file, m_buffer, m_buffer_position, writes>>

\* Slip: one byte too many is let into the buffer.
FlushFirst_OffByOne(size) ==
    \/ m_buffer_position + size > BufferSize + 1
    \/ size < BufferSize /\ m_buffer_position >= BufferSize

\* Slip: the buffer is not written before what goes to the file directly.
FlushFirst_NotDirect(size) ==
    /\ size < BufferSize
    /\ m_buffer_position + size > BufferSize \/ m_buffer_position >= BufferSize

\* The bytes do not fit behind what is buffered, or the buffer is full and
\* there are none.
FlushFirst(size) ==
    \/ m_buffer_position + size > BufferSize
    \/ size < BufferSize /\ m_buffer_position >= BufferSize

\* The bytes go to the file without passing the buffer.
WriteDirect(f, size) ==
    /\ size >= BufferSize
    /\ \E n \in Taken(size) :
          /\ disk' = Overlay(f.disk, f.offset, Data(writes + 1, size), n)
          /\ offset' = f.offset + n
          /\ result' = (n = size)
          /\ refusals' = IF n = size THEN refusals ELSE refusals + 1
    /\ m_buffer_position' = f.left
    /\ UNCHANGED m_buffer

\* The bytes go behind what is buffered.
WriteBuffered(f, size) ==
    /\ size < BufferSize
    /\ m_buffer' = [i \in 0 .. BufferSize - 1 |->
                       IF i \in f.left .. f.left + size - 1
                       THEN Data(writes + 1, size)[i - f.left] ELSE m_buffer[i]]
    /\ m_buffer_position' = f.left + size
    /\ disk' = f.disk
    /\ offset' = f.offset
    /\ result' = TRUE
    /\ UNCHANGED refusals

Write(size) ==
    /\ m_file
    /\ writes < MaxWrites
    /\ \E f \in Flushes(FlushFirst(size)) :
          \/ Refused(f)
          \/ /\ f.done
             /\ WriteDirect(f, size) \/ WriteBuffered(f, size)
             /\ writes' = writes + 1
             /\ torn' = f.torn
             /\ UNCHANGED m_file

\* seek: what is buffered belongs before the new position.
Seek(p) ==
    /\ m_file
    /\ \E f \in Flushes(TRUE) :
          \/ Refused(f)
          \/ /\ f.done
             /\ disk' = f.disk
             /\ offset' = p
             /\ m_buffer_position' = f.left
             /\ torn' = f.torn
             /\ result' = TRUE
             /\ UNCHANGED <<m_file, m_buffer, writes, refusals>>

Flush ==
    \E f \in Flushes(TRUE) :
       \/ Refused(f)
       \/ /\ f.done
          /\ disk' = f.disk
          /\ offset' = f.offset
          /\ m_buffer_position' = f.left
          /\ torn' = f.torn
          /\ result' = TRUE
          /\ UNCHANGED <<m_file, m_buffer, writes, refusals>>

\* Slip: the handle is closed whether or not the flush was done.
Close_Anyway ==
    \E f \in Flushes(TRUE) :
       /\ disk' = f.disk
       /\ offset' = 0
       /\ m_buffer_position' = f.left
       /\ torn' = f.torn
       /\ m_file' = FALSE
       /\ result' = f.done
       /\ refusals' = IF f.done THEN refusals ELSE refusals + 1
       /\ UNCHANGED <<m_buffer, writes>>

\* close.  Closing the handle may fail, and does when there is none; the stream
\* forgets it in any case.
Close ==
    \E f \in Flushes(TRUE) :
       \/ Refused(f)
       \/ /\ f.done
          /\ disk' = f.disk
          /\ offset' = 0
          /\ m_buffer_position' = f.left
          /\ torn' = f.torn
          /\ m_file' = FALSE
          /\ result' \in {r \in BOOLEAN : r => m_file}
          /\ UNCHANGED <<m_buffer, writes, refusals>>

\* open closes what is open, and gives up if that is refused.  The file opened
\* is emptied.
Open ==
    \E f \in Flushes(m_file) :
       \/ Refused(f)
       \/ /\ f.done
          /\ disk' = Empty
          /\ offset' = 0
          /\ m_buffer_position' = 0
          /\ torn' = f.torn
          /\ m_file' = TRUE
          /\ result' = TRUE
          /\ UNCHANGED <<m_buffer, writes, refusals>>

\* open when the system refuses, or when closing the handle failed.
OpenFails ==
    \E f \in Flushes(m_file) :
       /\ f.done
       /\ refusals < MaxRefusals
       /\ disk' = f.disk
       /\ offset' = 0
       /\ m_buffer_position' = 0
       /\ torn' = f.torn
       /\ m_file' = FALSE
       /\ result' = FALSE
       /\ refusals' = refusals + 1
       /\ UNCHANGED <<m_buffer, writes>>

Next ==
    \/ \E size \in Sizes : Write(size)
    \/ \E p \in Positions : Seek(p)
    \/ Flush \/ Close \/ Open \/ OpenFails

Spec == Init /\ [][Next]_vars

-----------------------------------------------------------------------------
(* Correctness. *)

\* Every variable has its type, and the buffer is never overrun.
TypeOK ==
    /\ IsFile(disk)
    /\ offset \in Nat
    /\ m_file \in BOOLEAN
    /\ m_buffer \in [0 .. BufferSize - 1 -> Bytes]
    /\ m_buffer_position \in 0 .. BufferSize
    /\ result \in BOOLEAN
    /\ writes \in Nat
    /\ refusals \in Nat
    /\ torn \in BOOLEAN

\* What the caller was told is written is never left in the buffer of a stream
\* without a file, where the next open would drop it: whatever the system
\* refuses, close and open keep the handle until the buffer is on disk.
ClosedIsFlushed == ~m_file => m_buffer_position = 0

\* The file the caller sees: what is buffered follows what is on disk.
Content == Overlay(disk, offset, m_buffer, m_buffer_position)

\* get_position.
GetPosition == IF m_file THEN offset + m_buffer_position ELSE 0

\* get_size.
GetSize == IF m_file THEN disk.size + m_buffer_position ELSE 0

File == INSTANCE ByteFile
            WITH content <- Content, position <- GetPosition, isOpen <- m_file,
                 damaged <- torn

\* Through any mix of small and large writes, seeks, flushes and refusals the
\* stream is a file: every byte is at the position it was written to, a refused
\* write left a prefix, and a write that was refused whole may be tried again.
ImplementsByteFile == File!Spec

-----------------------------------------------------------------------------
(* What the tests say. *)

\* unit-tests.cpp:163-169: the size of the stream is the size of its file, also
\* after a seek back.
SizeExact == m_file => GetSize = Content.size
=============================================================================
