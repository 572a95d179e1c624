----------------------------- MODULE BufferQueue -----------------------------
(***************************************************************************)
(* src/src/container/buffer_queue.{hpp,cpp}: a FIFO of variable-size       *)
(* records laid out in one heap block.  Each record is a length header     *)
(* followed by its payload; m_start and m_end are byte offsets in the      *)
(* block.  Space before m_start is only recovered when a push finds the    *)
(* queue drained, or when clear is called.                                 *)
(*                                                                         *)
(* The model is of several queues of one single-threaded caller, the heap  *)
(* their blocks come from, and the caller's view of them.  A byte of the   *)
(* heap holds which record was written there and at which position of it,  *)
(* so that a lost or overwritten byte is visible.                          *)
(***************************************************************************)
EXTENDS Integers, Sequences, FiniteSets

CONSTANTS Queues,      \* the queue objects
          Blocks,      \* addresses operator new[] can return
          Payloads,    \* what the caller writes behind a length header
          SizeOf,      \* SizeOf[p]: bytes of payload p
          Capacities,  \* arguments of explicit calls of reserve
          Header,      \* sizeof(uint32_t), the length header of a record
          Word,        \* 2^32 in the code: offsets and sizes are uint32_t
          MaxPushes,   \* bound: pushes in a behaviour
          MaxEnd,      \* bound: the largest offset m_end is driven to
          Null         \* nullptr

ASSUME ConstantsOK ==
    /\ Header \in Nat \ {0}
    /\ Word \in Nat \ {0}
    /\ SizeOf \in [Payloads -> 0 .. Word - 1]
    /\ Capacities \subseteq 0 .. Word - 1
    /\ MaxPushes \in Nat
    /\ MaxEnd \in Nat
    /\ Null \notin Blocks

VARIABLES m_buffer,    \* m_buffer[q]: the block of q, or Null
          m_capacity,
          m_start,
          m_end,
          heap,        \* heap[b]: the bytes of block b; a free block has none
          popped,      \* what the latest pop returned
          crashed,     \* the program dereferenced a null pointer
          pushes,      \* number of pushes so far, which names the records
          queued       \* ghost: the records the caller pushed and not yet
                       \* popped, oldest first, with the offset of each

vars == <<m_buffer, m_capacity, m_start, m_end, heap, popped, crashed,
          pushes, queued>>

Records  == [id : 1 .. MaxPushes, payload : Payloads]
NoRecord == [id |-> 0, payload |-> Null]
Cells    == [rec : Records \cup {NoRecord}, byte : Nat]

\* A byte nobody wrote yet.
Garbage  == [rec |-> NoRecord, byte |-> 0]
Free     == [i \in {} |-> Garbage]
IsBlock(bytes) == \E n \in 0 .. Word - 1 : bytes \in [0 .. n - 1 -> Cells]

\* What pop returns: a pointer into a block.  "rec" is what the caller finds
\* in the length header and the payload behind that pointer.
Pointers  == [block : Blocks, index : Nat, rec : Records]
NoPointer == [block |-> Null, index |-> 0, rec |-> NoRecord]

\* uint32_t arithmetic.
Wrap(n) == n % Word

\* Bytes a record takes in a block.
Extent(rec) == SizeOf[rec.payload] + Header

FreeBlocks == {b \in Blocks : heap[b] = Free}

\* The bytes of record rec are all in place at offset index of "bytes".
Holds(bytes, index, rec) ==
    \A i \in index .. index + Extent(rec) - 1 :
        i \in DOMAIN bytes /\ bytes[i] = [rec |-> rec, byte |-> i - index]

-----------------------------------------------------------------------------
(* The storage operations the others are made of. *)

\* Slip: only as many bytes as are queued are copied, from the block's start.
Moved_QueuedSizeOnly(q, capacity, b) ==
    [x \in Blocks |->
        IF x = b THEN [i \in 0 .. capacity - 1 |->
                          IF m_buffer[q] # Null /\ i < m_end[q] - m_start[q]
                          THEN heap[m_buffer[q]][i] ELSE Garbage]
        ELSE IF x = m_buffer[q] THEN Free
        ELSE heap[x]]

\* new uint8_t[capacity], the copy of the first m_capacity bytes, delete[].
Moved(q, capacity, b) ==
    [x \in Blocks |->
        IF x = b THEN [i \in 0 .. capacity - 1 |->
                          IF m_buffer[q] # Null /\ i < m_capacity[q]
                          THEN heap[m_buffer[q]][i] ELSE Garbage]
        ELSE IF x = m_buffer[q] THEN Free
        ELSE heap[x]]

\* The storage of q after reserve(capacity): unchanged unless it must grow.
Reserved(q, capacity) ==
    IF capacity > m_capacity[q]
    THEN {[buffer |-> b, capacity |-> capacity, heap |-> Moved(q, capacity, b)]
            : b \in FreeBlocks}
    ELSE {[buffer |-> m_buffer[q], capacity |-> m_capacity[q], heap |-> heap]}

\* Header and payload of rec stored at offset index; a store past the block
\* hits memory that is not the queue's.
Written(bytes, index, rec) ==
    [i \in DOMAIN bytes |->
        IF i \in index .. index + Extent(rec) - 1
        THEN [rec |-> rec, byte |-> i - index] ELSE bytes[i]]

-----------------------------------------------------------------------------
\* Slip: the constructor does not set m_buffer.
Init_NoBuffer ==
    /\ m_buffer   = [q \in Queues |-> Garbage]
    /\ m_capacity = [q \in Queues |-> 0]
    /\ m_start    = [q \in Queues |-> 0]
    /\ m_end      = [q \in Queues |-> 0]
    /\ heap       = [b \in Blocks |-> Free]
    /\ popped     = NoPointer
    /\ crashed    = FALSE
    /\ pushes     = 0
    /\ queued     = [q \in Queues |-> <<>>]

Init ==
    /\ m_buffer   = [q \in Queues |-> Null]
    /\ m_capacity = [q \in Queues |-> 0]
    /\ m_start    = [q \in Queues |-> 0]
    /\ m_end      = [q \in Queues |-> 0]
    /\ heap       = [b \in Blocks |-> Free]
    /\ popped     = NoPointer
    /\ crashed    = FALSE
    /\ pushes     = 0
    /\ queued     = [q \in Queues |-> <<>>]

\* push(size), and the copy of the payload behind the pointer it returns.
Push(q, payload) ==
    LET drained == m_start[q] = m_end[q]
        index   == IF drained THEN 0 ELSE m_end[q]
        rec     == [id |-> pushes + 1, payload |-> payload]
        newSize == Wrap(index + Extent(rec))
        wanted  == IF newSize > m_capacity[q] THEN Wrap(2 * newSize) ELSE 0
    IN  /\ ~crashed
        /\ pushes < MaxPushes
        /\ index + Extent(rec) <= MaxEnd
        /\ \E s \in Reserved(q, wanted) :
              /\ m_buffer'   = [m_buffer EXCEPT ![q] = s.buffer]
              /\ m_capacity' = [m_capacity EXCEPT ![q] = s.capacity]
              /\ crashed'    = (s.buffer = Null)
              /\ heap' = [b \in Blocks |->
                             IF b = s.buffer
                             THEN Written(s.heap[b], index, rec) ELSE s.heap[b]]
        /\ m_start' = [m_start EXCEPT ![q] = IF drained THEN 0 ELSE @]
        /\ m_end'   = [m_end EXCEPT ![q] = newSize]
        /\ pushes'  = pushes + 1
        /\ queued'  = [queued EXCEPT ![q] = Append(@, [index |-> index, rec |-> rec])]
        /\ UNCHANGED popped

\* Slip: the pointer returned does not add m_start.
Pop_FromBlockStart(q) ==
    /\ ~crashed
    /\ m_start[q] < m_end[q]
    /\ LET rec == heap[m_buffer[q]][m_start[q]].rec
       IN  /\ m_start' = [m_start EXCEPT ![q] = Wrap(@ + Extent(rec))]
           /\ popped'  = [block |-> m_buffer[q], index |-> 0,
                        rec |-> heap[m_buffer[q]][0].rec]
    /\ queued' = [queued EXCEPT ![q] = Tail(@)]
    /\ UNCHANGED <<m_buffer, m_capacity, m_end, heap, crashed, pushes>>

\* pop() on a queue that is not empty: the length is read from the block.
Pop(q) ==
    /\ ~crashed
    /\ m_start[q] < m_end[q]
    /\ LET rec == heap[m_buffer[q]][m_start[q]].rec
       IN  /\ m_start' = [m_start EXCEPT ![q] = Wrap(@ + Extent(rec))]
           /\ popped'  = [block |-> m_buffer[q], index |-> m_start[q], rec |-> rec]
    /\ queued' = [queued EXCEPT ![q] = Tail(@)]
    /\ UNCHANGED <<m_buffer, m_capacity, m_end, heap, crashed, pushes>>

PopEmpty(q) ==
    /\ ~crashed
    /\ m_start[q] >= m_end[q]
    /\ popped' = NoPointer
    /\ UNCHANGED <<m_buffer, m_capacity, m_start, m_end, heap, crashed,
                   pushes, queued>>

\* Slip: clear also frees the block.
Clear_FreesBlock(q) ==
    /\ ~crashed
    /\ m_start' = [m_start EXCEPT ![q] = 0]
    /\ m_end'   = [m_end EXCEPT ![q] = 0]
    /\ queued'  = [queued EXCEPT ![q] = <<>>]
    /\ m_buffer'   = [m_buffer EXCEPT ![q] = Null]
    /\ m_capacity' = [m_capacity EXCEPT ![q] = 0]
    /\ heap' = [b \in Blocks |-> IF b = m_buffer[q] THEN Free ELSE heap[b]]
    /\ UNCHANGED <<popped, crashed, pushes>>

Clear(q) ==
    /\ ~crashed
    /\ m_start' = [m_start EXCEPT ![q] = 0]
    /\ m_end'   = [m_end EXCEPT ![q] = 0]
    /\ queued'  = [queued EXCEPT ![q] = <<>>]
    /\ UNCHANGED <<m_buffer, m_capacity, heap, popped, crashed, pushes>>

Reserve(q, capacity) ==
    /\ ~crashed
    /\ \E s \in Reserved(q, capacity) :
          /\ m_buffer'   = [m_buffer EXCEPT ![q] = s.buffer]
          /\ m_capacity' = [m_capacity EXCEPT ![q] = s.capacity]
          /\ heap'       = s.heap
    /\ UNCHANGED <<m_start, m_end, popped, crashed, pushes, queued>>

\* Slip: the capacities are not exchanged.
Swap_NotCapacity(q, r) ==
    LET Exchanged(f) == [f EXCEPT ![q] = f[r], ![r] = f[q]]
    IN  /\ ~crashed
        /\ m_buffer'   = Exchanged(m_buffer)
        /\ m_capacity' = m_capacity
        /\ m_start'    = Exchanged(m_start)
        /\ m_end'      = Exchanged(m_end)
        /\ queued'     = Exchanged(queued)
        /\ UNCHANGED <<heap, popped, crashed, pushes>>

\* q.swap(r): the four fields change places.
Swap(q, r) ==
    LET Exchanged(f) == [f EXCEPT ![q] = f[r], ![r] = f[q]]
    IN  /\ ~crashed
        /\ m_buffer'   = Exchanged(m_buffer)
        /\ m_capacity' = Exchanged(m_capacity)
        /\ m_start'    = Exchanged(m_start)
        /\ m_end'      = Exchanged(m_end)
        /\ queued'     = Exchanged(queued)
        /\ UNCHANGED <<heap, popped, crashed, pushes>>

\* q = r.  m_capacity is overwritten before reserve(m_capacity) is called, so
\* that reserve finds nothing to do: whenever r has storage the copy goes to a
\* null pointer.  When r has none, q keeps the block it had.
CopyAssign(q, r) ==
    /\ ~crashed
    /\ m_start'    = [m_start EXCEPT ![q] = m_start[r]]
    /\ m_end'      = [m_end EXCEPT ![q] = m_end[r]]
    /\ m_capacity' = [m_capacity EXCEPT ![q] = m_capacity[r]]
    /\ crashed'    = (m_capacity[r] # 0)
    /\ IF m_capacity[r] # 0
       THEN /\ m_buffer' = [m_buffer EXCEPT ![q] = Null]
            /\ heap'     = [b \in Blocks |-> IF b = m_buffer[q] THEN Free ELSE heap[b]]
            /\ UNCHANGED queued
       ELSE /\ queued' = [queued EXCEPT ![q] = queued[r]]
            /\ UNCHANGED <<m_buffer, heap>>
    /\ UNCHANGED <<popped, pushes>>

\* Slip: the source keeps its pointer.
MoveAssign_SourceKeeps(q, r) ==
    LET Taken(f, empty) == [f EXCEPT ![q] = f[r], ![r] = empty]
    IN  /\ ~crashed
        /\ m_start'    = Taken(m_start, 0)
        /\ m_end'      = Taken(m_end, 0)
        /\ m_capacity' = Taken(m_capacity, 0)
        /\ m_buffer'   = [m_buffer EXCEPT ![q] = m_buffer[r]]
        /\ queued'     = Taken(queued, <<>>)
        /\ UNCHANGED <<heap, popped, crashed, pushes>>

\* q = std::move(r).  The block q had is not given back.
MoveAssign(q, r) ==
    LET Taken(f, empty) == [f EXCEPT ![q] = f[r], ![r] = empty]
    IN  /\ ~crashed
        /\ m_start'    = Taken(m_start, 0)
        /\ m_end'      = Taken(m_end, 0)
        /\ m_capacity' = Taken(m_capacity, 0)
        /\ m_buffer'   = Taken(m_buffer, Null)
        /\ queued'     = Taken(queued, <<>>)
        /\ UNCHANGED <<heap, popped, crashed, pushes>>

Next ==
    \E q \in Queues :
        \/ \E payload \in Payloads : Push(q, payload)
        \/ Pop(q)
        \/ PopEmpty(q)
        \/ Clear(q)
        \/ \E capacity \in Capacities : Reserve(q, capacity)
        \/ \E r \in Queues : Swap(q, r) \/ CopyAssign(q, r) \/ MoveAssign(q, r)

Spec == Init /\ [][Next]_vars

-----------------------------------------------------------------------------
(* Correctness. *)

\* Every variable has its type.
TypeOK ==
    /\ m_buffer \in [Queues -> Blocks \cup {Null}]
    /\ m_capacity \in [Queues -> 0 .. Word - 1]
    /\ m_start \in [Queues -> 0 .. Word - 1]
    /\ m_end \in [Queues -> 0 .. Word - 1]
    /\ heap = [b \in Blocks |-> heap[b]] /\ \A b \in Blocks : IsBlock(heap[b])
    /\ popped \in Pointers \cup {NoPointer}
    /\ crashed \in BOOLEAN
    /\ pushes \in 0 .. MaxPushes
    /\ queued \in [Queues -> Seq([index : 0 .. Word - 1, rec : Records])]

\* What test_buffer_queue asserts at every stage of its scenario: the storage
\* is at least as large as what is queued (get_capacity() >= get_size()); and
\* the whole of [0, m_end) lies in the block, which is what keeps every store
\* of push inside it.
CapacityCoversSize ==
    crashed \/ \A q \in Queues :
                   /\ m_capacity[q] >= m_end[q] - m_start[q]
                   /\ m_end[q] <= m_capacity[q]

\* No block belongs to two queues, and a queue with storage has a block that
\* is allocated and large enough: swap, assignment and the free of the old
\* block in reserve never leave a queue on memory it does not own.
Ownership ==
    crashed \/ \A q \in Queues :
        /\ m_buffer[q] # Null => heap[m_buffer[q]] # Free
        /\ m_capacity[q] > 0 =>
              /\ m_buffer[q] # Null
              /\ 0 .. m_capacity[q] - 1 \subseteq DOMAIN heap[m_buffer[q]]
        /\ \A r \in Queues : q # r /\ m_buffer[q] # Null => m_buffer[q] # m_buffer[r]

\* The bytes q can use.
Storage(q) == IF m_buffer[q] = Null THEN Free ELSE heap[m_buffer[q]]

\* The records of s lie one after the other, complete, in [first, last) of
\* "bytes".
Tiling(s, first, last, bytes) ==
    LET end(i) == s[i].index + Extent(s[i].rec)
    IN  /\ IF s = <<>> THEN first = last
           ELSE first = s[1].index /\ end(Len(s)) = last
        /\ \A i \in 1 .. Len(s) :
              /\ first <= s[i].index /\ end(i) <= last
              /\ Holds(bytes, s[i].index, s[i].rec)
              /\ \A j \in i + 1 .. Len(s) :
                    end(i) <= s[j].index /\ (j = i + 1 => end(i) = s[j].index)

\* The bytes between m_start and m_end are the waiting records, in the order
\* they were pushed, each complete: no push, growth, swap or assignment
\* overwrites, drops or moves a record that still waits.
Layout ==
    crashed \/ \A q \in Queues :
        /\ m_start[q] <= m_end[q]
        /\ Tiling(queued[q], m_start[q], m_end[q], Storage(q))

RecordsOf(s) == [i \in 1 .. Len(s) |-> s[i].rec]

\* The queues seen as sequences of records.
Abstract ==
    INSTANCE Fifo WITH
        Nothing  <- Null,
        contents <- [q \in Queues |-> RecordsOf(queued[q])],
        output   <- IF popped = NoPointer THEN Null ELSE popped.rec

\* The queues implement sequences: what pop reads out of the block is the
\* record that was pushed first.
ImplementsFifo == Abstract!Spec
=============================================================================
