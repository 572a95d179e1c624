---------------------------- MODULE QueueProofs -----------------------------
(***************************************************************************)
(* The storage of BufferQueue is safe for any number of queues, blocks and *)
(* payload sizes, as long as offsets stay below half of the machine word.  *)
(* A command queue is a buffer queue, and the data a callback was given    *)
(* stays in place for as long as the promise of CommandQueue lasts.        *)
(***************************************************************************)
EXTENDS CommandQueue, SequenceTheorems, TLAPS

\* No offset a queue is driven to overflows when push doubles it.  The run
\* buffer_queue_overflow shows what happens without this.
NoOverflow == 2 * MaxEnd < Word

Slots == [index : 0 .. Word - 1, rec : Records]

\* The inductive invariant: it is the conjunction of what the runs check.
IInv == TypeOK /\ CapacityCoversSize /\ Ownership /\ Layout

-----------------------------------------------------------------------------
(* Arithmetic and records. *)

\* A number that fits the word is not wrapped.
LEMMA WrapInRange ==
    ASSUME NEW n \in 0 .. Word - 1
    PROVE  Wrap(n) = n
  BY ConstantsOK DEF Wrap, ConstantsOK

\* What is wrapped fits the word.
LEMMA WrapType ==
    ASSUME NEW n \in Nat
    PROVE  Wrap(n) \in 0 .. Word - 1
  BY ConstantsOK DEF Wrap, ConstantsOK

\* A record takes at least its header.
LEMMA ExtentType ==
    ASSUME NEW rec \in Records
    PROVE  Extent(rec) \in Nat \ {0}
  BY ConstantsOK DEF Extent, Records, ConstantsOK

\* The fields of a queued record have their types.
LEMMA SlotType ==
    ASSUME NEW s \in Seq(Slots), NEW i \in 1 .. Len(s)
    PROVE  /\ s[i].index \in Nat /\ s[i].rec \in Records
           /\ Extent(s[i].rec) \in Nat \ {0}
<1>1. s[i] \in Slots BY ElementOfSeq
<1>2. s[i].index \in Nat /\ s[i].rec \in Records BY <1>1, ConstantsOK DEF Slots, ConstantsOK
<1> QED BY <1>2, ExtentType

-----------------------------------------------------------------------------
(* Tiling. *)

\* A record is intact in every block that has the same bytes in its place.
LEMMA HoldsMoved ==
    ASSUME NEW bytes, NEW bytes2, NEW first \in Nat, NEW last \in Nat,
           NEW index \in Nat, NEW rec \in Records,
           first <= index, index + Extent(rec) <= last,
           \A i \in first .. last - 1 :
              i \in DOMAIN bytes => i \in DOMAIN bytes2 /\ bytes2[i] = bytes[i],
           Holds(bytes, index, rec)
    PROVE  Holds(bytes2, index, rec)
<1>1. Extent(rec) \in Nat BY ExtentType
<1>2. \A i \in index .. index + Extent(rec) - 1 : i \in first .. last - 1
  BY <1>1
<1> QED BY <1>2 DEF Holds

\* So is a whole tiling.
LEMMA TilingMoved ==
    ASSUME NEW bytes, NEW bytes2, NEW first \in Nat, NEW last \in Nat,
           NEW s \in Seq(Slots),
           \A i \in first .. last - 1 :
              i \in DOMAIN bytes => i \in DOMAIN bytes2 /\ bytes2[i] = bytes[i],
           Tiling(s, first, last, bytes)
    PROVE  Tiling(s, first, last, bytes2)
<1> SUFFICES ASSUME NEW i \in 1 .. Len(s)
             PROVE  Holds(bytes2, s[i].index, s[i].rec)
  BY DEF Tiling
<1>1. s[i].index \in Nat /\ s[i].rec \in Records
  BY SlotType
<1>2. first <= s[i].index /\ s[i].index + Extent(s[i].rec) <= last
  BY DEF Tiling
<1>3. Holds(bytes, s[i].index, s[i].rec)
  BY DEF Tiling
<1> QED BY <1>1, <1>2, <1>3, HoldsMoved

\* A record written behind the last one extends the tiling.
LEMMA TilingAppend ==
    ASSUME NEW bytes, NEW first \in Nat, NEW last \in 0 .. Word - 1,
           NEW s \in Seq(Slots), NEW rec \in Records,
           first <= last,
           Tiling(s, first, last, bytes),
           Holds(bytes, last, rec)
    PROVE  Tiling(Append(s, [index |-> last, rec |-> rec]),
                  first, last + Extent(rec), bytes)
<1> DEFINE e == [index |-> last, rec |-> rec]
           t == Append(s, e)
<1>1. e \in Slots BY DEF Slots
<1>2. Len(t) = Len(s) + 1 /\ t # <<>> /\ t[Len(s) + 1] = e /\ Len(s) \in Nat
      /\ \A i \in 1 .. Len(s) : t[i] = s[i]
  BY <1>1, AppendProperties, LenProperties
<1>3. Extent(rec) \in Nat \ {0} BY ExtentType
<1>4. \A i \in 1 .. Len(s) : s[i].index \in Nat /\ Extent(s[i].rec) \in Nat
  BY SlotType
<1>5. first = t[1].index /\ t[Len(t)].index + Extent(t[Len(t)].rec) = last + Extent(rec)
  <2>1. CASE s = <<>> BY <2>1, <1>2 DEF Tiling
  <2>2. CASE s # <<>>
    <3>1. 1 \in 1 .. Len(s) BY <2>2, <1>2, EmptySeq
    <3> QED BY <2>2, <3>1, <1>2 DEF Tiling
  <2> QED BY <2>1, <2>2
<1>6. ASSUME NEW i \in 1 .. Len(t)
      PROVE  /\ first <= t[i].index /\ t[i].index + Extent(t[i].rec) <= last + Extent(rec)
             /\ Holds(bytes, t[i].index, t[i].rec)
             /\ \A j \in i + 1 .. Len(t) :
                   /\ t[i].index + Extent(t[i].rec) <= t[j].index
                   /\ j = i + 1 => t[i].index + Extent(t[i].rec) = t[j].index
  <2>1. CASE i = Len(s) + 1 BY <2>1, <1>2, <1>3
  <2>2. CASE i \in 1 .. Len(s)
    <3>1. t[i] = s[i] BY <2>2, <1>2
    <3>2. first <= s[i].index /\ s[i].index + Extent(s[i].rec) <= last
          /\ Holds(bytes, s[i].index, s[i].rec)
      BY <2>2 DEF Tiling
    <3>3. ASSUME NEW j \in i + 1 .. Len(t)
          PROVE  /\ t[i].index + Extent(t[i].rec) <= t[j].index
                 /\ j = i + 1 => t[i].index + Extent(t[i].rec) = t[j].index
      <4>1. CASE j \in 1 .. Len(s)
        <5>1. t[j] = s[j] /\ j \in i + 1 .. Len(s) BY <4>1, <1>2
        <5> QED BY <5>1, <3>1, <2>2 DEF Tiling
      <4>2. CASE j = Len(s) + 1
        <5>1. t[j].index = last BY <4>2, <1>2
        <5>2. CASE j = i + 1
          <6>1. i = Len(s) /\ s # <<>> BY <5>2, <4>2, <2>2, <1>2
          <6> QED BY <6>1, <5>1, <3>1, <1>4, <2>2 DEF Tiling
        <5> QED BY <5>1, <5>2, <3>1, <3>2
      <4> QED BY <4>1, <4>2, <1>2, <2>2
    <3>4. t[i].index + Extent(t[i].rec) <= last + Extent(rec)
      BY <3>1, <3>2, <1>3, <1>4, <2>2
    <3> QED BY <3>1, <3>2, <3>3, <3>4
  <2> QED BY <2>1, <2>2, <1>2
<1> QED BY <1>2, <1>5, <1>6 DEF Tiling

\* The first record goes and the tiling starts at the second.
LEMMA TilingTail ==
    ASSUME NEW bytes, NEW first \in Nat, NEW last \in Nat,
           NEW s \in Seq(Slots), s # <<>>,
           Tiling(s, first, last, bytes)
    PROVE  /\ Tail(s) \in Seq(Slots)
           /\ first + Extent(s[1].rec) <= last
           /\ Tiling(Tail(s), first + Extent(s[1].rec), last, bytes)
<1> DEFINE t == Tail(s)
           next == first + Extent(s[1].rec)
<1>1. t \in Seq(Slots) /\ Len(t) = Len(s) - 1 /\ Len(s) \in Nat \ {0}
      /\ \A i \in 1 .. Len(t) : t[i] = s[i + 1]
  BY HeadTailProperties, EmptySeq
<1>2. s[1].index = first /\ next <= last BY <1>1 DEF Tiling
<1>3. CASE t = <<>>
  <2>1. Len(t) = 0 BY <1>3, EmptySeq
  <2>3. Len(s) \in Nat /\ Len(t) = Len(s) - 1 BY <1>1
  <2> HIDE DEF t
  <2>0. Len(s) = 1 BY <2>1, <2>3
  <2>2. next = last BY <2>0, <1>2 DEF Tiling
  <2> QED BY <1>1, <1>2, <1>3, <2>2 DEF Tiling
<1>4. CASE t # <<>>
  <2>1. Len(t) \in Nat \ {0} BY <1>1, <1>4, EmptySeq
  <2>2. next = t[1].index
    <3>1. 1 \in 1 .. Len(s) /\ 2 \in 1 + 1 .. Len(s) /\ t[1] = s[2] BY <2>1, <1>1
    <3> QED BY <3>1, <1>2 DEF Tiling
  <2>3. t[Len(t)].index + Extent(t[Len(t)].rec) = last
    <3>1. t[Len(t)] = s[Len(s)] BY <2>1, <1>1
    <3> QED BY <3>1 DEF Tiling
  <2>4. ASSUME NEW i \in 1 .. Len(t)
        PROVE  /\ next <= t[i].index /\ t[i].index + Extent(t[i].rec) <= last
               /\ Holds(bytes, t[i].index, t[i].rec)
               /\ \A j \in i + 1 .. Len(t) :
                     /\ t[i].index + Extent(t[i].rec) <= t[j].index
                     /\ j = i + 1 => t[i].index + Extent(t[i].rec) = t[j].index
    <3>1. t[i] = s[i + 1] /\ i + 1 \in 1 .. Len(s) /\ i + 1 \in 1 + 1 .. Len(s)
          /\ 1 \in 1 .. Len(s)
      BY <1>1
    <3>2. next <= t[i].index BY <3>1, <1>2 DEF Tiling
    <3>3. t[i].index + Extent(t[i].rec) <= last /\ Holds(bytes, t[i].index, t[i].rec)
      BY <3>1 DEF Tiling
    <3>4. ASSUME NEW j \in i + 1 .. Len(t)
          PROVE  /\ t[i].index + Extent(t[i].rec) <= t[j].index
                 /\ j = i + 1 => t[i].index + Extent(t[i].rec) = t[j].index
      <4>1. t[j] = s[j + 1] /\ j + 1 \in (i + 1) + 1 .. Len(s)
            /\ (j = i + 1 <=> j + 1 = (i + 1) + 1)
        BY <1>1
      <4> QED BY <4>1, <3>1 DEF Tiling
    <3> QED BY <3>2, <3>3, <3>4
  <2> QED BY <1>1, <1>2, <1>4, <2>2, <2>3, <2>4 DEF Tiling
<1> QED BY <1>3, <1>4

\* A tiling is empty exactly when it covers nothing.
LEMMA TilingEmpty ==
    ASSUME NEW bytes, NEW first \in Nat, NEW last \in Nat,
           NEW s \in Seq(Slots), Tiling(s, first, last, bytes)
    PROVE  s = <<>> <=> first = last
<1>1. CASE s # <<>>
  <2>1. 1 \in 1 .. Len(s) BY <1>1, EmptySeq
  <2>2. Extent(s[1].rec) \in Nat \ {0} /\ s[1].index \in Nat BY <2>1, SlotType
  <2> QED BY <1>1, <2>1, <2>2 DEF Tiling
<1> QED BY <1>1 DEF Tiling
-----------------------------------------------------------------------------
(* The invariant of one queue, and the frame around the step of another. *)

QueueOK(q) ==
    /\ m_start[q] <= m_end[q] /\ m_end[q] <= m_capacity[q]
    /\ m_buffer[q] # Null => heap[m_buffer[q]] # Free
    /\ m_capacity[q] > 0 => /\ m_buffer[q] # Null
                            /\ 0 .. m_capacity[q] - 1 \subseteq DOMAIN heap[m_buffer[q]]
    /\ Tiling(queued[q], m_start[q], m_end[q], Storage(q))

Apart ==
    \A q, r \in Queues : q # r /\ m_buffer[q] # Null => m_buffer[q] # m_buffer[r]

Good == Apart /\ \A q \in Queues : QueueOK(q)

\* What TypeOK says of one queue.
LEMMA QueueType ==
    ASSUME TypeOK, NEW q \in Queues
    PROVE  /\ m_buffer[q] \in Blocks \cup {Null}
           /\ m_start[q] \in 0 .. Word - 1 /\ m_start[q] \in Nat
           /\ m_end[q] \in 0 .. Word - 1 /\ m_end[q] \in Nat
           /\ m_capacity[q] \in 0 .. Word - 1 /\ m_capacity[q] \in Nat
           /\ queued[q] \in Seq(Slots)
<1>1. Word \in Nat BY ConstantsOK DEF ConstantsOK
<1>2. [index : 0 .. Word - 1, rec : Records] = Slots BY DEF Slots
<1>3. m_buffer[q] \in Blocks \cup {Null} BY DEF TypeOK
<1>4. \A n \in 0 .. Word - 1 : n \in Nat BY <1>1
<1>5. m_start[q] \in 0 .. Word - 1 /\ m_end[q] \in 0 .. Word - 1
      /\ m_capacity[q] \in 0 .. Word - 1
  BY DEF TypeOK
<1>6. queued[q] \in Seq(Slots) BY <1>2 DEF TypeOK
<1> QED BY <1>3, <1>4, <1>5, <1>6

\* The two parts of Good give the four invariants.
LEMMA GoodIsInvariant ==
    TypeOK => (IInv <=> (crashed \/ Good))
<1> SUFFICES ASSUME TypeOK PROVE IInv <=> (crashed \/ Good)
  OBVIOUS
<1>3. CASE crashed BY <1>3 DEF IInv, CapacityCoversSize, Ownership, Layout
<1>4. CASE ~crashed
  <2>1. ASSUME IInv PROVE Good
    BY <2>1, <1>4 DEF IInv, CapacityCoversSize, Ownership, Layout, Good, QueueOK, Apart
  <2>2. ASSUME Good PROVE IInv
    <3>1. CapacityCoversSize
      <4> SUFFICES ASSUME NEW q \in Queues
                   PROVE  /\ m_capacity[q] >= m_end[q] - m_start[q]
                          /\ m_end[q] <= m_capacity[q]
        BY DEF CapacityCoversSize
      <4>1. m_start[q] \in Nat /\ m_end[q] \in Nat /\ m_capacity[q] \in Nat BY QueueType
      <4>2. m_end[q] <= m_capacity[q] BY <2>2 DEF Good, QueueOK
      <4> QED BY <4>1, <4>2
    <3>2. Ownership BY <2>2 DEF Good, QueueOK, Apart, Ownership
    <3>3. Layout BY <2>2 DEF Good, QueueOK, Layout
    <3> QED BY <3>1, <3>2, <3>3 DEF IInv
  <2> QED BY <2>1, <2>2, <1>4
<1> QED BY <1>3, <1>4

\* A queue with the fields r had, and with their bytes, has r's invariant.
LEMMA QueueTakes ==
    ASSUME NEW q \in Queues, NEW r \in Queues, QueueOK(r),
           m_buffer'[q] = m_buffer[r], m_capacity'[q] = m_capacity[r],
           m_start'[q] = m_start[r], m_end'[q] = m_end[r], queued'[q] = queued[r],
           m_buffer[r] # Null => heap'[m_buffer[r]] = heap[m_buffer[r]]
    PROVE  QueueOK(q)'
<1>1. Storage(q)' = Storage(r) BY DEF Storage
<1> QED BY <1>1 DEF QueueOK

\* What reserve leaves behind.
LEMMA ReservedFacts ==
    ASSUME TypeOK, Good, NEW q \in Queues, NEW n \in 0 .. Word - 1,
           NEW s \in Reserved(q, n)
    PROVE  /\ s.buffer \in Blocks \cup {Null}
           /\ s.capacity \in 0 .. Word - 1
           /\ s.capacity >= n /\ s.capacity >= m_capacity[q]
           /\ s.heap = [b \in Blocks |-> s.heap[b]]
           /\ \A b \in Blocks : IsBlock(s.heap[b])
           /\ s.buffer # Null => s.heap[s.buffer] # Free
           /\ s.capacity > 0 => /\ s.buffer # Null
                                /\ 0 .. s.capacity - 1 \subseteq DOMAIN s.heap[s.buffer]
           /\ \A i \in 0 .. m_capacity[q] - 1 :
                 s.heap[s.buffer][i] = heap[m_buffer[q]][i]
           /\ \A r \in Queues : r # q /\ m_buffer[r] # Null =>
                 m_buffer[r] # s.buffer /\ s.heap[m_buffer[r]] = heap[m_buffer[r]]
<1>0. /\ m_capacity[q] \in Nat /\ m_capacity[q] \in 0 .. Word - 1
      /\ m_buffer[q] \in Blocks \cup {Null} /\ n \in Nat /\ Null \notin Blocks
      /\ QueueOK(q) /\ Word \in Nat
  BY QueueType, ConstantsOK DEF Good, ConstantsOK
<1>1. CASE n > m_capacity[q]
  <2>1. PICK b \in FreeBlocks :
           s = [buffer |-> b, capacity |-> n, heap |-> Moved(q, n, b)]
    BY <1>1 DEF Reserved
  <2>2. b \in Blocks /\ heap[b] = Free BY DEF FreeBlocks
  <2>3. b # m_buffer[q] BY <2>2, <1>0 DEF QueueOK
  <2>4. \A r \in Queues : m_buffer[r] # Null => m_buffer[r] # b
    BY <2>2 DEF Good, QueueOK
  <2>5. s.buffer = b /\ s.capacity = n /\ s.heap = Moved(q, n, b) BY <2>1
  <2>6. s.heap[b] = [i \in 0 .. n - 1 |->
                        IF m_buffer[q] # Null /\ i < m_capacity[q]
                        THEN heap[m_buffer[q]][i] ELSE Garbage]
    BY <2>2, <2>5 DEF Moved
  <2>7. \A i \in 0 .. m_capacity[q] - 1 :
           m_buffer[q] # Null /\ i \in DOMAIN heap[m_buffer[q]] /\ i \in 0 .. n - 1
    BY <1>0, <1>1 DEF QueueOK
  <2>8. IsBlock(s.heap[b])
    <3>1. ASSUME NEW i \in 0 .. n - 1 PROVE s.heap[b][i] \in Cells
      <4>1. Garbage \in Cells BY DEF Garbage, Cells, NoRecord
      <4>2. CASE m_buffer[q] # Null /\ i < m_capacity[q]
        <5>1. i \in 0 .. m_capacity[q] - 1 BY <4>2, <1>0
        <5>2. m_buffer[q] \in Blocks /\ i \in DOMAIN heap[m_buffer[q]]
          BY <5>1, <2>7, <1>0
        <5>3. PICK k \in 0 .. Word - 1 : heap[m_buffer[q]] \in [0 .. k - 1 -> Cells]
          BY <5>2 DEF TypeOK, IsBlock
        <5>4. heap[m_buffer[q]][i] \in Cells BY <5>2, <5>3
        <5> QED BY <5>4, <4>2, <2>6
      <4> QED BY <4>1, <4>2, <2>6
    <3>2. s.heap[b] \in [0 .. n - 1 -> Cells] BY <3>1, <2>6
    <3> QED BY <3>2 DEF IsBlock
  <2>9. IsBlock(Free) BY <1>0 DEF IsBlock, Free
  <2>10. \A x \in Blocks : IsBlock(s.heap[x])
    BY <2>5, <2>8, <2>9, <2>6 DEF Moved, TypeOK
  <2>11. s.heap[b] # Free
    <3>1. DOMAIN s.heap[b] = 0 .. n - 1 /\ 0 \in 0 .. n - 1 BY <2>6, <1>0, <1>1
    <3>2. DOMAIN Free = {} BY DEF Free
    <3> QED BY <3>1, <3>2
  <2>12. \A r \in Queues : r # q /\ m_buffer[r] # Null =>
                 m_buffer[r] # b /\ s.heap[m_buffer[r]] = heap[m_buffer[r]]
    <3>1. \A r \in Queues : r # q /\ m_buffer[r] # Null => m_buffer[r] # m_buffer[q]
      BY DEF Good, Apart
    <3>2. \A r \in Queues : m_buffer[r] \in Blocks \cup {Null} BY QueueType
    <3> QED BY <3>1, <3>2, <2>4, <2>5 DEF Moved
  <2>13. s.heap = [x \in Blocks |-> s.heap[x]] BY <2>5 DEF Moved
  <2>14. \A i \in 0 .. m_capacity[q] - 1 : s.heap[b][i] = heap[m_buffer[q]][i]
    BY <2>6, <2>7, <1>0
  <2>15. DOMAIN s.heap[b] = 0 .. n - 1 BY <2>6
  <2> QED BY <2>2, <2>5, <2>10, <2>11, <2>12, <2>13, <2>14, <2>15, <1>0, <1>1
<1>2. CASE ~(n > m_capacity[q])
  <2>1. s = [buffer |-> m_buffer[q], capacity |-> m_capacity[q], heap |-> heap]
    BY <1>2 DEF Reserved
  <2>2. s.buffer = m_buffer[q] /\ s.capacity = m_capacity[q] /\ s.heap = heap BY <2>1
  <2>3. heap = [b \in Blocks |-> heap[b]] /\ \A b \in Blocks : IsBlock(heap[b])
    BY DEF TypeOK
  <2>4. \A r \in Queues : r # q /\ m_buffer[r] # Null => m_buffer[r] # m_buffer[q]
    BY DEF Good, Apart
  <2> QED BY <2>2, <2>3, <2>4, <1>0, <1>2 DEF QueueOK
<1> QED BY <1>1, <1>2

-----------------------------------------------------------------------------
(* Every operation preserves the invariant. *)

Safe == TypeOK /\ (crashed \/ Good)

\* A block with no byte is a block.
LEMMA FreeIsBlock == IsBlock(Free)
  BY SMTT(30), ConstantsOK DEF IsBlock, Free, ConstantsOK

\* Queues are safe when they are constructed.
LEMMA InitSafe == Init => Safe
<1> SUFFICES ASSUME Init PROVE Safe
  OBVIOUS
<1>0. Word \in Nat \ {0} /\ MaxPushes \in Nat BY ConstantsOK DEF ConstantsOK
<1>1. IsBlock(Free) BY FreeIsBlock
<1>2. TypeOK
  <2>1. <<>> \in Seq([index : 0 .. Word - 1, rec : Records]) BY EmptySeq
  <2>2. /\ m_buffer \in [Queues -> Blocks \cup {Null}]
        /\ m_capacity \in [Queues -> 0 .. Word - 1]
        /\ m_start \in [Queues -> 0 .. Word - 1]
        /\ m_end \in [Queues -> 0 .. Word - 1]
        /\ queued \in [Queues -> Seq([index : 0 .. Word - 1, rec : Records])]
    BY <1>0, <2>1 DEF Init
  <2>3. heap = [b \in Blocks |-> heap[b]] /\ \A b \in Blocks : IsBlock(heap[b])
    BY <1>1 DEF Init
  <2>4. popped \in Pointers \cup {NoPointer} BY DEF Init
  <2>5. crashed \in BOOLEAN BY DEF Init
  <2>6. pushes \in 0 .. MaxPushes BY <1>0 DEF Init
  <2> QED BY <2>2, <2>3, <2>4, <2>5, <2>6 DEF TypeOK
<1>3. Good
  <2> SUFFICES ASSUME NEW q \in Queues PROVE QueueOK(q)
    BY DEF Good, Apart, Init
  <2>1. queued[q] = <<>> /\ Len(<<>>) = 0 BY EmptySeq DEF Init
  <2>2. Tiling(queued[q], 0, 0, Storage(q)) BY <2>1 DEF Tiling
  <2> QED BY <2>2 DEF Init, QueueOK
<1> QED BY <1>2, <1>3 DEF Safe

\* push: the record goes behind the last one, whether or not the block grows.
LEMMA PushSafe ==
    ASSUME NoOverflow, TypeOK, Good, ~crashed,
           NEW q \in Queues, NEW payload \in Payloads, Push(q, payload)
    PROVE  TypeOK' /\ Good'
<1> DEFINE drained == m_start[q] = m_end[q]
           index   == IF drained THEN 0 ELSE m_end[q]
           rec     == [id |-> pushes + 1, payload |-> payload]
           newSize == Wrap(index + Extent(rec))
           wanted  == IF newSize > m_capacity[q] THEN Wrap(2 * newSize) ELSE 0
           entry   == [index |-> index, rec |-> rec]
<1>0. /\ Word \in Nat \ {0} /\ MaxEnd \in Nat /\ MaxPushes \in Nat /\ Null \notin Blocks
      /\ m_buffer[q] \in Blocks \cup {Null}
      /\ m_start[q] \in Nat /\ m_end[q] \in Nat /\ m_capacity[q] \in Nat
      /\ m_start[q] \in 0 .. Word - 1 /\ m_end[q] \in 0 .. Word - 1
      /\ m_capacity[q] \in 0 .. Word - 1
      /\ queued[q] \in Seq(Slots) /\ QueueOK(q)
  BY QueueType, ConstantsOK DEF ConstantsOK, Good
<1>1. rec \in Records /\ pushes + 1 \in 0 .. MaxPushes
  BY <1>0 DEF Push, Records, TypeOK
<1>2. Extent(rec) \in Nat \ {0} BY <1>1, ExtentType
<1>3. index \in Nat /\ index \in 0 .. Word - 1 BY <1>0
<1>4. index + Extent(rec) <= MaxEnd BY DEF Push
<1>5. newSize = index + Extent(rec) /\ newSize \in Nat \ {0} /\ newSize \in 0 .. Word - 1
      /\ 2 * newSize \in 0 .. Word - 1
  <2>1. index + Extent(rec) \in 0 .. Word - 1 /\ 2 * (index + Extent(rec)) \in 0 .. Word - 1
    BY SMTT(30), <1>0, <1>2, <1>3, <1>4 DEF NoOverflow
  <2>2. newSize = index + Extent(rec) BY <2>1, WrapInRange
  <2> QED BY <2>1, <2>2, <1>2, <1>3
<1>6. wanted \in 0 .. Word - 1 /\ (wanted >= newSize \/ m_capacity[q] >= newSize)
  <2>1. Wrap(2 * newSize) = 2 * newSize BY <1>5, WrapInRange
  <2>2. 0 \in 0 .. Word - 1 BY <1>0
  <2> HIDE DEF newSize
  <2>3. CASE newSize > m_capacity[q] BY <2>1, <2>3, <1>5
  <2>4. CASE ~(newSize > m_capacity[q]) BY <2>2, <2>4, <1>0, <1>5
  <2> QED BY <2>3, <2>4
<1> HIDE DEF wanted
<1>7. PICK s \in Reserved(q, wanted) :
         /\ m_buffer'   = [m_buffer EXCEPT ![q] = s.buffer]
         /\ m_capacity' = [m_capacity EXCEPT ![q] = s.capacity]
         /\ crashed'    = (s.buffer = Null)
         /\ heap' = [b \in Blocks |->
                        IF b = s.buffer
                        THEN Written(s.heap[b], index, rec) ELSE s.heap[b]]
  BY DEF Push, wanted
<1>8. /\ m_start' = [m_start EXCEPT ![q] = IF drained THEN 0 ELSE @]
      /\ m_end'   = [m_end EXCEPT ![q] = newSize]
      /\ pushes'  = pushes + 1
      /\ queued'  = [queued EXCEPT ![q] = Append(@, entry)]
      /\ popped'  = popped
  BY DEF Push
<1> HIDE DEF newSize
<1>9. /\ s.buffer \in Blocks \cup {Null}
      /\ s.capacity \in 0 .. Word - 1
      /\ s.capacity >= wanted /\ s.capacity >= m_capacity[q]
      /\ s.heap = [b \in Blocks |-> s.heap[b]]
      /\ \A b \in Blocks : IsBlock(s.heap[b])
      /\ s.buffer # Null => s.heap[s.buffer] # Free
      /\ s.capacity > 0 => /\ s.buffer # Null
                           /\ 0 .. s.capacity - 1 \subseteq DOMAIN s.heap[s.buffer]
      /\ \A i \in 0 .. m_capacity[q] - 1 :
            s.heap[s.buffer][i] = heap[m_buffer[q]][i]
      /\ \A r \in Queues : r # q /\ m_buffer[r] # Null =>
            m_buffer[r] # s.buffer /\ s.heap[m_buffer[r]] = heap[m_buffer[r]]
  BY <1>6, ReservedFacts
<1>10. newSize <= s.capacity /\ s.capacity > 0
       /\ s.buffer \in Blocks /\ 0 .. s.capacity - 1 \subseteq DOMAIN s.heap[s.buffer]
  <2>1. wanted \in Nat /\ s.capacity \in Nat BY <1>6, <1>9, <1>0
  <2>2. newSize <= s.capacity /\ s.capacity > 0 BY SMTT(30), <2>1, <1>5, <1>6, <1>9, <1>0
  <2> QED BY <2>2, <1>9
<1>11. entry \in Slots BY <1>1, <1>3 DEF Slots
<1>12. Append(queued[q], entry) \in Seq(Slots) BY <1>0, <1>11, AppendProperties
<1>13. \A b \in Blocks : IsBlock(heap'[b])
  <2> SUFFICES ASSUME NEW b \in Blocks PROVE IsBlock(heap'[b])
    OBVIOUS
  <2>1. CASE b # s.buffer BY <2>1, <1>7, <1>9
  <2>2. CASE b = s.buffer
    <3>1. heap'[b] = Written(s.heap[b], index, rec) BY <2>2, <1>7
    <3>2. PICK n \in 0 .. Word - 1 : s.heap[b] \in [0 .. n - 1 -> Cells]
      BY <1>9 DEF IsBlock
    <3>3. ASSUME NEW i \in 0 .. n - 1
          PROVE  heap'[b][i] \in Cells /\ heap'[b][i] = IF i \in index .. index + Extent(rec) - 1
                     THEN [rec |-> rec, byte |-> i - index] ELSE s.heap[b][i]
      <4>1. heap'[b][i] = IF i \in index .. index + Extent(rec) - 1
                          THEN [rec |-> rec, byte |-> i - index] ELSE s.heap[b][i]
        BY <3>1, <3>2 DEF Written
      <4>2. i \in index .. index + Extent(rec) - 1 => i - index \in Nat
        BY <3>2, <1>2, <1>3
      <4> HIDE DEF rec, index
      <4>3. s.heap[b][i] \in Cells BY <3>2
      <4> QED BY <4>1, <4>2, <4>3, <1>1 DEF Cells
    <3>4. heap'[b] \in [0 .. n - 1 -> Cells] BY <3>1, <3>2, <3>3 DEF Written
    <3> QED BY <3>4 DEF IsBlock
  <2> QED BY <2>1, <2>2
<1>14. TypeOK'
  <2>1. m_buffer' \in [Queues -> Blocks \cup {Null}] BY <1>7, <1>9 DEF TypeOK
  <2>2. m_capacity' \in [Queues -> 0 .. Word - 1] BY <1>7, <1>9 DEF TypeOK
  <2>3. m_start' \in [Queues -> 0 .. Word - 1] BY <1>8, <1>0 DEF TypeOK
  <2>4. m_end' \in [Queues -> 0 .. Word - 1] BY <1>8, <1>5 DEF TypeOK
  <2>5. heap' = [b \in Blocks |-> heap'[b]] BY <1>7
  <2>6. popped' \in Pointers \cup {NoPointer} BY <1>8 DEF TypeOK
  <2>7. crashed' \in BOOLEAN BY <1>7
  <2>8. pushes' \in 0 .. MaxPushes BY <1>8, <1>1
  <2>9. queued' \in [Queues -> Seq([index : 0 .. Word - 1, rec : Records])]
    BY <1>8, <1>12 DEF TypeOK, Slots
  <2> QED BY <2>1, <2>2, <2>3, <2>4, <2>5, <2>6, <2>7, <2>8, <2>9, <1>13 DEF TypeOK
<1>15. Apart'
  <2> SUFFICES ASSUME NEW a \in Queues, NEW r \in Queues, a # r, m_buffer'[a] # Null
               PROVE  m_buffer'[a] # m_buffer'[r]
    BY DEF Apart
  <2>1. m_buffer'[q] = s.buffer /\ \A x \in Queues \ {q} : m_buffer'[x] = m_buffer[x]
    BY <1>7 DEF TypeOK
  <2> QED BY <2>1, <1>9, <1>10 DEF Good, Apart
<1>16. QueueOK(q)'
  <2>1. m_buffer'[q] = s.buffer /\ m_capacity'[q] = s.capacity
        /\ m_start'[q] = (IF drained THEN 0 ELSE m_start[q]) /\ m_end'[q] = newSize
        /\ queued'[q] = Append(queued[q], entry)
        /\ heap'[s.buffer] = Written(s.heap[s.buffer], index, rec)
    BY <1>7, <1>8, <1>10 DEF TypeOK
  <2>2. DOMAIN heap'[s.buffer] = DOMAIN s.heap[s.buffer] BY <2>1 DEF Written
  <2>3. s.buffer # Null /\ Storage(q)' = heap'[s.buffer] BY <2>1, <1>10, <1>0 DEF Storage
  <2>4. 0 .. s.capacity - 1 \subseteq DOMAIN heap'[s.buffer] BY <2>2, <1>10
  <2>5. heap'[s.buffer] # Free
    <3>1. s.capacity \in Nat BY <1>9, <1>0
    <3>2. 0 \in DOMAIN heap'[s.buffer] BY <2>4, <3>1, <1>10
    <3>3. DOMAIN Free = {} BY DEF Free
    <3> QED BY <3>2, <3>3
  <2>6. m_start'[q] <= newSize BY <2>1, <1>0, <1>2, <1>5 DEF QueueOK
  <2>7. Holds(heap'[s.buffer], index, rec)
    <3> SUFFICES ASSUME NEW i \in index .. index + Extent(rec) - 1
                 PROVE  /\ i \in DOMAIN heap'[s.buffer]
                        /\ heap'[s.buffer][i] = [rec |-> rec, byte |-> i - index]
      BY DEF Holds
    <3>1. i \in 0 .. s.capacity - 1
      <4>1. s.capacity \in Nat BY <1>9, <1>0
      <4> QED BY <4>1, <1>2, <1>3, <1>5, <1>10
    <3>2. i \in DOMAIN s.heap[s.buffer] BY <3>1, <1>10
    <3> QED BY <2>1, <2>2, <3>2 DEF Written
  <2>8. Tiling(queued[q], m_start'[q], index, heap'[s.buffer])
    <3>1. CASE drained
      <4>1. queued[q] = <<>> BY <3>1, <1>0, TilingEmpty DEF QueueOK
      <4>2. m_start'[q] = 0 /\ index = 0 BY <3>1, <2>1
      <4>3. Len(<<>>) = 0 BY EmptySeq
      <4> QED BY <4>1, <4>2, <4>3 DEF Tiling
    <3>2. CASE ~drained
      <4>1. m_start'[q] = m_start[q] /\ index = m_end[q] BY <3>2, <2>1
      <4>2. m_end[q] <= m_capacity[q] /\ m_capacity[q] > 0
        BY <3>2, <1>0 DEF QueueOK
      <4>3. Storage(q) = heap[m_buffer[q]] BY <4>2, <1>0 DEF QueueOK, Storage
      <4>4. ASSUME NEW i \in m_start[q] .. m_end[q] - 1
            PROVE  i \in DOMAIN heap'[s.buffer] /\ heap'[s.buffer][i] = heap[m_buffer[q]][i]
        <5>1. i \in 0 .. m_capacity[q] - 1 /\ i \in 0 .. s.capacity - 1
              /\ ~(i \in index .. index + Extent(rec) - 1)
          <6>1. s.capacity \in Nat BY <1>9, <1>0
          <6> QED BY SMTT(30), <6>1, <4>1, <4>2, <1>0, <1>2, <1>9
        <5>2. i \in DOMAIN s.heap[s.buffer] BY <5>1, <1>10
        <5>3. heap'[s.buffer][i] = s.heap[s.buffer][i] BY <5>1, <5>2, <2>1 DEF Written
        <5> QED BY <5>1, <5>2, <5>3, <2>2, <1>9
      <4>5. Tiling(queued[q], m_start[q], m_end[q], heap[m_buffer[q]])
        BY <4>3, <1>0 DEF QueueOK
      <4>6. Tiling(queued[q], m_start[q], m_end[q], heap'[s.buffer])
        BY <4>4, <4>5, <1>0, TilingMoved
      <4> QED BY <4>1, <4>6
    <3> QED BY <3>1, <3>2
  <2>9. Tiling(queued'[q], m_start'[q], m_end'[q], heap'[s.buffer])
    <3>1. m_start'[q] \in Nat /\ m_start'[q] <= index BY <2>1, <1>0 DEF QueueOK
    <3>2. Tiling(Append(queued[q], entry), m_start'[q], index + Extent(rec), heap'[s.buffer])
      BY <3>1, <2>7, <2>8, <1>0, <1>1, <1>3, TilingAppend
    <3> QED BY <3>2, <2>1, <1>5
  <2> QED BY <2>1, <2>3, <2>4, <2>5, <2>6, <2>9, <1>10 DEF QueueOK
<1>17. ASSUME NEW r \in Queues, r # q PROVE QueueOK(r)'
  <2>1. m_buffer[r] # Null => heap'[m_buffer[r]] = heap[m_buffer[r]]
    <3>1. m_buffer[r] \in Blocks \cup {Null} BY QueueType
    <3> QED BY <3>1, <1>0, <1>7, <1>9, <1>17
  <2>2. QueueOK(r) BY DEF Good
  <2> QED BY <2>1, <2>2, <1>7, <1>8, <1>17, QueueTakes DEF TypeOK
<1> QED BY <1>14, <1>15, <1>16, <1>17 DEF Good

\* pop: what is read from the block is the record that was pushed first.
LEMMA PopReads ==
    ASSUME TypeOK, Good, NEW q \in Queues, m_start[q] < m_end[q]
    PROVE  /\ queued[q] # <<>> /\ Head(queued[q]) = queued[q][1]
           /\ queued[q][1].rec \in Records
           /\ m_buffer[q] \in Blocks
           /\ heap[m_buffer[q]][m_start[q]].rec = queued[q][1].rec
<1>0. m_start[q] \in Nat /\ m_end[q] \in Nat /\ m_capacity[q] \in Nat
      /\ queued[q] \in Seq(Slots) /\ m_buffer[q] \in Blocks \cup {Null} /\ QueueOK(q)
  BY QueueType DEF Good
<1>1. queued[q] # <<>> BY <1>0, TilingEmpty DEF QueueOK
<1>2. 1 \in 1 .. Len(queued[q]) BY <1>0, <1>1, EmptySeq
<1>3. queued[q][1].rec \in Records /\ Extent(queued[q][1].rec) \in Nat \ {0}
  BY <1>0, <1>2, SlotType
<1>4. m_buffer[q] \in Blocks /\ Storage(q) = heap[m_buffer[q]]
  BY <1>0 DEF QueueOK, Storage
<1>5. m_start[q] = queued[q][1].index
      /\ Holds(Storage(q), queued[q][1].index, queued[q][1].rec)
  BY <1>0, <1>1, <1>2 DEF QueueOK, Tiling
<1>6. m_start[q] \in m_start[q] .. m_start[q] + Extent(queued[q][1].rec) - 1
  BY <1>0, <1>3
<1>7. heap[m_buffer[q]][m_start[q]].rec = queued[q][1].rec
  <2>1. Storage(q)[m_start[q]] = [rec |-> queued[q][1].rec, byte |-> m_start[q] - m_start[q]]
    BY <1>5, <1>6 DEF Holds
  <2> QED BY <2>1, <1>4
<1>8. Head(queued[q]) = queued[q][1] BY <1>0, <1>1
<1> QED BY <1>1, <1>3, <1>4, <1>7, <1>8

\* A pop keeps the queues safe: m_start moves to the next record.
LEMMA PopSafe ==
    ASSUME TypeOK, Good, ~crashed, NEW q \in Queues, Pop(q)
    PROVE  TypeOK' /\ Good'
<1> DEFINE rec == heap[m_buffer[q]][m_start[q]].rec
<1>0. m_start[q] \in Nat /\ m_end[q] \in Nat /\ m_capacity[q] \in Nat
      /\ queued[q] \in Seq(Slots) /\ m_end[q] \in 0 .. Word - 1 /\ Word \in Nat
      /\ QueueOK(q)
  BY QueueType, ConstantsOK DEF Good, ConstantsOK
<1>1. m_start[q] < m_end[q] BY DEF Pop
<1>2. queued[q] # <<>> /\ rec = queued[q][1].rec /\ rec \in Records /\ m_buffer[q] \in Blocks
  BY <1>1, PopReads
<1> HIDE DEF rec
<1>3. Tail(queued[q]) \in Seq(Slots)
      /\ m_start[q] + Extent(rec) <= m_end[q]
      /\ Tiling(Tail(queued[q]), m_start[q] + Extent(rec), m_end[q], Storage(q))
  BY <1>0, <1>2, TilingTail DEF QueueOK
<1>4. Extent(rec) \in Nat BY <1>2, ExtentType
<1>5. m_start[q] + Extent(rec) \in 0 .. Word - 1 BY <1>0, <1>3, <1>4
<1>6. Wrap(m_start[q] + Extent(rec)) = m_start[q] + Extent(rec) BY <1>5, WrapInRange
<1>7. /\ m_start' = [m_start EXCEPT ![q] = Wrap(@ + Extent(rec))]
      /\ popped'  = [block |-> m_buffer[q], index |-> m_start[q], rec |-> rec]
      /\ queued'  = [queued EXCEPT ![q] = Tail(@)]
      /\ UNCHANGED <<m_buffer, m_capacity, m_end, heap, crashed, pushes>>
  BY DEF Pop, rec
<1>8. m_start'[q] = m_start[q] + Extent(rec) /\ queued'[q] = Tail(queued[q])
  BY <1>6, <1>7 DEF TypeOK
<1>9. TypeOK'
  <2>1. m_start' \in [Queues -> 0 .. Word - 1] BY <1>5, <1>6, <1>7 DEF TypeOK
  <2>2. popped' \in Pointers BY <1>0, <1>2, <1>7 DEF Pointers
  <2>3. queued' \in [Queues -> Seq([index : 0 .. Word - 1, rec : Records])]
    BY <1>3, <1>7 DEF TypeOK, Slots
  <2> QED BY <2>1, <2>2, <2>3, <1>7 DEF TypeOK, IsBlock
<1>10. QueueOK(q)'
  <2>1. Storage(q)' = Storage(q) BY <1>7 DEF Storage
  <2> QED BY <2>1, <1>0, <1>3, <1>7, <1>8 DEF QueueOK
<1>11. ASSUME NEW r \in Queues, r # q PROVE QueueOK(r)'
  BY <1>7, <1>11, QueueTakes DEF Good, TypeOK
<1>12. Apart' BY <1>7 DEF Good, Apart
<1> QED BY <1>9, <1>10, <1>11, <1>12 DEF Good

\* An empty queue is tiled by no record, wherever its offsets are.
LEMMA EmptyTiling ==
    ASSUME NEW first, NEW bytes
    PROVE  Tiling(<<>>, first, first, bytes)
  BY EmptySeq DEF Tiling

\* So does a clear.
LEMMA ClearSafe ==
    ASSUME TypeOK, Good, ~crashed, NEW q \in Queues, Clear(q)
    PROVE  TypeOK' /\ Good'
<1>1. /\ m_start' = [m_start EXCEPT ![q] = 0]
      /\ m_end'   = [m_end EXCEPT ![q] = 0]
      /\ queued'  = [queued EXCEPT ![q] = <<>>]
      /\ UNCHANGED <<m_buffer, m_capacity, heap, popped, crashed, pushes>>
  BY DEF Clear
<1>2. 0 \in 0 .. Word - 1 /\ <<>> \in Seq([index : 0 .. Word - 1, rec : Records])
  BY EmptySeq, ConstantsOK DEF ConstantsOK
<1>3. TypeOK' BY <1>1, <1>2 DEF TypeOK, IsBlock
<1>4. QueueOK(q)'
  <2>1. m_start'[q] = 0 /\ m_end'[q] = 0 /\ queued'[q] = <<>> /\ m_capacity[q] \in Nat
    BY <1>1, QueueType DEF TypeOK
  <2>2. Tiling(queued'[q], m_start'[q], m_end'[q], Storage(q)') BY <2>1, EmptyTiling
  <2> QED BY <2>1, <2>2, <1>1 DEF QueueOK, Good
<1>5. ASSUME NEW r \in Queues, r # q PROVE QueueOK(r)'
  BY <1>1, <1>5, QueueTakes DEF Good, TypeOK
<1>6. Apart' BY <1>1 DEF Good, Apart
<1> QED BY <1>3, <1>4, <1>5, <1>6 DEF Good

\* So does a reserve, which may move one queue to a new block.
LEMMA ReserveSafe ==
    ASSUME TypeOK, Good, ~crashed, NEW q \in Queues, NEW n \in Capacities, Reserve(q, n)
    PROVE  TypeOK' /\ Good'
<1>0. n \in 0 .. Word - 1 /\ Word \in Nat /\ Null \notin Blocks /\ QueueOK(q)
      /\ m_start[q] \in Nat /\ m_end[q] \in Nat /\ m_capacity[q] \in Nat
      /\ queued[q] \in Seq(Slots)
  BY QueueType, ConstantsOK DEF ConstantsOK, Good
<1>1. PICK s \in Reserved(q, n) :
         /\ m_buffer'   = [m_buffer EXCEPT ![q] = s.buffer]
         /\ m_capacity' = [m_capacity EXCEPT ![q] = s.capacity]
         /\ heap'       = s.heap
  BY DEF Reserve
<1>2. UNCHANGED <<m_start, m_end, popped, crashed, pushes, queued>> BY DEF Reserve
<1>3. /\ s.buffer \in Blocks \cup {Null}
      /\ s.capacity \in 0 .. Word - 1
      /\ s.capacity >= n /\ s.capacity >= m_capacity[q]
      /\ s.heap = [b \in Blocks |-> s.heap[b]]
      /\ \A b \in Blocks : IsBlock(s.heap[b])
      /\ s.buffer # Null => s.heap[s.buffer] # Free
      /\ s.capacity > 0 => /\ s.buffer # Null
                           /\ 0 .. s.capacity - 1 \subseteq DOMAIN s.heap[s.buffer]
      /\ \A i \in 0 .. m_capacity[q] - 1 :
            s.heap[s.buffer][i] = heap[m_buffer[q]][i]
      /\ \A r \in Queues : r # q /\ m_buffer[r] # Null =>
            m_buffer[r] # s.buffer /\ s.heap[m_buffer[r]] = heap[m_buffer[r]]
  BY SMTT(30), <1>0, ReservedFacts
<1>4. TypeOK' BY <1>1, <1>2, <1>3 DEF TypeOK
<1>5. m_buffer'[q] = s.buffer /\ m_capacity'[q] = s.capacity
      /\ \A r \in Queues \ {q} : m_buffer'[r] = m_buffer[r] /\ m_capacity'[r] = m_capacity[r]
  BY <1>1 DEF TypeOK
<1>6. QueueOK(q)'
  <2>1. s.capacity \in Nat /\ m_end[q] <= s.capacity /\ m_start[q] <= m_end[q]
    BY <1>0, <1>3 DEF QueueOK
  <2>2. Tiling(queued[q], m_start[q], m_end[q], Storage(q)) BY <1>0 DEF QueueOK
  <2>3. \A i \in m_start[q] .. m_end[q] - 1 :
           i \in DOMAIN Storage(q) =>
              i \in DOMAIN Storage(q)' /\ Storage(q)'[i] = Storage(q)[i]
    <3> SUFFICES ASSUME NEW i \in m_start[q] .. m_end[q] - 1
                 PROVE  i \in DOMAIN Storage(q)' /\ Storage(q)'[i] = Storage(q)[i]
      OBVIOUS
    <3>1. i \in 0 .. m_capacity[q] - 1 /\ i \in 0 .. s.capacity - 1
          /\ s.capacity > 0 /\ m_capacity[q] > 0
      BY <1>0, <2>1, <1>3 DEF QueueOK
    <3>2. Storage(q)' = s.heap[s.buffer] BY <3>1, <1>1, <1>3, <1>5 DEF Storage
    <3>3. Storage(q) = heap[m_buffer[q]] BY <3>1, <1>0 DEF Storage, QueueOK
    <3> QED BY <3>1, <3>2, <3>3, <1>3
  <2>4. Tiling(queued[q], m_start[q], m_end[q], Storage(q)')
    BY <2>2, <2>3, <1>0, TilingMoved
  <2> QED BY <2>1, <2>4, <1>1, <1>2, <1>3, <1>5 DEF QueueOK
<1>7. ASSUME NEW r \in Queues, r # q PROVE QueueOK(r)'
  BY <1>1, <1>2, <1>3, <1>5, <1>7, QueueTakes DEF Good
<1>8. Apart'
  <2> SUFFICES ASSUME NEW a \in Queues, NEW r \in Queues, a # r, m_buffer'[a] # Null
               PROVE  m_buffer'[a] # m_buffer'[r]
    BY DEF Apart
  <2> QED BY <1>3, <1>5 DEF Good, Apart
<1> QED BY <1>4, <1>6, <1>7, <1>8 DEF Good

\* So does a swap: the block goes with the offsets.
LEMMA SwapSafe ==
    ASSUME TypeOK, Good, ~crashed, NEW q \in Queues, NEW r \in Queues, Swap(q, r)
    PROVE  TypeOK' /\ Good'
<1> DEFINE other(x) == IF x = q THEN r ELSE IF x = r THEN q ELSE x
<1>1. \A x \in Queues :
         /\ other(x) \in Queues
         /\ m_buffer'[x] = m_buffer[other(x)] /\ m_capacity'[x] = m_capacity[other(x)]
         /\ m_start'[x] = m_start[other(x)] /\ m_end'[x] = m_end[other(x)]
         /\ queued'[x] = queued[other(x)]
  BY DEF Swap, TypeOK
<1>2. UNCHANGED <<heap, popped, crashed, pushes>> BY DEF Swap
<1>3. TypeOK' BY <1>2 DEF Swap, TypeOK, IsBlock
<1>4. \A x, y \in Queues : x # y => other(x) # other(y) OBVIOUS
<1>5. ASSUME NEW x \in Queues PROVE QueueOK(x)'
  <2> HIDE DEF other
  <2>1. other(x) \in Queues /\ QueueOK(other(x)) BY <1>1 DEF Good
  <2> QED BY <2>1, <1>1, <1>2, QueueTakes
<1>6. Apart'
  <2> SUFFICES ASSUME NEW x \in Queues, NEW y \in Queues, x # y, m_buffer'[x] # Null
               PROVE  m_buffer'[x] # m_buffer'[y]
    BY DEF Apart
  <2>1. other(x) # other(y) /\ other(x) \in Queues /\ other(y) \in Queues BY <1>1, <1>4
  <2> HIDE DEF other
  <2> QED BY <2>1, <1>1 DEF Good, Apart
<1> QED BY <1>3, <1>5, <1>6 DEF Good

\* Copying a queue without storage copies an empty queue; copying any other
\* crashes.
LEMMA CopyAssignSafe ==
    ASSUME TypeOK, Good, ~crashed, NEW q \in Queues, NEW r \in Queues, CopyAssign(q, r)
    PROVE  TypeOK' /\ (crashed' \/ Good')
<1>0. m_capacity[r] \in Nat /\ m_start[r] \in Nat /\ m_end[r] \in Nat /\ Word \in Nat \ {0}
      /\ queued[r] \in Seq(Slots) /\ QueueOK(r) /\ m_capacity[q] \in Nat /\ QueueOK(q)
  BY QueueType, ConstantsOK DEF ConstantsOK, Good
<1>1. /\ m_start'    = [m_start EXCEPT ![q] = m_start[r]]
      /\ m_end'      = [m_end EXCEPT ![q] = m_end[r]]
      /\ m_capacity' = [m_capacity EXCEPT ![q] = m_capacity[r]]
      /\ crashed'    = (m_capacity[r] # 0)
      /\ UNCHANGED <<popped, pushes>>
  BY DEF CopyAssign
<1>2. /\ m_start' \in [Queues -> 0 .. Word - 1]
      /\ m_end' \in [Queues -> 0 .. Word - 1]
      /\ m_capacity' \in [Queues -> 0 .. Word - 1]
  BY <1>1 DEF TypeOK
<1>3. crashed' \in BOOLEAN BY <1>1
<1>4. CASE m_capacity[r] # 0
  <2>1. /\ m_buffer' = [m_buffer EXCEPT ![q] = Null]
        /\ heap'     = [b \in Blocks |-> IF b = m_buffer[q] THEN Free ELSE heap[b]]
        /\ UNCHANGED queued
    BY <1>4 DEF CopyAssign
  <2>2. IsBlock(Free) BY FreeIsBlock
  <2>3. m_buffer' \in [Queues -> Blocks \cup {Null}] BY <2>1 DEF TypeOK
  <2>4. heap' = [b \in Blocks |-> heap'[b]] /\ \A b \in Blocks : IsBlock(heap'[b])
    BY <2>1, <2>2 DEF TypeOK
  <2>5. TypeOK' BY <2>1, <2>3, <2>4, <1>1, <1>2, <1>3 DEF TypeOK
  <2> QED BY <2>5, <1>1, <1>4
<1>5. CASE m_capacity[r] = 0
  <2>1. queued' = [queued EXCEPT ![q] = queued[r]] /\ UNCHANGED <<m_buffer, heap>>
    BY <1>5 DEF CopyAssign
  <2>2. m_start[r] = 0 /\ m_end[r] = 0 BY <1>0, <1>5 DEF QueueOK
  <2>3. queued[r] = <<>> BY <1>0, <2>2, TilingEmpty DEF QueueOK
  <2>4. queued' \in [Queues -> Seq([index : 0 .. Word - 1, rec : Records])]
    BY <2>1 DEF TypeOK
  <2>5. TypeOK' BY <2>1, <2>4, <1>1, <1>2, <1>3 DEF TypeOK, IsBlock
  <2>6. QueueOK(q)'
    <3>1. m_start'[q] = 0 /\ m_end'[q] = 0 /\ queued'[q] = <<>> /\ m_capacity'[q] = 0
      BY <1>1, <1>5, <2>1, <2>2, <2>3 DEF TypeOK
    <3>2. Tiling(queued'[q], m_start'[q], m_end'[q], Storage(q)') BY <3>1, EmptyTiling
    <3> QED BY <3>1, <3>2, <2>1, <1>0 DEF QueueOK
  <2>7. ASSUME NEW x \in Queues, x # q PROVE QueueOK(x)'
    BY <1>1, <2>1, <2>7, QueueTakes DEF Good, TypeOK
  <2>8. Apart' BY <2>1 DEF Good, Apart
  <2> QED BY <2>5, <2>6, <2>7, <2>8 DEF Good
<1> QED BY <1>0, <1>4, <1>5

\* So does a move, which leaves the source without a block.
LEMMA MoveAssignSafe ==
    ASSUME TypeOK, Good, ~crashed, NEW q \in Queues, NEW r \in Queues, MoveAssign(q, r)
    PROVE  TypeOK' /\ Good'
<1>0. 0 \in 0 .. Word - 1 /\ <<>> \in Seq([index : 0 .. Word - 1, rec : Records])
  BY EmptySeq, ConstantsOK DEF ConstantsOK
<1>1. UNCHANGED <<heap, popped, crashed, pushes>> BY DEF MoveAssign
<1>2. /\ m_buffer'[r] = Null /\ m_capacity'[r] = 0 /\ m_start'[r] = 0 /\ m_end'[r] = 0
      /\ queued'[r] = <<>>
  BY DEF MoveAssign, TypeOK
<1>3. q # r => /\ m_buffer'[q] = m_buffer[r] /\ m_capacity'[q] = m_capacity[r]
               /\ m_start'[q] = m_start[r] /\ m_end'[q] = m_end[r]
               /\ queued'[q] = queued[r]
  BY DEF MoveAssign, TypeOK
<1>4. \A x \in Queues \ {q, r} :
         /\ m_buffer'[x] = m_buffer[x] /\ m_capacity'[x] = m_capacity[x]
         /\ m_start'[x] = m_start[x] /\ m_end'[x] = m_end[x]
         /\ queued'[x] = queued[x]
  BY DEF MoveAssign, TypeOK
<1>5. TypeOK'
  <2>1. /\ m_buffer' \in [Queues -> Blocks \cup {Null}]
        /\ m_capacity' \in [Queues -> 0 .. Word - 1]
        /\ m_start' \in [Queues -> 0 .. Word - 1]
        /\ m_end' \in [Queues -> 0 .. Word - 1]
    BY <1>0 DEF MoveAssign, TypeOK
  <2>2. queued' \in [Queues -> Seq([index : 0 .. Word - 1, rec : Records])]
    BY <1>0 DEF MoveAssign, TypeOK
  <2> QED BY <2>1, <2>2, <1>1 DEF TypeOK, IsBlock
<1>6. QueueOK(r)'
  <2>1. Tiling(queued'[r], m_start'[r], m_end'[r], Storage(r)') BY <1>2, EmptyTiling
  <2> QED BY <2>1, <1>2 DEF QueueOK
<1>7. q # r => QueueOK(q)' BY <1>1, <1>3, QueueTakes DEF Good
<1>8. ASSUME NEW x \in Queues \ {q, r} PROVE QueueOK(x)'
  BY <1>1, <1>4, <1>8, QueueTakes DEF Good
<1>9. Apart'
  <2> SUFFICES ASSUME NEW x \in Queues, NEW y \in Queues, x # y, m_buffer'[x] # Null
               PROVE  m_buffer'[x] # m_buffer'[y]
    BY DEF Apart
  <2> QED BY <1>2, <1>3, <1>4 DEF Good, Apart
<1> QED BY <1>5, <1>6, <1>7, <1>8, <1>9 DEF Good

-----------------------------------------------------------------------------
(* The theorems. *)

\* Every step keeps the queues safe.
LEMMA NextSafe ==
    ASSUME NoOverflow, Safe, [Next]_vars
    PROVE  Safe'
<1>1. CASE UNCHANGED vars
  <2>1. TypeOK' BY <1>1 DEF Safe, TypeOK, vars, IsBlock
  <2>2. ASSUME Good PROVE Good'
    <3>1. Apart' BY <2>2, <1>1 DEF Good, Apart, vars
    <3>2. ASSUME NEW q \in Queues PROVE QueueOK(q)'
      BY <2>2, <1>1, QueueTakes DEF Good, vars
    <3> QED BY <3>1, <3>2 DEF Good
  <2> QED BY <2>1, <2>2, <1>1 DEF Safe, vars
<1>2. CASE Next
  <2>1. PICK q \in Queues :
           \/ \E payload \in Payloads : Push(q, payload)
           \/ Pop(q)
           \/ PopEmpty(q)
           \/ Clear(q)
           \/ \E capacity \in Capacities : Reserve(q, capacity)
           \/ \E r \in Queues : Swap(q, r) \/ CopyAssign(q, r) \/ MoveAssign(q, r)
    BY <1>2 DEF Next
  <2>2. ~crashed /\ TypeOK /\ Good
    BY <2>1 DEF Safe, Push, Pop, PopEmpty, Clear, Reserve, Swap, CopyAssign, MoveAssign
  <2>3. ASSUME NEW payload \in Payloads, Push(q, payload) PROVE Safe'
    BY <2>2, <2>3, PushSafe DEF Safe
  <2>4. CASE Pop(q) BY <2>2, <2>4, PopSafe DEF Safe
  <2>5. CASE PopEmpty(q)
    <3>1. /\ popped' = NoPointer
          /\ UNCHANGED <<m_buffer, m_capacity, m_start, m_end, heap, crashed, pushes, queued>>
      BY <2>5 DEF PopEmpty
    <3>2. TypeOK' BY <3>1, <2>2 DEF TypeOK, IsBlock
    <3>3. ASSUME NEW x \in Queues PROVE QueueOK(x)'
      BY <2>2, <3>1, QueueTakes DEF Good
    <3>4. Apart' BY <2>2, <3>1 DEF Good, Apart
    <3> QED BY <3>2, <3>3, <3>4 DEF Safe, Good
  <2>6. CASE Clear(q) BY <2>2, <2>6, ClearSafe DEF Safe
  <2>7. ASSUME NEW n \in Capacities, Reserve(q, n) PROVE Safe'
    BY <2>2, <2>7, ReserveSafe DEF Safe
  <2>8. ASSUME NEW r \in Queues, Swap(q, r) PROVE Safe'
    BY <2>2, <2>8, SwapSafe DEF Safe
  <2>9. ASSUME NEW r \in Queues, CopyAssign(q, r) PROVE Safe'
    BY <2>2, <2>9, CopyAssignSafe DEF Safe
  <2>10. ASSUME NEW r \in Queues, MoveAssign(q, r) PROVE Safe'
    BY <2>2, <2>10, MoveAssignSafe DEF Safe
  <2> QED BY <2>1, <2>3, <2>4, <2>5, <2>6, <2>7, <2>8, <2>9, <2>10
<1> QED BY <1>1, <1>2

\* The inductive invariant is the conjunction the runs check.
LEMMA SafeIsIInv == Safe => IInv
  BY GoodIsInvariant DEF Safe

\* TypeOK, CapacityCoversSize, Ownership and Layout hold of every behaviour of
\* the queues, for any queues, blocks, payloads and header size, when no
\* offset passes half of the word.
THEOREM StorageIsSafe ==
    ASSUME NoOverflow
    PROVE  Spec => []IInv
<1>1. Init => Safe BY InitSafe
<1>2. Safe /\ [Next]_vars => Safe' BY NextSafe
<1>3. Safe => IInv BY SafeIsIInv
<1> QED BY <1>1, <1>2, <1>3, PTL DEF Spec

\* Every variable keeps its type: no offset leaves the word, no queue gets a
\* pointer that is not of the heap.
THEOREM TypesHold ==
    ASSUME NoOverflow
    PROVE  Spec => []TypeOK
<1>1. IInv => TypeOK BY DEF IInv
<1> QED BY <1>1, StorageIsSafe, PTL

\* The storage always covers what is queued.
THEOREM CapacityIsEnough ==
    ASSUME NoOverflow
    PROVE  Spec => []CapacityCoversSize
<1>1. IInv => CapacityCoversSize BY DEF IInv
<1> QED BY <1>1, StorageIsSafe, PTL

\* No queue ever uses a block that is freed or that another queue owns.
THEOREM BlocksAreOwned ==
    ASSUME NoOverflow
    PROVE  Spec => []Ownership
<1>1. IInv => Ownership BY DEF IInv
<1> QED BY <1>1, StorageIsSafe, PTL

\* The waiting records stay complete and in order between m_start and m_end.
THEOREM RecordsStayInPlace ==
    ASSUME NoOverflow
    PROVE  Spec => []Layout
<1>1. IInv => Layout BY DEF IInv
<1> QED BY <1>1, StorageIsSafe, PTL

-----------------------------------------------------------------------------
(* Refinement: the queues implement Fifo. *)

\* RecordsOf of a queue is a sequence of records of the same length.
LEMMA RecordsOfType ==
    ASSUME NEW s \in Seq(Slots)
    PROVE  /\ RecordsOf(s) \in Seq(Records) /\ Len(RecordsOf(s)) = Len(s)
           /\ \A i \in 1 .. Len(s) : RecordsOf(s)[i] = s[i].rec
<1>1. Len(s) \in Nat BY LenProperties
<1>2. \A i \in 1 .. Len(s) : s[i].rec \in Records BY SlotType
<1>3. RecordsOf(s) \in [1 .. Len(s) -> Records] BY <1>2 DEF RecordsOf
<1>4. RecordsOf(s) \in Seq(Records) BY <1>1, <1>3, SeqDef
<1>5. Len(RecordsOf(s)) = Len(s) BY <1>1, <1>3, <1>4, LenProperties
<1> QED BY <1>4, <1>5 DEF RecordsOf

\* RecordsOf of an empty queue is empty.
LEMMA RecordsOfEmpty ==
    ASSUME NEW s \in Seq(Slots)
    PROVE  RecordsOf(s) = <<>> <=> s = <<>>
  BY RecordsOfType, EmptySeq

\* RecordsOf commutes with a push,
LEMMA RecordsOfAppend ==
    ASSUME NEW s \in Seq(Slots), NEW e \in Slots
    PROVE  RecordsOf(Append(s, e)) = Append(RecordsOf(s), e.rec)
<1> DEFINE a == RecordsOf(Append(s, e))
           b == Append(RecordsOf(s), e.rec)
<1>0. e.rec \in Records BY DEF Slots
<1>1. Append(s, e) \in Seq(Slots) /\ Len(Append(s, e)) = Len(s) + 1
      /\ (\A i \in 1 .. Len(s) : Append(s, e)[i] = s[i]) /\ Append(s, e)[Len(s) + 1] = e
      /\ Len(s) \in Nat
  BY AppendProperties, LenProperties
<1>2. a \in Seq(Records) /\ Len(a) = Len(s) + 1
      /\ \A i \in 1 .. Len(s) + 1 : a[i] = Append(s, e)[i].rec
  BY <1>1, RecordsOfType
<1>3. RecordsOf(s) \in Seq(Records) /\ Len(RecordsOf(s)) = Len(s)
      /\ \A i \in 1 .. Len(s) : RecordsOf(s)[i] = s[i].rec
  BY RecordsOfType
<1>4. b \in Seq(Records) /\ Len(b) = Len(s) + 1
      /\ (\A i \in 1 .. Len(s) : b[i] = RecordsOf(s)[i]) /\ b[Len(s) + 1] = e.rec
  BY <1>0, <1>3, AppendProperties
<1> HIDE DEF a, b
<1>5. \A i \in 1 .. Len(a) : a[i] = b[i]
  <2> SUFFICES ASSUME NEW i \in 1 .. Len(s) + 1 PROVE a[i] = b[i]
    BY <1>2
  <2>1. CASE i \in 1 .. Len(s) BY <2>1, <1>1, <1>2, <1>3, <1>4
  <2>2. CASE i = Len(s) + 1 BY <2>2, <1>1, <1>2, <1>4
  <2> QED BY <2>1, <2>2, <1>1
<1>6. a = b BY <1>2, <1>4, <1>5, SeqEqual
<1> QED BY <1>6 DEF a, b

\* and with a pop.
LEMMA RecordsOfTail ==
    ASSUME NEW s \in Seq(Slots), s # <<>>
    PROVE  /\ RecordsOf(Tail(s)) = Tail(RecordsOf(s))
           /\ Head(RecordsOf(s)) = s[1].rec
<1> DEFINE a == RecordsOf(Tail(s))
           b == Tail(RecordsOf(s))
<1>1. Tail(s) \in Seq(Slots) /\ Len(Tail(s)) = Len(s) - 1 /\ Len(s) \in Nat \ {0}
      /\ \A i \in 1 .. Len(Tail(s)) : Tail(s)[i] = s[i + 1]
  BY HeadTailProperties, EmptySeq
<1>2. a \in Seq(Records) /\ Len(a) = Len(s) - 1
      /\ \A i \in 1 .. Len(s) - 1 : a[i] = Tail(s)[i].rec
  BY <1>1, RecordsOfType
<1>3. RecordsOf(s) \in Seq(Records) /\ Len(RecordsOf(s)) = Len(s)
      /\ (\A i \in 1 .. Len(s) : RecordsOf(s)[i] = s[i].rec) /\ RecordsOf(s) # <<>>
  BY RecordsOfType, RecordsOfEmpty
<1>4. b \in Seq(Records) /\ Len(b) = Len(s) - 1
      /\ \A i \in 1 .. Len(s) - 1 : b[i] = RecordsOf(s)[i + 1]
  BY <1>3, HeadTailProperties
<1> HIDE DEF a, b
<1>5. \A i \in 1 .. Len(a) : a[i] = b[i]
  <2> SUFFICES ASSUME NEW i \in 1 .. Len(s) - 1 PROVE a[i] = b[i]
    BY <1>2
  <2>1. i + 1 \in 1 .. Len(s) BY <1>1
  <2> QED BY <2>1, <1>1, <1>2, <1>3, <1>4
<1>6. a = b BY <1>2, <1>4, <1>5, SeqEqual
<1>7. Head(RecordsOf(s)) = s[1].rec
  <2>1. 1 \in 1 .. Len(s) BY <1>1
  <2>2. Head(RecordsOf(s)) = RecordsOf(s)[1] BY <1>3
  <2> QED BY <2>1, <2>2, <1>3
<1> QED BY <1>6, <1>7 DEF a, b

\* Every step of the queues is a step of Fifo, or leaves it as it is.
LEMMA StepRefines ==
    ASSUME NoOverflow, Safe, [Next]_vars
    PROVE  [Abstract!Next]_(Abstract!vars)
<1> DEFINE C == [q \in Queues |-> RecordsOf(queued[q])]
           O == IF popped = NoPointer THEN Null ELSE popped.rec
<1>a. queued' = queued /\ popped' = popped => [Abstract!Next]_(Abstract!vars)
  BY DEF Abstract!vars
<1>1. CASE UNCHANGED vars BY <1>1, <1>a DEF vars
<1>2. CASE Next
  <2>1. PICK q \in Queues :
           \/ \E payload \in Payloads : Push(q, payload)
           \/ Pop(q)
           \/ PopEmpty(q)
           \/ Clear(q)
           \/ \E capacity \in Capacities : Reserve(q, capacity)
           \/ \E r \in Queues : Swap(q, r) \/ CopyAssign(q, r) \/ MoveAssign(q, r)
    BY <1>2 DEF Next
  <2>2. ~crashed /\ TypeOK /\ Good
    BY <2>1 DEF Safe, Push, Pop, PopEmpty, Clear, Reserve, Swap, CopyAssign, MoveAssign
  <2>0. \A x \in Queues : queued[x] \in Seq(Slots) BY <2>2, QueueType
  <2>t. queued = [x \in Queues |-> queued[x]] BY <2>2 DEF TypeOK
  <2>3. ASSUME NEW payload \in Payloads, Push(q, payload) PROVE Abstract!Next
    <3> DEFINE index == IF m_start[q] = m_end[q] THEN 0 ELSE m_end[q]
               rec   == [id |-> pushes + 1, payload |-> payload]
               entry == [index |-> index, rec |-> rec]
    <3>1. queued' = [queued EXCEPT ![q] = Append(@, entry)] /\ popped' = popped
      BY <2>3 DEF Push
    <3>2. rec \in Records
      BY <2>2, <2>3, ConstantsOK DEF Push, Records, TypeOK, ConstantsOK
    <3>3. entry \in Slots
      <4>1. index \in 0 .. Word - 1
        BY <2>2, QueueType, ConstantsOK DEF ConstantsOK
      <4> QED BY <3>2, <4>1 DEF Slots
    <3>4. RecordsOf(Append(queued[q], entry)) = Append(RecordsOf(queued[q]), rec)
      BY <2>0, <3>3, RecordsOfAppend
    <3>5. C' = [C EXCEPT ![q] = Append(@, rec)] BY <3>1, <3>4, <2>t
    <3>6. Abstract!Push(q, rec) BY <3>1, <3>5 DEF Abstract!Push
    <3> QED BY <3>2, <3>6 DEF Abstract!Next
  <2>4. ASSUME Pop(q) PROVE Abstract!Next
    <3>1. m_start[q] < m_end[q] BY <2>4 DEF Pop
    <3>2. queued[q] # <<>> /\ queued[q][1].rec \in Records /\ m_buffer[q] \in Blocks
          /\ heap[m_buffer[q]][m_start[q]].rec = queued[q][1].rec
      BY <2>2, <3>1, PopReads
    <3>3. popped' = [block |-> m_buffer[q], index |-> m_start[q], rec |-> queued[q][1].rec]
          /\ queued' = [queued EXCEPT ![q] = Tail(@)]
      BY <2>4, <3>2 DEF Pop
    <3>4. RecordsOf(Tail(queued[q])) = Tail(RecordsOf(queued[q]))
          /\ Head(RecordsOf(queued[q])) = queued[q][1].rec
          /\ RecordsOf(queued[q]) # <<>>
      BY <2>0, <3>2, RecordsOfTail, RecordsOfEmpty
    <3>5. O' = queued[q][1].rec
      <4>1. popped'.block # NoPointer.block BY <3>2, <3>3, ConstantsOK DEF NoPointer, ConstantsOK
      <4> QED BY <4>1, <3>3
    <3>6. C' = [C EXCEPT ![q] = Tail(@)] BY <3>3, <3>4, <2>t
    <3>7. Abstract!Pop(q) BY <3>4, <3>5, <3>6 DEF Abstract!Pop
    <3> QED BY <3>7 DEF Abstract!Next
  <2>5. ASSUME PopEmpty(q) PROVE Abstract!Next
    <3>1. m_start[q] >= m_end[q] /\ popped' = NoPointer /\ queued' = queued
      BY <2>5 DEF PopEmpty
    <3>2. m_start[q] \in Nat /\ m_end[q] \in Nat /\ QueueOK(q) BY <2>2, QueueType DEF Good
    <3>3. queued[q] = <<>> BY <3>1, <3>2, <2>0, TilingEmpty DEF QueueOK
    <3>4. RecordsOf(queued[q]) = <<>> BY <3>3, <2>0, RecordsOfEmpty
    <3>5. Abstract!PopEmpty(q) BY <3>1, <3>4 DEF Abstract!PopEmpty
    <3> QED BY <3>5 DEF Abstract!Next
  <2>6. ASSUME Clear(q) PROVE Abstract!Next
    <3>1. queued' = [queued EXCEPT ![q] = <<>>] /\ popped' = popped BY <2>6 DEF Clear
    <3>2. RecordsOf(<<>>) = <<>> BY EmptySeq, RecordsOfEmpty
    <3>3. C' = [C EXCEPT ![q] = <<>>] BY <3>1, <3>2, <2>t
    <3>4. Abstract!Clear(q) BY <3>1, <3>3 DEF Abstract!Clear
    <3> QED BY <3>4 DEF Abstract!Next
  <2>7. ASSUME NEW n \in Capacities, Reserve(q, n) PROVE [Abstract!Next]_(Abstract!vars)
    <3>1. queued' = queued /\ popped' = popped BY <2>7 DEF Reserve
    <3> QED BY <3>1, <1>a
  <2>8. ASSUME NEW r \in Queues, Swap(q, r) PROVE Abstract!Next
    <3>1. queued' = [queued EXCEPT ![q] = queued[r], ![r] = queued[q]] /\ popped' = popped
      BY <2>8 DEF Swap
    <3>2. C' = [C EXCEPT ![q] = C[r], ![r] = C[q]] BY <3>1, <2>t
    <3>3. Abstract!Swap(q, r) BY <3>1, <3>2 DEF Abstract!Swap
    <3> QED BY <3>3 DEF Abstract!Next
  <2>9. ASSUME NEW r \in Queues, CopyAssign(q, r) PROVE [Abstract!Next]_(Abstract!vars)
    <3>1. CASE m_capacity[r] # 0
      <4>1. queued' = queued /\ popped' = popped BY <2>9, <3>1 DEF CopyAssign
      <4> QED BY <4>1, <1>a
    <3>2. CASE m_capacity[r] = 0
      <4>1. queued' = [queued EXCEPT ![q] = queued[r]] /\ popped' = popped
        BY <2>9, <3>2 DEF CopyAssign
      <4>2. C' = [C EXCEPT ![q] = C[r]] BY <4>1, <2>t
      <4>3. Abstract!Assign(q, r) BY <4>1, <4>2 DEF Abstract!Assign
      <4> QED BY <4>3 DEF Abstract!Next
    <3> QED BY <3>1, <3>2
  <2>10. ASSUME NEW r \in Queues, MoveAssign(q, r) PROVE Abstract!Next
    <3>1. queued' = [queued EXCEPT ![q] = queued[r], ![r] = <<>>] /\ popped' = popped
      BY <2>10 DEF MoveAssign
    <3>2. RecordsOf(<<>>) = <<>> BY EmptySeq, RecordsOfEmpty
    <3>3. C' = [C EXCEPT ![q] = C[r], ![r] = <<>>] BY <3>1, <3>2, <2>t
    <3>4. Abstract!Move(q, r) BY <3>1, <3>3 DEF Abstract!Move
    <3> QED BY <3>4 DEF Abstract!Next
  <2> QED BY <2>1, <2>3, <2>4, <2>5, <2>6, <2>7, <2>8, <2>9, <2>10
<1> QED BY <1>1, <1>2

\* The byte-level queues implement the abstract ones: pop returns, in order and
\* unaltered, exactly what was pushed.
THEOREM QueuesAreFifo ==
    ASSUME NoOverflow
    PROVE  Spec => ImplementsFifo
<1>1. Init => Abstract!Init
  <2> SUFFICES ASSUME Init PROVE Abstract!Init
    OBVIOUS
  <2>1. RecordsOf(<<>>) = <<>> BY EmptySeq, RecordsOfEmpty
  <2> QED BY <2>1 DEF Init, Abstract!Init
<1>2. Safe /\ [Next]_vars => [Abstract!Next]_(Abstract!vars) BY StepRefines
<1>3. Init => Safe BY InitSafe
<1>4. Safe /\ [Next]_vars => Safe' BY NextSafe
<1> QED BY <1>1, <1>2, <1>3, <1>4, PTL DEF Spec, ImplementsFifo, Abstract!Spec

-----------------------------------------------------------------------------
(* Command queues *)

\* Seen from its storage, a step of command queues is a step of buffer queues.
LEMMA CommandStep ==
    ASSUME [CommandNext]_commandVars
    PROVE  [Next]_vars
  BY DEF CommandNext, commandVars, Next, vars, PushCommand, PopCommand, PopNothing,
         Return, ClearCommands, ReserveCommands, SwapCommands, AssignCommands

\* Every theorem about BufferQueue holds of CommandQueue.
THEOREM CommandQueueIsBufferQueue == CommandSpec => Spec
<1>1. CommandInit => Init BY DEF CommandInit
<1> QED BY <1>1, CommandStep, PTL DEF CommandSpec, Spec

-----------------------------------------------------------------------------
(* What is true of a running callback that still has the promise. *)

CallSafe(c) ==
    c.promised /\ c.argument # NoPointer =>
        /\ Holds(heap[c.argument.block], c.argument.index, c.rec)
        /\ \A q \in Queues :
              m_buffer[q] = c.argument.block =>
                 \/ m_start[q] = m_end[q]
                 \/ c.argument.index + Extent(c.rec) <= m_start[q]

CommandsSafe ==
    /\ Safe
    /\ calls \in Seq(Calls)
    /\ crashed \/ \A i \in DOMAIN calls : CallSafe(calls[i])

\* The argument of a callback that was promised one is a place in a block.
LEMMA ArgumentType ==
    ASSUME NEW c \in Calls, c.argument # NoPointer
    PROVE  /\ c.argument.block \in Blocks /\ c.argument.index \in Nat
           /\ c.rec \in Records /\ Extent(c.rec) \in Nat \ {0}
<1>1. c.argument \in Pointers /\ c.rec \in Records BY DEF Calls
<1>2. Extent(c.rec) \in Nat \ {0} BY <1>1, ExtentType
<1> QED BY <1>1, <1>2 DEF Pointers

\* A block with an intact record is allocated.
LEMMA HoldsIsLive ==
    ASSUME NEW bytes, NEW index \in Nat, NEW rec \in Records, Holds(bytes, index, rec)
    PROVE  bytes # Free
<1>1. Extent(rec) \in Nat \ {0} BY ExtentType
<1>2. index \in index .. index + Extent(rec) - 1 BY <1>1
<1>3. index \in DOMAIN bytes BY <1>2 DEF Holds
<1> QED BY <1>3 DEF Free

\* reserve leaves the other blocks alone, and its own when it need not grow.
LEMMA ReservedKeeps ==
    ASSUME TypeOK, Good, NEW q \in Queues, NEW n, NEW s \in Reserved(q, n),
           NEW b \in Blocks, heap[b] # Free,
           b # m_buffer[q] \/ s.buffer = m_buffer[q]
    PROVE  s.heap[b] = heap[b] /\ (b # m_buffer[q] => b # s.buffer)
<1>1. CASE n > m_capacity[q]
  <2>1. PICK x \in FreeBlocks :
           s = [buffer |-> x, capacity |-> n, heap |-> Moved(q, n, x)]
    BY <1>1 DEF Reserved
  <2>2. x \in Blocks /\ heap[x] = Free BY DEF FreeBlocks
  <2>3. x # m_buffer[q] BY <2>2, ConstantsOK DEF Good, QueueOK, ConstantsOK
  <2>4. s.buffer = x /\ s.heap = Moved(q, n, x) BY <2>1
  <2> QED BY <2>2, <2>3, <2>4 DEF Moved
<1>2. CASE ~(n > m_capacity[q])
  BY <1>2 DEF Reserved
<1> QED BY <1>1, <1>2

\* A push keeps the data of a callback unless it takes the promise back.
LEMMA PushKeepsCall ==
    ASSUME TypeOK, Good, NEW q \in Queues, NEW payload \in Payloads, Push(q, payload),
           NEW c \in Calls, CallSafe(c), c.promised, c.argument # NoPointer,
           \/ c.argument.block # m_buffer[q]
           \/ m_start[q] # m_end[q] /\ m_buffer'[q] = m_buffer[q]
    PROVE  CallSafe(c)'
<1> DEFINE b == c.argument.block
           index   == IF m_start[q] = m_end[q] THEN 0 ELSE m_end[q]
           rec     == [id |-> pushes + 1, payload |-> payload]
           newSize == Wrap(index + Extent(rec))
           wanted  == IF newSize > m_capacity[q] THEN Wrap(2 * newSize) ELSE 0
<1>0. /\ b \in Blocks /\ c.argument.index \in Nat /\ c.rec \in Records
      /\ Extent(c.rec) \in Nat \ {0} /\ m_start[q] \in Nat /\ m_end[q] \in Nat
      /\ m_start[q] <= m_end[q] /\ Holds(heap[b], c.argument.index, c.rec)
      /\ heap[b] # Free
  BY ArgumentType, HoldsIsLive, QueueType DEF Good, QueueOK, CallSafe
<1>1. PICK s \in Reserved(q, wanted) :
         /\ m_buffer' = [m_buffer EXCEPT ![q] = s.buffer]
         /\ heap' = [x \in Blocks |->
                       IF x = s.buffer THEN Written(s.heap[x], index, rec) ELSE s.heap[x]]
  BY DEF Push
<1>2. /\ m_start' = [m_start EXCEPT ![q] = IF m_start[q] = m_end[q] THEN 0 ELSE @]
      /\ m_end' = [m_end EXCEPT ![q] = newSize]
  BY DEF Push
<1> HIDE DEF newSize, wanted
<1>3. m_buffer'[q] = s.buffer /\ \A r \in Queues \ {q} : m_buffer'[r] = m_buffer[r]
  BY <1>1 DEF TypeOK
<1>4. s.heap[b] = heap[b] /\ (b # m_buffer[q] => b # s.buffer)
  BY <1>0, <1>3, ReservedKeeps
<1>5. CASE b # m_buffer[q]
  <2>1. heap'[b] = heap[b] /\ b # s.buffer BY <1>0, <1>1, <1>4, <1>5
  <2>2. ASSUME NEW r \in Queues, m_buffer'[r] = b
        PROVE  m_buffer[r] = b /\ m_start'[r] = m_start[r] /\ m_end'[r] = m_end[r]
    BY <2>1, <2>2, <1>2, <1>3 DEF TypeOK
  <2> QED BY <2>1, <2>2 DEF CallSafe
<1>6. CASE b = m_buffer[q]
  <2>1. m_start[q] # m_end[q] /\ s.buffer = b /\ index = m_end[q] BY <1>3, <1>6
  <2>2. c.argument.index + Extent(c.rec) <= m_start[q] BY <2>1, <1>6 DEF CallSafe
  <2>3. heap'[b] = Written(heap[b], index, rec) BY <2>1, <1>0, <1>1, <1>4
  <2>4. ASSUME NEW i \in c.argument.index .. c.argument.index + Extent(c.rec) - 1
        PROVE  /\ i \in DOMAIN heap'[b]
               /\ heap'[b][i] = [rec |-> c.rec, byte |-> i - c.argument.index]
    <3>1. i \in DOMAIN heap[b] /\ heap[b][i] = [rec |-> c.rec, byte |-> i - c.argument.index]
      BY <1>0 DEF Holds
    <3>2. i < index BY <2>1, <2>2, <1>0
    <3>3. ~(i \in index .. index + Extent(rec) - 1) BY <3>2, <2>1, <1>0
    <3> QED BY <3>1, <3>3, <2>3 DEF Written
  <2>5. Holds(heap'[b], c.argument.index, c.rec) BY <2>4 DEF Holds
  <2>6. ASSUME NEW r \in Queues, m_buffer'[r] = b PROVE r = q
    <3>1. r # q => m_buffer[r] = b BY <2>6, <1>3
    <3> QED BY <3>1, <1>0, <1>6, ConstantsOK DEF Good, Apart, ConstantsOK
  <2>7. m_start'[q] = m_start[q] BY <1>2, <2>1 DEF TypeOK
  <2> QED BY <2>2, <2>5, <2>6, <2>7 DEF CallSafe
<1> QED BY <1>5, <1>6

\* A reserve keeps the data of a callback, except in a block it gives back.
LEMMA ReserveKeepsCall ==
    ASSUME TypeOK, Good, NEW q \in Queues, NEW n, Reserve(q, n),
           NEW c \in Calls, CallSafe(c), c.promised, c.argument # NoPointer,
           c.argument.block # m_buffer[q] \/ m_buffer'[q] = m_buffer[q]
    PROVE  CallSafe(c)'
<1> DEFINE b == c.argument.block
<1>0. b \in Blocks /\ heap[b] # Free BY ArgumentType, HoldsIsLive DEF CallSafe
<1>1. PICK s \in Reserved(q, n) : m_buffer' = [m_buffer EXCEPT ![q] = s.buffer] /\ heap' = s.heap
  BY DEF Reserve
<1>2. m_start' = m_start /\ m_end' = m_end BY DEF Reserve
<1>3. m_buffer'[q] = s.buffer /\ \A r \in Queues \ {q} : m_buffer'[r] = m_buffer[r]
  BY <1>1 DEF TypeOK
<1>4. heap'[b] = heap[b] /\ (b # m_buffer[q] => b # s.buffer)
  BY <1>0, <1>1, <1>3, ReservedKeeps
<1>5. ASSUME NEW r \in Queues, m_buffer'[r] = b PROVE m_buffer[r] = b
  BY <1>3, <1>4, <1>5
<1> QED BY <1>2, <1>4, <1>5 DEF CallSafe

\* The callback pop enters has its data in place, and pop disturbs no other.
LEMMA PopKeepsCalls ==
    ASSUME TypeOK, Good, ~crashed, NEW q \in Queues, Pop(q)
    PROVE  /\ popped' \in Pointers /\ Call(popped') \in Calls
           /\ \A c \in Calls : c = Call(popped') => CallSafe(c)'
           /\ \A c \in Calls : CallSafe(c) => CallSafe(c)'
<1> DEFINE rec == queued[q][1].rec
<1>0. /\ m_start[q] \in Nat /\ m_end[q] \in Nat /\ m_end[q] \in 0 .. Word - 1 /\ Word \in Nat
      /\ queued[q] \in Seq(Slots) /\ QueueOK(q) /\ Null \notin Blocks
  BY QueueType, ConstantsOK DEF Good, ConstantsOK
<1>1. m_start[q] < m_end[q] BY DEF Pop
<1>2. /\ queued[q] # <<>> /\ rec \in Records /\ m_buffer[q] \in Blocks
      /\ heap[m_buffer[q]][m_start[q]].rec = rec
  BY <1>1, PopReads
<1>3. Extent(rec) \in Nat \ {0} /\ m_start[q] + Extent(rec) <= m_end[q]
  BY <1>0, <1>2, ExtentType, TilingTail DEF QueueOK
<1>4. Wrap(m_start[q] + Extent(rec)) = m_start[q] + Extent(rec)
  <2>1. m_start[q] + Extent(rec) \in 0 .. Word - 1 BY <1>0, <1>3
  <2> QED BY <2>1, WrapInRange
<1>5. /\ popped' = [block |-> m_buffer[q], index |-> m_start[q], rec |-> rec]
      /\ m_start' = [m_start EXCEPT ![q] = m_start[q] + Extent(rec)]
      /\ UNCHANGED <<m_buffer, m_end, heap>>
  BY <1>2, <1>4 DEF Pop
<1>6. Holds(heap[m_buffer[q]], m_start[q], rec)
  <2>1. 1 \in 1 .. Len(queued[q]) BY <1>0, <1>2, EmptySeq
  <2>2. Storage(q) = heap[m_buffer[q]] BY <1>0, <1>2 DEF Storage
  <2> QED BY <2>1, <2>2, <1>0, <1>2 DEF QueueOK, Tiling
<1> HIDE DEF rec
<1>7. popped' \in Pointers BY <1>0, <1>2, <1>5 DEF Pointers
<1>8. Call(popped') \in Calls BY <1>7 DEF Call, Calls, Pointers
<1>9. m_start'[q] = m_start[q] + Extent(rec) /\ \A r \in Queues \ {q} : m_start'[r] = m_start[r]
  BY <1>5 DEF TypeOK
<1>10. ASSUME NEW c \in Calls, c = Call(popped') PROVE CallSafe(c)'
  <2> SUFFICES ASSUME c.argument # NoPointer
               PROVE  CallSafe(c)'
    BY DEF CallSafe
  <2>1. c.argument = popped' /\ c.rec = rec BY <1>5, <1>10 DEF Call
  <2>2. \A r \in Queues : m_buffer[r] = m_buffer[q] => r = q
    BY <1>0, <1>2 DEF Good, Apart
  <2>3. \A r \in Queues : m_buffer'[r] = m_buffer[q] =>
           m_start[q] + Extent(rec) <= m_start'[r]
    BY <2>2, <1>0, <1>3, <1>5, <1>9
  <2> QED BY <2>1, <2>3, <1>5, <1>6 DEF CallSafe
<1>11. ASSUME NEW c \in Calls, CallSafe(c) PROVE CallSafe(c)'
  <2> SUFFICES ASSUME c.promised, c.argument # NoPointer
               PROVE  CallSafe(c)'
    BY DEF CallSafe
  <2>1. c.argument.index \in Nat /\ Extent(c.rec) \in Nat BY ArgumentType
  <2>2. ASSUME NEW r \in Queues, m_buffer[r] = c.argument.block
        PROVE  m_start'[r] = m_end'[r] \/ c.argument.index + Extent(c.rec) <= m_start'[r]
    <3>1. m_start[r] = m_end[r] \/ c.argument.index + Extent(c.rec) <= m_start[r]
      BY <2>2, <1>11 DEF CallSafe
    <3>2. CASE r = q BY <3>1, <3>2, <2>1, <1>0, <1>1, <1>3, <1>9
    <3>3. CASE r # q BY <3>1, <3>3, <1>5, <1>9
    <3> QED BY <3>2, <3>3
  <2> QED BY <2>2, <1>5, <1>11 DEF CallSafe
<1> QED BY <1>7, <1>8, <1>10, <1>11

-----------------------------------------------------------------------------
(* The invariant of command queues. *)

\* Revoked changes only the promise of each callback.
LEMMA RevokedCalls ==
    ASSUME calls \in Seq(Calls), NEW b
    PROVE  /\ Revoked(b) \in Seq(Calls)
           /\ DOMAIN Revoked(b) = DOMAIN calls
           /\ \A i \in DOMAIN calls :
                 Revoked(b)[i] = [calls[i] EXCEPT !.promised = @ /\ calls[i].argument.block # b]
<1>1. Len(calls) \in Nat /\ DOMAIN calls = 1 .. Len(calls)
      /\ \A i \in 1 .. Len(calls) : calls[i] \in Calls
  BY LenProperties, ElementOfSeq
<1>2. \A i \in 1 .. Len(calls) :
         [calls[i] EXCEPT !.promised = @ /\ calls[i].argument.block # b] \in Calls
  BY <1>1 DEF Calls
<1>3. Revoked(b) \in [1 .. Len(calls) -> Calls] BY <1>1, <1>2 DEF Revoked
<1>4. Revoked(b) \in Seq(Calls) BY <1>1, <1>3, SeqDef
<1> QED BY <1>1, <1>4 DEF Revoked

\* A callback whose block is touched loses the promise; nothing is left to show.
LEMMA RevokedSafe ==
    ASSUME calls \in Seq(Calls), NEW b, calls' = Revoked(b),
           \A c \in Calls : CallSafe(c) /\ c.promised /\ c.argument # NoPointer
                             /\ c.argument.block # b => CallSafe(c)',
           \A i \in DOMAIN calls : CallSafe(calls[i])
    PROVE  calls' \in Seq(Calls) /\ \A i \in DOMAIN calls' : CallSafe(calls[i])'
<1>1. calls' \in Seq(Calls) /\ DOMAIN calls' = DOMAIN calls BY RevokedCalls
<1>2. ASSUME NEW i \in DOMAIN calls PROVE CallSafe(calls[i])'
  <2> DEFINE c == calls[i]
             d == [c EXCEPT !.promised = @ /\ c.argument.block # b]
  <2>1. c \in Calls BY LenProperties, ElementOfSeq
  <2>2. calls'[i] = d BY RevokedCalls
  <2>3. d.argument = c.argument /\ d.rec = c.rec
        /\ (d.promised => c.promised /\ c.argument.block # b)
    BY <2>1 DEF Calls
  <2> HIDE DEF d
  <2>4. CASE ~d.promised \/ d.argument = NoPointer BY <2>2, <2>4 DEF CallSafe
  <2>5. CASE d.promised /\ d.argument # NoPointer
    <3>1. c.promised /\ c.argument # NoPointer /\ c.argument.block # b BY <2>3, <2>5
    <3>2. PICK e \in Calls : e = c BY <2>1
    <3>3. CallSafe(e) BY <3>2
    <3>4. CallSafe(e)' BY <3>1, <3>2, <3>3
    <3>5. d.argument = e.argument /\ d.rec = e.rec /\ e.promised /\ e.argument # NoPointer
      BY <2>3, <3>1, <3>2
    <3> QED BY <2>2, <3>4, <3>5 DEF CallSafe
  <2> QED BY <2>4, <2>5
<1> QED BY <1>1, <1>2

\* Callbacks that keep running keep what holds of each of them.
LEMMA CallsKept ==
    ASSUME calls \in Seq(Calls), calls' = calls,
           \A c \in Calls : CallSafe(c) => CallSafe(c)',
           \A i \in DOMAIN calls : CallSafe(calls[i])
    PROVE  calls' \in Seq(Calls) /\ \A i \in DOMAIN calls' : CallSafe(calls[i])'
<1>1. \A i \in DOMAIN calls : calls[i] \in Calls BY LenProperties, ElementOfSeq
<1>2. ASSUME NEW i \in DOMAIN calls PROVE CallSafe(calls[i])'
  <2>1. PICK e \in Calls : e = calls[i] BY <1>1
  <2>2. CallSafe(e) BY <2>1
  <2>3. CallSafe(e)' BY <2>2
  <2>4. calls'[i] = e BY <2>1
  <2> QED BY <2>3, <2>4
<1> QED BY <1>2

\* A step that leaves the heap and the offsets alone, or only exchanges queues.
LEMMA QueuesPermuted ==
    ASSUME UNCHANGED heap,
           \A q \in Queues : \E r \in Queues :
              m_buffer'[q] = m_buffer[r] /\ m_start'[q] = m_start[r] /\ m_end'[q] = m_end[r],
           NEW c \in Calls, CallSafe(c)
    PROVE  CallSafe(c)'
<1> SUFFICES ASSUME c.promised, c.argument # NoPointer,
                    NEW q \in Queues, m_buffer'[q] = c.argument.block
             PROVE  \/ m_start'[q] = m_end'[q]
                    \/ c.argument.index + Extent(c.rec) <= m_start'[q]
  BY DEF CallSafe
<1>1. PICK r \in Queues :
         m_buffer'[q] = m_buffer[r] /\ m_start'[q] = m_start[r] /\ m_end'[q] = m_end[r]
  OBVIOUS
<1> QED BY <1>1 DEF CallSafe

\* Every step keeps the data of the running callbacks in place.
LEMMA CommandsStep ==
    ASSUME NoOverflow, CommandsSafe, CommandNext
    PROVE  CommandsSafe'
<1> DEFINE CallsSafe == calls \in Seq(Calls) /\ \A i \in DOMAIN calls : CallSafe(calls[i])
<1>0. Safe' /\ Safe
  <2>1. [Next]_vars BY CommandStep
  <2> QED BY <2>1, NextSafe DEF CommandsSafe
<1>1. ~crashed /\ TypeOK /\ Good /\ CallsSafe
  BY ZenonT(60) DEF CommandNext, CommandsSafe, Safe, Return, PushCommand, PopCommand, PopNothing,
         ClearCommands, ReserveCommands, SwapCommands, AssignCommands,
         Push, Pop, PopEmpty, Clear, Reserve, Swap, CopyAssign
<1>2. CallsSafe' => CommandsSafe' BY <1>0 DEF CommandsSafe
<1>3. CASE Return
  <2>1. calls' = SubSeq(calls, 1, Len(calls) - 1) /\ calls # <<>> /\ UNCHANGED vars
    BY <1>3 DEF Return
  <2>2. Len(calls) \in Nat \ {0} /\ \A i \in 1 .. Len(calls) : calls[i] \in Calls
    BY <1>1, <2>1, EmptySeq, ElementOfSeq
  <2>3. calls' \in Seq(Calls) /\ Len(calls') = Len(calls) - 1
        /\ \A i \in 1 .. Len(calls) - 1 : calls'[i] = calls[i]
    <3> DEFINE n == Len(calls) - 1
    <3>1. n \in Nat /\ 1 \in 1 .. n + 1 /\ n \in 0 .. Len(calls) BY <2>2
    <3>2. \A i \in 1 .. n : calls[i] \in Calls BY <2>2, <3>1
    <3> HIDE DEF n
    <3>3. SubSeq(calls, 1, n) \in Seq(Calls) /\ Len(SubSeq(calls, 1, n)) = n
          /\ \A i \in 1 .. n : SubSeq(calls, 1, n)[i] = calls[i]
      <4>1. n - 1 + 1 = n /\ 1 + n - 1 = n BY <3>1
      <4>2. 1 <= n + 1 /\ n <= Len(calls) BY <3>1, <2>2
      <4> QED BY <1>1, <3>1, <3>2, <4>1, <4>2, SubSeqProperties
    <3> QED BY <2>1, <3>3 DEF n
  <2>4. ASSUME NEW i \in DOMAIN calls' PROVE CallSafe(calls[i])'
    <3>1. i \in 1 .. Len(calls) - 1 BY <2>3, LenProperties
    <3>2. i \in 1 .. Len(calls) BY <3>1, <2>2
    <3>3. PICK e \in Calls : e = calls[i] /\ e = calls'[i] BY <2>2, <2>3, <3>1, <3>2
    <3>4. CallSafe(e) BY <1>1, <3>2, <3>3, LenProperties
    <3>5. CallSafe(e)' BY <2>1, <3>4 DEF CallSafe, vars
    <3> QED BY <3>3, <3>5
  <2> QED BY <2>3, <2>4, <1>2
<1>4. ASSUME NEW q \in Queues, NEW payload \in Payloads, PushCommand(q, payload)
      PROVE  CommandsSafe'
  <2>1. Push(q, payload) BY <1>4 DEF PushCommand
  <2>2. CASE m_start[q] = m_end[q] \/ m_buffer'[q] # m_buffer[q]
    <3>1. calls' = Revoked(m_buffer[q]) BY <1>4, <2>2 DEF PushCommand
    <3>2. \A c \in Calls : CallSafe(c) /\ c.promised /\ c.argument # NoPointer
                           /\ c.argument.block # m_buffer[q] => CallSafe(c)'
      BY <1>1, <2>1, PushKeepsCall
    <3> QED BY <3>1, <3>2, <1>1, <1>2, RevokedSafe
  <2>3. CASE ~(m_start[q] = m_end[q] \/ m_buffer'[q] # m_buffer[q])
    <3>1. calls' = calls BY <1>4, <2>3 DEF PushCommand
    <3>2. ASSUME NEW c \in Calls, CallSafe(c) PROVE CallSafe(c)'
      <4>1. CASE c.promised /\ c.argument # NoPointer
        BY <1>1, <2>1, <2>3, <3>2, <4>1, PushKeepsCall
      <4>2. CASE ~(c.promised /\ c.argument # NoPointer) BY <4>2 DEF CallSafe
      <4> QED BY <4>1, <4>2
    <3> QED BY <3>1, <3>2, <1>1, <1>2, CallsKept
  <2> QED BY <2>2, <2>3
<1>5. ASSUME NEW q \in Queues, PopCommand(q) PROVE CommandsSafe'
  <2>1. Pop(q) /\ calls' = Append(calls, Call(popped')) BY <1>5 DEF PopCommand
  <2>2. Call(popped') \in Calls
        /\ (\A c \in Calls : c = Call(popped') => CallSafe(c)')
        /\ \A c \in Calls : CallSafe(c) => CallSafe(c)'
    BY <1>1, <2>1, PopKeepsCalls
  <2>3. PICK new \in Calls : new = Call(popped') BY <2>2
  <2>4. calls' = Append(calls, new) /\ CallSafe(new)' BY <2>1, <2>2, <2>3
  <2>5. Len(calls) \in Nat /\ \A i \in 1 .. Len(calls) : calls[i] \in Calls
    BY <1>1, LenProperties, ElementOfSeq
  <2>6. calls' \in Seq(Calls) /\ DOMAIN calls' = 1 .. Len(calls) + 1
        /\ (\A i \in 1 .. Len(calls) : calls'[i] = calls[i]) /\ calls'[Len(calls) + 1] = new
    BY <1>1, <2>4, AppendProperties, LenProperties
  <2>7. ASSUME NEW i \in DOMAIN calls' PROVE CallSafe(calls[i])'
    <3>1. CASE i = Len(calls) + 1
      <4>1. calls'[i] = new BY <2>6, <3>1
      <4> QED BY <4>1, <2>4
    <3>2. CASE i \in 1 .. Len(calls)
      <4>1. PICK e \in Calls : e = calls[i] /\ e = calls'[i] BY <2>5, <2>6, <3>2
      <4>2. CallSafe(e) BY <1>1, <3>2, <4>1, LenProperties
      <4>3. CallSafe(e)' BY <2>2, <4>2
      <4> QED BY <4>1, <4>3
    <3> QED BY <3>1, <3>2, <2>5, <2>6
  <2> QED BY <2>6, <2>7, <1>2
<1>6. ASSUME NEW q \in Queues, PopNothing(q) \/ ClearCommands(q) PROVE CommandsSafe'
  <2>1. calls' = calls BY <1>6 DEF PopNothing, ClearCommands
  <2>2. /\ m_buffer' = m_buffer /\ heap' = heap
        /\ \A r \in Queues : \/ m_start'[r] = m_start[r] /\ m_end'[r] = m_end[r]
                             \/ m_start'[r] = 0 /\ m_end'[r] = 0
    <3>1. CASE PopNothing(q)
      <4>1. UNCHANGED <<m_buffer, heap, m_start, m_end>> BY <3>1 DEF PopNothing, PopEmpty
      <4> QED BY <4>1
    <3>2. CASE ClearCommands(q)
      <4>1. m_start' = [m_start EXCEPT ![q] = 0] /\ m_end' = [m_end EXCEPT ![q] = 0]
            /\ m_buffer' = m_buffer /\ heap' = heap
        BY <3>2 DEF ClearCommands, Clear
      <4>2. DOMAIN m_start = Queues /\ DOMAIN m_end = Queues BY <1>1 DEF TypeOK
      <4>3. ASSUME NEW r \in Queues
            PROVE  \/ m_start'[r] = m_start[r] /\ m_end'[r] = m_end[r]
                   \/ m_start'[r] = 0 /\ m_end'[r] = 0
        <5>1. CASE r = q BY <4>1, <4>2, <5>1
        <5>2. CASE r # q BY <4>1, <4>2, <5>2
        <5> QED BY <5>1, <5>2
      <4> QED BY <4>1, <4>3
    <3> QED BY <1>6, <3>1, <3>2
  <2>3. \A c \in Calls : CallSafe(c) => CallSafe(c)' BY <2>2 DEF CallSafe
  <2> QED BY <2>1, <2>3, <1>1, <1>2, CallsKept
<1>7. ASSUME NEW q \in Queues, NEW n \in Capacities, ReserveCommands(q, n)
      PROVE  CommandsSafe'
  <2>1. Reserve(q, n) BY <1>7 DEF ReserveCommands
  <2>2. CASE m_buffer'[q] # m_buffer[q]
    <3>1. calls' = Revoked(m_buffer[q]) BY <1>7, <2>2 DEF ReserveCommands
    <3>2. \A c \in Calls : CallSafe(c) /\ c.promised /\ c.argument # NoPointer
                           /\ c.argument.block # m_buffer[q] => CallSafe(c)'
      BY <1>1, <2>1, ReserveKeepsCall
    <3> QED BY <3>1, <3>2, <1>1, <1>2, RevokedSafe
  <2>3. CASE m_buffer'[q] = m_buffer[q]
    <3>1. calls' = calls BY <1>7, <2>3 DEF ReserveCommands
    <3>2. ASSUME NEW c \in Calls, CallSafe(c) PROVE CallSafe(c)'
      <4>1. CASE c.promised /\ c.argument # NoPointer
        BY <1>1, <2>1, <2>3, <3>2, <4>1, ReserveKeepsCall
      <4>2. CASE ~(c.promised /\ c.argument # NoPointer) BY <4>2 DEF CallSafe
      <4> QED BY <4>1, <4>2
    <3> QED BY <3>1, <3>2, <1>1, <1>2, CallsKept
  <2> QED BY <2>2, <2>3
<1>8. ASSUME NEW q \in Queues, NEW r \in Queues, SwapCommands(q, r) PROVE CommandsSafe'
  <2>1. calls' = calls /\ heap' = heap BY <1>8 DEF SwapCommands, Swap
  <2>2. \A x \in Queues : \E y \in Queues :
           m_buffer'[x] = m_buffer[y] /\ m_start'[x] = m_start[y] /\ m_end'[x] = m_end[y]
    <3> SUFFICES ASSUME NEW x \in Queues
                 PROVE \E y \in Queues : m_buffer'[x] = m_buffer[y]
                          /\ m_start'[x] = m_start[y] /\ m_end'[x] = m_end[y]
      OBVIOUS
    <3> DEFINE y == IF x = q THEN r ELSE IF x = r THEN q ELSE x
    <3>1. m_buffer'[x] = m_buffer[y] /\ m_start'[x] = m_start[y] /\ m_end'[x] = m_end[y]
      BY <1>1, <1>8 DEF SwapCommands, Swap, TypeOK
    <3> QED BY <3>1
  <2>3. \A c \in Calls : CallSafe(c) => CallSafe(c)' BY <2>1, <2>2, QueuesPermuted
  <2> QED BY <2>1, <2>3, <1>1, <1>2, CallsKept
<1>9. ASSUME NEW q \in Queues, NEW r \in Queues, AssignCommands(q, r) PROVE CommandsSafe'
  <2>1. CopyAssign(q, r) /\ calls' = calls BY <1>9 DEF AssignCommands
  <2>2. CASE m_capacity[r] # 0
    <3>1. crashed' BY <2>1, <2>2 DEF CopyAssign
    <3> QED BY <3>1, <2>1, <1>0, <1>1 DEF CommandsSafe
  <2>3. CASE m_capacity[r] = 0
    <3>1. m_start[r] = 0 /\ m_end[r] = 0
      BY <1>1, <2>3, QueueType DEF Good, QueueOK
    <3>2. /\ m_buffer' = m_buffer /\ heap' = heap
          /\ \A x \in Queues : \/ m_start'[x] = m_start[x] /\ m_end'[x] = m_end[x]
                               \/ m_start'[x] = 0 /\ m_end'[x] = 0
      <4>1. m_buffer' = m_buffer /\ heap' = heap
            /\ m_start' = [m_start EXCEPT ![q] = m_start[r]]
            /\ m_end' = [m_end EXCEPT ![q] = m_end[r]]
        BY <2>1, <2>3 DEF CopyAssign
      <4>2. DOMAIN m_start = Queues /\ DOMAIN m_end = Queues BY <1>1 DEF TypeOK
      <4>3. ASSUME NEW x \in Queues
            PROVE  \/ m_start'[x] = m_start[x] /\ m_end'[x] = m_end[x]
                   \/ m_start'[x] = 0 /\ m_end'[x] = 0
        <5>1. CASE x = q BY <3>1, <4>1, <4>2, <5>1
        <5>2. CASE x # q BY <4>1, <4>2, <5>2
        <5> QED BY <5>1, <5>2
      <4> QED BY <4>1, <4>3
    <3>3. \A c \in Calls : CallSafe(c) => CallSafe(c)' BY <3>2 DEF CallSafe
    <3> QED BY <3>3, <2>1, <1>1, <1>2, CallsKept
  <2> QED BY <2>2, <2>3
<1> QED BY <1>3, <1>4, <1>5, <1>6, <1>7, <1>8, <1>9 DEF CommandNext

\* For any queues, commands and nesting: the bytes of a running callback's
\* data stay in place while the promise of CommandQueue lasts.
THEOREM ArgumentsAreStable ==
    ASSUME NoOverflow
    PROVE  CommandSpec => []ArgumentStable
<1>1. CommandInit => CommandsSafe
  <2> SUFFICES ASSUME CommandInit PROVE CommandsSafe
    OBVIOUS
  <2>1. calls = <<>> /\ Safe BY InitSafe DEF CommandInit
  <2>2. <<>> \in Seq(Calls) /\ Len(<<>>) = 0 BY EmptySeq
  <2>3. DOMAIN <<>> = {} BY <2>2, LenProperties
  <2> QED BY <2>1, <2>2, <2>3 DEF CommandsSafe
<1>2. CommandsSafe /\ [CommandNext]_commandVars => CommandsSafe'
  <2> SUFFICES ASSUME CommandsSafe, [CommandNext]_commandVars PROVE CommandsSafe'
    OBVIOUS
  <2>1. CASE CommandNext BY <2>1, CommandsStep
  <2>2. CASE UNCHANGED commandVars
    <3>1. Safe' BY <2>2, CommandStep, NextSafe DEF CommandsSafe
    <3>2. CASE crashed BY <2>2, <3>1, <3>2 DEF CommandsSafe, commandVars, vars
    <3>3. CASE ~crashed
      <4>1. \A c \in Calls : CallSafe(c) => CallSafe(c)'
        BY <2>2 DEF CallSafe, commandVars, vars
      <4>2. calls \in Seq(Calls) /\ calls' = calls
            /\ \A i \in DOMAIN calls : CallSafe(calls[i])
        BY <2>2, <3>3 DEF CommandsSafe, commandVars
      <4>3. calls' \in Seq(Calls) /\ \A i \in DOMAIN calls' : CallSafe(calls[i])'
        BY <4>1, <4>2, CallsKept
      <4> QED BY <3>1, <4>3 DEF CommandsSafe
    <3> QED BY <3>2, <3>3
  <2> QED BY <2>1, <2>2
<1>3. CommandsSafe => ArgumentStable
  BY DEF CommandsSafe, ArgumentStable, CallSafe
<1> QED BY <1>1, <1>2, <1>3, PTL DEF CommandSpec

=============================================================================
