-------------------------- MODULE FileStreamProofs --------------------------
(***************************************************************************)
(* Proofs about FileWriter and FileReader, for every size of the buffer,   *)
(* of the file and of the calls.                                           *)
(***************************************************************************)
EXTENDS FileWriter, FileReader, TLAPS

\* The inductive invariant of the writer.
WInv == TypeOK /\ ClosedIsFlushed

-----------------------------------------------------------------------------
(* Storing bytes in a file. *)

\* A file stays a file.
LEMMA OverlayIsFile ==
    ASSUME NEW f, IsFile(f), NEW at \in Nat, NEW n \in Nat, NEW data,
           \A i \in 0 .. n - 1 : data[i] \in Bytes
    PROVE  IsFile(Overlay(f, at, data, n))
<1>1. CASE n = 0
  BY <1>1 DEF Overlay
<1>2. CASE n # 0
  <2> DEFINE size == Larger(f.size, at + n)
             byte == [i \in 0 .. size - 1 |->
                         IF i \in at .. at + n - 1 THEN data[i - at]
                         ELSE IF i < f.size THEN f.byte[i] ELSE Hole]
  <2>1. f.size \in Nat /\ f.byte \in [0 .. f.size - 1 -> Bytes] /\ Hole \in Bytes
    BY DEF IsFile, Hole, Bytes
  <2>2. size \in Nat
    BY <2>1 DEF Larger
  <2>3. byte \in [0 .. size - 1 -> Bytes]
    <3> SUFFICES ASSUME NEW i \in 0 .. size - 1
                 PROVE  (IF i \in at .. at + n - 1 THEN data[i - at]
                         ELSE IF i < f.size THEN f.byte[i] ELSE Hole) \in Bytes
      OBVIOUS
    <3>1. i \in at .. at + n - 1 => i - at \in 0 .. n - 1
      BY <2>2
    <3>2. i < f.size => i \in 0 .. f.size - 1
      BY <2>1, <2>2
    <3> QED BY <2>1, <3>1, <3>2
  <2>4. Overlay(f, at, data, n) = [size |-> size, byte |-> byte]
    BY <1>2 DEF Overlay
  <2> HIDE DEF size, byte
  <2> QED BY <2>2, <2>3, <2>4 DEF IsFile
<1> QED BY <1>1, <1>2

\* "both" has n bytes of "first", and m of "second" behind them.
IsJoined(both, first, n, second, m) ==
    /\ \A i \in 0 .. n - 1 : both[i] = first[i]
    /\ \A i \in 0 .. m - 1 : both[n + i] = second[i]

\* Storing m bytes behind n bytes is storing n + m bytes.
LEMMA OverlayAppends ==
    ASSUME NEW f, IsFile(f), NEW at \in Nat, NEW n \in Nat, NEW m \in Nat,
           NEW first, NEW second, NEW both, IsJoined(both, first, n, second, m)
    PROVE  Overlay(f, at, both, n + m) = Overlay(Overlay(f, at, first, n), at + n, second, m)
<1>1. f.size \in Nat
  BY DEF IsFile
<1> USE DEF IsJoined
<1> DEFINE whole == Larger(f.size, at + (n + m))
           front == Overlay(f, at, first, n)
           size  == Larger(front.size, (at + n) + m)
           Put(g, from, k, data, i) ==
               IF i \in from .. from + k - 1 THEN data[i - from]
               ELSE IF i < g.size THEN g.byte[i] ELSE Hole
<1>2. CASE m = 0 /\ n = 0
  BY <1>2 DEF Overlay
<1>3. CASE m = 0 /\ n # 0
  <2>1. n + m = n
    BY <1>3
  <2>2. \A i \in 0 .. Larger(f.size, at + n) - 1 :
           Put(f, at, n, both, i) = Put(f, at, n, first, i)
    <3> SUFFICES ASSUME NEW i \in 0 .. Larger(f.size, at + n) - 1, i \in at .. at + n - 1
                 PROVE  both[i - at] = first[i - at]
      OBVIOUS
    <3>1. i - at \in 0 .. n - 1
      OBVIOUS
    <3> QED BY <3>1
  <2>3. Overlay(f, at, both, n) = Overlay(f, at, first, n)
    BY <1>3, <2>2 DEF Overlay
  <2> QED BY <1>3, <2>1, <2>3 DEF Overlay
<1>4. CASE m # 0 /\ n = 0
  <2>1. n + m = m /\ at + n = at /\ front = f
    BY <1>4 DEF Overlay
  <2>2. \A i \in 0 .. Larger(f.size, at + m) - 1 :
           Put(f, at, m, both, i) = Put(f, at, m, second, i)
    <3> SUFFICES ASSUME NEW i \in 0 .. Larger(f.size, at + m) - 1, i \in at .. at + m - 1
                 PROVE  both[i - at] = second[i - at]
      OBVIOUS
    <3>1. i - at \in 0 .. m - 1 /\ n + (i - at) = i - at
      BY <1>4
    <3> QED BY <3>1
  <2>3. Overlay(f, at, both, m) = Overlay(f, at, second, m)
    BY <1>4, <2>2 DEF Overlay
  <2> QED BY <2>1, <2>3
<1>5. CASE m # 0 /\ n # 0
  <2>1. front = [size |-> Larger(f.size, at + n),
                 byte |-> [i \in 0 .. Larger(f.size, at + n) - 1 |-> Put(f, at, n, first, i)]]
    BY <1>5 DEF Overlay
  <2>2. front.size = Larger(f.size, at + n) /\ front.size \in Nat
    BY <1>1, <2>1 DEF Larger
  <2>3. size = whole /\ whole \in Nat
    BY <1>1, <2>2 DEF Larger
  <2>4. ASSUME NEW i \in 0 .. whole - 1
        PROVE  Put(f, at, n + m, both, i) = Put(front, at + n, m, second, i)
    <3>0. i \in Nat
      BY <2>3
    <3>1. CASE i \in at + n .. (at + n) + m - 1
      <4>1. i - (at + n) \in 0 .. m - 1 /\ n + (i - (at + n)) = i - at
            /\ i \in at .. at + (n + m) - 1
        BY <3>0, <3>1
      <4> QED BY <3>1, <4>1
    <3>2. CASE i \in at .. at + n - 1
      <4>1. /\ i - at \in 0 .. n - 1 /\ i \in at .. at + (n + m) - 1
            /\ i \notin at + n .. (at + n) + m - 1
            /\ i \in 0 .. Larger(f.size, at + n) - 1 /\ i < front.size
        BY <1>1, <2>2, <3>0, <3>2 DEF Larger
      <4>2. front.byte[i] = first[i - at]
        BY <2>1, <3>2, <4>1
      <4>3. Put(f, at, n + m, both, i) = both[i - at]
        BY <4>1
      <4>4. Put(front, at + n, m, second, i) = front.byte[i]
        BY <4>1
      <4>5. both[i - at] = first[i - at]
        BY <4>1
      <4> QED BY <4>2, <4>3, <4>4, <4>5
    <3>3. CASE i \notin at .. at + n - 1 /\ i \notin at + n .. (at + n) + m - 1
      <4>1. i \notin at .. at + (n + m) - 1
        BY <3>0, <3>3
      <4>2. Put(f, at, n + m, both, i) = IF i < f.size THEN f.byte[i] ELSE Hole
        BY <4>1
      <4>3. Put(front, at + n, m, second, i) =
               IF i < front.size THEN front.byte[i] ELSE Hole
        BY <3>3
      <4>4. CASE i < front.size
        <5>1. i \in 0 .. Larger(f.size, at + n) - 1
          BY <2>2, <3>0, <4>4
        <5>2. front.byte[i] = IF i < f.size THEN f.byte[i] ELSE Hole
          BY <2>1, <3>3, <5>1
        <5> QED BY <4>2, <4>3, <4>4, <5>2
      <4>5. CASE ~(i < front.size)
        <5>1. ~(i < f.size)
          BY <1>1, <2>2, <3>0, <4>5 DEF Larger
        <5> QED BY <4>2, <4>3, <4>5, <5>1
      <4> QED BY <4>4, <4>5
    <3> QED BY <3>1, <3>2, <3>3
  <2>5. Overlay(front, at + n, second, m) =
          [size |-> size,
           byte |-> [i \in 0 .. size - 1 |-> Put(front, at + n, m, second, i)]]
    BY <1>5 DEF Overlay
  <2>6. n + m # 0
    BY <1>5
  <2>7. Overlay(f, at, both, n + m) =
          [size |-> whole,
           byte |-> [i \in 0 .. whole - 1 |-> Put(f, at, n + m, both, i)]]
    BY <2>6 DEF Overlay
  <2> HIDE DEF whole, size, front, Put
  <2>8. [i \in 0 .. whole - 1 |-> Put(f, at, n + m, both, i)]
          = [i \in 0 .. whole - 1 |-> Put(front, at + n, m, second, i)]
    BY <2>4
  <2> QED BY <2>3, <2>5, <2>7, <2>8 DEF front
<1> QED BY <1>2, <1>3, <1>4, <1>5

-----------------------------------------------------------------------------
(* The flush that calls begin with. *)

\* A flush that is done, or was not needed, leaves the file the caller sees and
\* the position in it as they were.
LEMMA FlushDone ==
    ASSUME TypeOK, NEW needed \in BOOLEAN, NEW f \in Flushes(needed), f.done
    PROVE  /\ IsFile(f.disk)
           /\ f.offset \in Nat
           /\ f.left \in {0, m_buffer_position}
           /\ needed => f.left = 0
           /\ f.left = 0 => f.disk = Content
           /\ Overlay(f.disk, f.offset, m_buffer, f.left) = Content
           /\ f.offset + f.left = offset + m_buffer_position
           /\ f.torn = torn
<1>1. /\ IsFile(disk) /\ offset \in Nat /\ m_buffer_position \in 0 .. BufferSize
      /\ torn \in BOOLEAN /\ BufferSize \in Nat
      /\ \A i \in 0 .. m_buffer_position - 1 : m_buffer[i] \in Bytes
  BY StreamOK, WriterOK DEF TypeOK
<1>2. CASE needed /\ m_buffer_position > 0
  <2>1. PICK n \in Taken(m_buffer_position) :
           f = [done |-> n = m_buffer_position,
                disk |-> Overlay(disk, offset, m_buffer, n),
                offset |-> offset + n,
                left |-> IF n = m_buffer_position THEN 0 ELSE m_buffer_position,
                torn |-> torn \/ n \notin {0, m_buffer_position}]
    BY <1>2 DEF Flushes
  <2>2. n = m_buffer_position
    BY <2>1
  <2>3. /\ f.disk = Content /\ f.offset = offset + m_buffer_position
        /\ f.left = 0
    BY <2>1, <2>2 DEF Content
  <2>4. f.torn = torn
    BY <1>1, <2>1, <2>2
  <2>5. IsFile(f.disk)
    BY <1>1, <2>3, OverlayIsFile DEF Content
  <2>6. Overlay(f.disk, f.offset, m_buffer, f.left) = Content
    BY <2>3 DEF Overlay
  <2> QED BY <1>1, <2>3, <2>4, <2>5, <2>6
<1>3. CASE ~(needed /\ m_buffer_position > 0)
  <2>1. f = [done |-> TRUE, disk |-> disk, offset |-> offset,
             left |-> m_buffer_position, torn |-> torn]
    BY <1>3 DEF Flushes
  <2>2. Overlay(f.disk, f.offset, m_buffer, f.left) = Content
    BY <2>1 DEF Content
  <2>3. f.left = 0 => f.disk = Content
    BY <2>1 DEF Content, Overlay
  <2> QED BY <1>1, <1>3, <2>1, <2>2, <2>3
<1> QED BY <1>2, <1>3

\* A flush that was refused left all it should have written in the buffer, and
\* nothing in the file unless the system took a part.
LEMMA FlushRefused ==
    ASSUME TypeOK, NEW needed \in BOOLEAN, NEW f \in Flushes(needed), ~f.done
    PROVE  /\ IsFile(f.disk)
           /\ f.offset \in Nat
           /\ f.torn \in BOOLEAN
           /\ ~f.torn => f.disk = disk /\ f.offset = offset /\ ~torn
<1>1. /\ IsFile(disk) /\ offset \in Nat /\ m_buffer_position \in 0 .. BufferSize
      /\ torn \in BOOLEAN /\ BufferSize \in Nat
      /\ \A i \in 0 .. m_buffer_position - 1 : m_buffer[i] \in Bytes
  BY StreamOK, WriterOK DEF TypeOK
<1>2. needed /\ m_buffer_position > 0
  BY DEF Flushes
<1>3. PICK n \in Taken(m_buffer_position) :
         f = [done |-> n = m_buffer_position,
              disk |-> Overlay(disk, offset, m_buffer, n),
              offset |-> offset + n,
              left |-> IF n = m_buffer_position THEN 0 ELSE m_buffer_position,
              torn |-> torn \/ n \notin {0, m_buffer_position}]
  BY <1>2 DEF Flushes
<1>4. n # m_buffer_position
  BY <1>3
<1>5. n \in 0 .. m_buffer_position
  BY <1>1, <1>4 DEF Taken
<1>6. IsFile(f.disk)
  <2>1. n \in Nat /\ \A i \in 0 .. n - 1 : m_buffer[i] \in Bytes
    BY <1>1, <1>5
  <2>2. IsFile(Overlay(disk, offset, m_buffer, n))
    BY <1>1, <2>1, OverlayIsFile
  <2> QED BY <1>3, <2>2
<1>7. f.torn \in BOOLEAN /\ f.offset \in Nat
  BY <1>1, <1>3, <1>5
<1>8. ASSUME ~f.torn PROVE f.disk = disk /\ f.offset = offset /\ ~torn
  <2>1. n = 0 /\ ~torn
    BY <1>3, <1>4, <1>8
  <2> QED BY <1>1, <1>3, <2>1 DEF Overlay
<1> QED BY <1>6, <1>7, <1>8

\* What a call the flush of which is refused keeps, and what it looks like from
\* outside.
LEMMA RefusedStep ==
    ASSUME WInv, NEW needed \in BOOLEAN, NEW f \in Flushes(needed), Refused(f)
    PROVE  WInv' /\ (File!NoEffect \/ File!Damage)
<1> USE DEF WInv, Refused
<1>1. /\ IsFile(f.disk) /\ f.offset \in Nat /\ f.torn \in BOOLEAN
      /\ ~f.torn => f.disk = disk /\ f.offset = offset /\ ~torn
  BY FlushRefused
<1>2. WInv'
  <2>1. /\ IsFile(disk') /\ offset' \in Nat /\ torn' \in BOOLEAN
        /\ result' \in BOOLEAN
    BY <1>1
  <2>2. refusals' \in Nat
    BY DEF TypeOK
  <2>3. UNCHANGED <<m_file, m_buffer, m_buffer_position, writes>>
    OBVIOUS
  <2>4. TypeOK'
    BY <2>1, <2>2, <2>3 DEF TypeOK
  <2>5. ClosedIsFlushed'
    BY <2>3 DEF ClosedIsFlushed
  <2> QED BY <2>4, <2>5
<1>3. CASE f.torn
  <2>1. torn' = TRUE
    BY <1>1, <1>3
  <2> QED BY <1>2, <2>1 DEF File!Damage
<1>4. CASE ~f.torn
  <2>1. UNCHANGED <<disk, offset, torn>>
    BY <1>1, <1>4 DEF TypeOK
  <2>2. UNCHANGED <<m_file, m_buffer, m_buffer_position, writes>> /\ result' = FALSE
    OBVIOUS
  <2>3. UNCHANGED <<Content, GetPosition>>
    BY <2>1, <2>2 DEF Content, GetPosition
  <2> QED BY <1>2, <2>1, <2>2, <2>3 DEF File!NoEffect
<1> QED BY <1>2, <1>3, <1>4

-----------------------------------------------------------------------------
(* One lemma for each kind of call. *)

\* write past the buffer.
LEMMA DirectStep ==
    ASSUME WInv, NEW size \in Sizes, m_file, NEW f \in Flushes(FlushFirst(size)), f.done,
           WriteDirect(f, size), writes' = writes + 1, torn' = f.torn, UNCHANGED m_file
    PROVE  WInv' /\ \E n \in 0 .. size : File!Write(size, n)
<1>1. /\ size \in Nat /\ BufferSize \in Nat /\ FlushFirst(size) \in BOOLEAN
      /\ m_buffer_position \in 0 .. BufferSize /\ writes \in Nat /\ refusals \in Nat
  BY StreamOK, WriterOK DEF WInv, TypeOK, FlushFirst
<1>2. /\ IsFile(f.disk) /\ f.offset \in Nat /\ f.left \in {0, m_buffer_position}
      /\ FlushFirst(size) => f.left = 0
      /\ f.left = 0 => f.disk = Content
      /\ f.offset + f.left = offset + m_buffer_position
      /\ f.torn = torn
  BY <1>1, FlushDone DEF WInv
<1>3. f.left = 0
  BY <1>1, <1>2 DEF WriteDirect, FlushFirst
<1>4. PICK n \in Taken(size) :
         /\ disk' = Overlay(f.disk, f.offset, Data(writes + 1, size), n)
         /\ offset' = f.offset + n
         /\ result' = (n = size)
         /\ refusals' = IF n = size THEN refusals ELSE refusals + 1
  BY DEF WriteDirect
<1>5. n \in 0 .. size
  BY <1>1, <1>4 DEF Taken
<1>6. m_buffer_position' = 0 /\ UNCHANGED <<m_buffer, m_file, torn>>
  BY <1>2, <1>3 DEF WriteDirect
<1>7. IsFile(disk')
  <2>1. n \in Nat /\ \A i \in 0 .. n - 1 : Data(writes + 1, size)[i] \in Bytes
    BY <1>1, <1>5 DEF Data, Bytes
  <2> QED BY <1>2, <1>4, <2>1, OverlayIsFile
<1>8. TypeOK'
  <2>1. offset' \in Nat /\ refusals' \in Nat /\ writes' \in Nat
    BY <1>1, <1>2, <1>4, <1>5
  <2>2. result' \in BOOLEAN
    BY <1>4
  <2>3. m_buffer_position' \in 0 .. BufferSize
    BY <1>1, <1>6
  <2> QED BY <1>6, <1>7, <2>1, <2>2, <2>3 DEF WInv, TypeOK
<1>9. ClosedIsFlushed'
  BY <1>6 DEF ClosedIsFlushed
<1>10. Content' = Overlay(Content, GetPosition, Data(writes + 1, size), n)
  <2>1. Content' = disk'
    BY <1>6 DEF Content, Overlay
  <2>2. f.disk = Content /\ f.offset = GetPosition
    BY <1>2, <1>3 DEF GetPosition
  <2> QED BY <1>4, <2>1, <2>2
<1>11. GetPosition' = GetPosition + n
  BY <1>1, <1>2, <1>3, <1>4, <1>5, <1>6 DEF GetPosition
<1>12. File!Write(size, n)
  BY <1>4, <1>6, <1>10, <1>11 DEF File!Write, File!Overlay, File!Data, File!Larger, File!Hole,
                                  Overlay, Data, Larger, Hole
<1> QED BY <1>5, <1>8, <1>9, <1>12 DEF WInv

\* write into the buffer.
LEMMA BufferedStep ==
    ASSUME WInv, NEW size \in Sizes, m_file, NEW f \in Flushes(FlushFirst(size)), f.done,
           WriteBuffered(f, size), writes' = writes + 1, torn' = f.torn, UNCHANGED m_file
    PROVE  WInv' /\ File!Write(size, size)
<1>1. /\ size \in Nat /\ BufferSize \in Nat /\ FlushFirst(size) \in BOOLEAN
      /\ m_buffer_position \in 0 .. BufferSize /\ writes \in Nat
      /\ m_buffer \in [0 .. BufferSize - 1 -> Bytes]
  BY StreamOK, WriterOK DEF WInv, TypeOK, FlushFirst
<1>2. /\ IsFile(f.disk) /\ f.offset \in Nat /\ f.left \in {0, m_buffer_position}
      /\ FlushFirst(size) => f.left = 0
      /\ Overlay(f.disk, f.offset, m_buffer, f.left) = Content
      /\ f.offset + f.left = offset + m_buffer_position
      /\ f.torn = torn
  BY <1>1, FlushDone DEF WInv
<1>3. f.left \in Nat /\ f.left + size <= BufferSize
  BY <1>1, <1>2 DEF WriteBuffered, FlushFirst
<1>4. /\ m_buffer' = [i \in 0 .. BufferSize - 1 |->
                         IF i \in f.left .. f.left + size - 1
                         THEN Data(writes + 1, size)[i - f.left] ELSE m_buffer[i]]
      /\ m_buffer_position' = f.left + size
      /\ disk' = f.disk
      /\ offset' = f.offset
      /\ result' = TRUE
      /\ UNCHANGED refusals
  BY DEF WriteBuffered
<1>5. \A i \in 0 .. size - 1 : Data(writes + 1, size)[i] \in Bytes
  BY <1>1 DEF Data, Bytes
<1>6. TypeOK'
  <2>1. m_buffer' \in [0 .. BufferSize - 1 -> Bytes]
    <3> SUFFICES ASSUME NEW i \in 0 .. BufferSize - 1
                 PROVE  (IF i \in f.left .. f.left + size - 1
                         THEN Data(writes + 1, size)[i - f.left] ELSE m_buffer[i]) \in Bytes
      BY <1>4
    <3>1. i \in f.left .. f.left + size - 1 => i - f.left \in 0 .. size - 1
      BY <1>1, <1>3
    <3> QED BY <1>1, <1>5, <3>1
  <2>2. m_buffer_position' \in 0 .. BufferSize
    BY <1>1, <1>3, <1>4
  <2>3. IsFile(disk') /\ offset' \in Nat /\ writes' \in Nat
    BY <1>1, <1>2, <1>4
  <2>4. result' \in BOOLEAN
    BY <1>4
  <2> QED BY <1>2, <1>4, <2>1, <2>2, <2>3, <2>4 DEF WInv, TypeOK
<1>7. ClosedIsFlushed'
  BY DEF ClosedIsFlushed
<1>8. Content' = Overlay(Content, GetPosition, Data(writes + 1, size), size)
  <2>1. \A i \in 0 .. f.left - 1 : m_buffer'[i] = m_buffer[i]
    BY <1>1, <1>3, <1>4
  <2>2. \A i \in 0 .. size - 1 : m_buffer'[f.left + i] = Data(writes + 1, size)[i]
    <3> SUFFICES ASSUME NEW i \in 0 .. size - 1
                 PROVE  m_buffer'[f.left + i] = Data(writes + 1, size)[i]
      OBVIOUS
    <3>1. /\ f.left + i \in 0 .. BufferSize - 1
          /\ f.left + i \in f.left .. f.left + size - 1
          /\ (f.left + i) - f.left = i
      BY <1>1, <1>3
    <3> QED BY <1>4, <3>1
  <2>3. Overlay(f.disk, f.offset, m_buffer', f.left + size)
          = Overlay(Overlay(f.disk, f.offset, m_buffer, f.left), f.offset + f.left,
                    Data(writes + 1, size), size)
    <3>1. IsJoined(m_buffer', m_buffer, f.left, Data(writes + 1, size), size)
      BY <2>1, <2>2 DEF IsJoined
    <3> QED BY SMTT(30), <1>1, <1>2, <1>3, <3>1, OverlayAppends
  <2>4. Content' = Overlay(f.disk, f.offset, m_buffer', f.left + size)
    BY <1>4 DEF Content
  <2>5. f.offset + f.left = GetPosition
    BY <1>2 DEF GetPosition
  <2> QED BY <1>2, <2>3, <2>4, <2>5
<1>9. GetPosition' = GetPosition + size
  BY <1>1, <1>2, <1>3, <1>4 DEF GetPosition
<1>10. result' = (size = size) /\ UNCHANGED <<m_file, torn>>
  BY <1>2, <1>4
<1>11. File!Write(size, size)
  BY <1>8, <1>9, <1>10 DEF File!Write, File!Overlay, File!Data, File!Larger, File!Hole,
                           Overlay, Data, Larger, Hole
<1> QED BY <1>6, <1>7, <1>11 DEF WInv

\* write.
LEMMA WriteStep ==
    ASSUME WInv, NEW size \in Sizes, Write(size)
    PROVE  WInv' /\ File!Next
<1>1. FlushFirst(size) \in BOOLEAN /\ size \in Nat /\ m_file
  BY StreamOK, WriterOK DEF FlushFirst, Write
<1>2. PICK f \in Flushes(FlushFirst(size)) :
         \/ Refused(f)
         \/ /\ f.done
            /\ WriteDirect(f, size) \/ WriteBuffered(f, size)
            /\ writes' = writes + 1
            /\ torn' = f.torn
            /\ UNCHANGED m_file
  BY DEF Write
<1>3. CASE Refused(f)
  BY <1>1, <1>3, RefusedStep DEF File!Next
<1>4. CASE /\ f.done /\ WriteDirect(f, size) /\ writes' = writes + 1
           /\ torn' = f.torn /\ UNCHANGED m_file
  <2>1. WInv' /\ \E n \in 0 .. size : File!Write(size, n)
    BY <1>1, <1>4, DirectStep
  <2> QED BY <2>1 DEF File!Next
<1>5. CASE /\ f.done /\ WriteBuffered(f, size) /\ writes' = writes + 1
           /\ torn' = f.torn /\ UNCHANGED m_file
  <2>1. WInv' /\ File!Write(size, size)
    BY <1>1, <1>5, BufferedStep
  <2>2. size \in 0 .. size
    BY <1>1
  <2> QED BY <2>1, <2>2 DEF File!Next
<1> QED BY <1>2, <1>3, <1>4, <1>5

\* What the calls other than write leave, when their flush is done: nothing in
\* the buffer, and in the file all of it.
LEMMA FlushedStep ==
    ASSUME WInv, NEW needed \in BOOLEAN, NEW f \in Flushes(needed), f.done,
           disk' \in {f.disk, Empty}, offset' \in Nat, m_file' \in BOOLEAN,
           m_buffer_position' \in {0, f.left}, needed \/ ~m_file,
           torn' = f.torn, result' \in BOOLEAN, refusals' \in Nat,
           UNCHANGED <<m_buffer, writes>>
    PROVE  /\ WInv'
           /\ f.left = 0
           /\ m_buffer_position' = 0
           /\ torn' = torn
           /\ f.disk = Content
           /\ f.offset = offset + m_buffer_position
           /\ Content' = disk'
           /\ GetPosition' = IF m_file' THEN offset' ELSE 0
<1>1. /\ IsFile(f.disk) /\ f.offset \in Nat /\ f.left \in {0, m_buffer_position}
      /\ needed => f.left = 0
      /\ f.left = 0 => f.disk = Content
      /\ f.offset + f.left = offset + m_buffer_position
      /\ f.torn = torn
  BY FlushDone DEF WInv
<1>2. BufferSize \in Nat /\ f.left = 0 /\ m_buffer_position' = 0
  BY <1>1, StreamOK, WriterOK DEF WInv, ClosedIsFlushed
<1>3. f.offset = offset + m_buffer_position
  BY <1>1, <1>2
<1>4. IsFile(Empty)
  BY DEF IsFile, Empty
<1>5. TypeOK'
  <2>1. IsFile(disk') /\ m_buffer_position' \in 0 .. BufferSize
    BY <1>1, <1>2, <1>4
  <2>2. torn' \in BOOLEAN
    BY <1>1 DEF WInv, TypeOK
  <2>3. m_buffer' \in [0 .. BufferSize - 1 -> Bytes] /\ writes' \in Nat
    BY DEF WInv, TypeOK
  <2> QED BY <2>1, <2>2, <2>3 DEF TypeOK
<1>6. ClosedIsFlushed'
  BY <1>2 DEF ClosedIsFlushed
<1>7. Content' = disk'
  BY <1>2 DEF Content, Overlay
<1>8. GetPosition' = IF m_file' THEN offset' ELSE 0
  <2>1. \A x \in Nat : x + 0 = x
    OBVIOUS
  <2>2. offset' + m_buffer_position' = offset'
    BY <1>2, <2>1, Zenon
  <2> QED BY <2>2 DEF GetPosition
<1>9. f.disk = Content /\ torn' = torn
  BY <1>1, <1>2
<1> QED BY <1>2, <1>3, <1>5, <1>6, <1>7, <1>8, <1>9 DEF WInv

\* seek.
LEMMA SeekStep ==
    ASSUME WInv, NEW p \in Positions, Seek(p)
    PROVE  WInv' /\ File!Next
<1>1. PICK f \in Flushes(TRUE) :
         \/ Refused(f)
         \/ /\ f.done
            /\ disk' = f.disk
            /\ offset' = p
            /\ m_buffer_position' = f.left
            /\ torn' = f.torn
            /\ result' = TRUE
            /\ UNCHANGED <<m_file, m_buffer, writes, refusals>>
  BY DEF Seek
<1>2. CASE Refused(f)
  BY <1>2, RefusedStep DEF File!Next
<1>3. CASE ~Refused(f)
  <2>1. /\ f.done /\ disk' = f.disk /\ offset' = p /\ m_buffer_position' = f.left
        /\ torn' = f.torn /\ result' = TRUE
        /\ UNCHANGED <<m_file, m_buffer, writes, refusals>>
    BY <1>1, <1>3
  <2>2. m_file /\ p \in Nat /\ refusals \in Nat /\ m_file \in BOOLEAN
    BY StreamOK, WriterOK DEF Seek, WInv, TypeOK
  <2>3. WInv' /\ torn' = torn /\ Content' = Content /\ GetPosition' = p
    BY <2>1, <2>2, FlushedStep
  <2>4. File!Seek(p)
    BY <2>1, <2>2, <2>3 DEF File!Seek
  <2> QED BY <2>3, <2>4 DEF File!Next
<1> QED BY <1>2, <1>3

\* flush.
LEMMA FlushStep ==
    ASSUME WInv, Flush
    PROVE  WInv' /\ File!Next
<1>1. PICK f \in Flushes(TRUE) :
         \/ Refused(f)
         \/ /\ f.done
            /\ disk' = f.disk
            /\ offset' = f.offset
            /\ m_buffer_position' = f.left
            /\ torn' = f.torn
            /\ result' = TRUE
            /\ UNCHANGED <<m_file, m_buffer, writes, refusals>>
  BY DEF Flush
<1>2. CASE Refused(f)
  BY <1>2, RefusedStep DEF File!Next
<1>3. CASE ~Refused(f)
  <2>1. /\ f.done /\ disk' = f.disk /\ offset' = f.offset /\ m_buffer_position' = f.left
        /\ torn' = f.torn /\ result' = TRUE
        /\ UNCHANGED <<m_file, m_buffer, writes, refusals>>
    BY <1>1, <1>3
  <2>2. refusals \in Nat /\ m_file \in BOOLEAN /\ f.offset \in Nat
    BY <2>1, FlushDone DEF WInv, TypeOK
  <2>3. /\ WInv' /\ torn' = torn /\ Content' = Content
        /\ GetPosition' = IF m_file' THEN offset' ELSE 0
        /\ f.offset = offset + m_buffer_position
    BY <2>1, <2>2, FlushedStep
  <2>4. GetPosition' = GetPosition
    BY <2>1, <2>3 DEF GetPosition
  <2>5. File!NoEffect
    BY <2>1, <2>3, <2>4 DEF File!NoEffect
  <2> QED BY <2>3, <2>5 DEF File!Next
<1> QED BY <1>2, <1>3

\* close.
LEMMA CloseStep ==
    ASSUME WInv, Close
    PROVE  WInv' /\ File!Next
<1>1. PICK f \in Flushes(TRUE) :
         \/ Refused(f)
         \/ /\ f.done
            /\ disk' = f.disk
            /\ offset' = 0
            /\ m_buffer_position' = f.left
            /\ torn' = f.torn
            /\ m_file' = FALSE
            /\ result' \in {r \in BOOLEAN : r => m_file}
            /\ UNCHANGED <<m_buffer, writes, refusals>>
  BY DEF Close
<1>2. CASE Refused(f)
  BY <1>2, RefusedStep DEF File!Next
<1>3. CASE ~Refused(f)
  <2>1. /\ f.done /\ disk' = f.disk /\ offset' = 0 /\ m_buffer_position' = f.left
        /\ torn' = f.torn /\ m_file' = FALSE /\ result' \in BOOLEAN
        /\ UNCHANGED <<m_buffer, writes, refusals>>
    BY <1>1, <1>3
  <2>2. refusals \in Nat
    BY DEF WInv, TypeOK
  <2>3. WInv' /\ torn' = torn /\ Content' = Content /\ GetPosition' = 0
    BY <2>1, <2>2, FlushedStep
  <2>4. File!Close
    BY <2>1, <2>3 DEF File!Close
  <2> QED BY <2>3, <2>4 DEF File!Next
<1> QED BY <1>2, <1>3

\* open, when the system opens the file.
LEMMA OpenStep ==
    ASSUME WInv, Open
    PROVE  WInv' /\ File!Next
<1>1. PICK f \in Flushes(m_file) :
         \/ Refused(f)
         \/ /\ f.done
            /\ disk' = Empty
            /\ offset' = 0
            /\ m_buffer_position' = 0
            /\ torn' = f.torn
            /\ m_file' = TRUE
            /\ result' = TRUE
            /\ UNCHANGED <<m_buffer, writes, refusals>>
  BY DEF Open
<1>2. refusals \in Nat /\ m_file \in BOOLEAN
  BY DEF WInv, TypeOK
<1>3. CASE Refused(f)
  BY <1>2, <1>3, RefusedStep DEF File!Next
<1>4. CASE ~Refused(f)
  <2>1. /\ f.done /\ disk' = Empty /\ offset' = 0 /\ m_buffer_position' = 0
        /\ torn' = f.torn /\ m_file' = TRUE /\ result' = TRUE
        /\ UNCHANGED <<m_buffer, writes, refusals>>
    BY <1>1, <1>4
  <2>2. WInv' /\ torn' = torn /\ Content' = Empty /\ GetPosition' = 0
    BY <1>2, <2>1, FlushedStep
  <2>3. File!Open
    BY <2>1, <2>2 DEF File!Open, File!Empty, File!Hole, Empty, Hole
  <2> QED BY <2>2, <2>3 DEF File!Next
<1> QED BY <1>3, <1>4

\* open, when the system does not.
LEMMA OpenFailsStep ==
    ASSUME WInv, OpenFails
    PROVE  WInv' /\ File!Next
<1>1. PICK f \in Flushes(m_file) :
         /\ f.done /\ disk' = f.disk /\ offset' = 0 /\ m_buffer_position' = 0
         /\ torn' = f.torn /\ m_file' = FALSE /\ result' = FALSE
         /\ refusals' = refusals + 1 /\ UNCHANGED <<m_buffer, writes>>
  BY DEF OpenFails
<1>2. refusals' \in Nat /\ m_file \in BOOLEAN
  BY <1>1 DEF WInv, TypeOK
<1>3. WInv' /\ torn' = torn /\ Content' = Content /\ GetPosition' = 0
  BY <1>1, <1>2, FlushedStep
<1>4. File!Close
  BY <1>1, <1>3 DEF File!Close
<1> QED BY <1>3, <1>4 DEF File!Next

-----------------------------------------------------------------------------
(* The theorems. *)

LEMMA WriterInitKeeps == Init => WInv
<1> SUFFICES ASSUME Init PROVE WInv
  OBVIOUS
<1>1. Hole \in Bytes /\ BufferSize \in Nat /\ IsFile(Empty)
  BY StreamOK, WriterOK DEF Hole, Bytes, IsFile, Empty
<1>2. TypeOK
  <2>1. m_buffer_position \in 0 .. BufferSize /\ m_buffer \in [0 .. BufferSize - 1 -> Bytes]
    BY <1>1 DEF Init
  <2> QED BY <1>1, <2>1 DEF Init, TypeOK
<1>3. ClosedIsFlushed
  BY DEF Init, ClosedIsFlushed
<1> QED BY <1>2, <1>3 DEF WInv

\* Every step keeps the invariant and is a step of the file the caller sees.
LEMMA WriterStepKeeps == WInv /\ [Next]_vars => WInv' /\ [File!Next]_(File!vars)
<1> SUFFICES ASSUME WInv, [Next]_vars PROVE WInv' /\ [File!Next]_(File!vars)
  OBVIOUS
<1>1. CASE \E size \in Sizes : Write(size)
  BY <1>1, WriteStep
<1>2. CASE \E p \in Positions : Seek(p)
  BY <1>2, SeekStep
<1>3. CASE Flush
  BY <1>3, FlushStep
<1>4. CASE Close
  BY <1>4, CloseStep
<1>5. CASE Open
  BY <1>5, OpenStep
<1>6. CASE OpenFails
  BY <1>6, OpenFailsStep
<1>7. CASE UNCHANGED vars
  <2>1. UNCHANGED <<Content, GetPosition>>
    BY <1>7 DEF vars, Content, GetPosition
  <2> QED BY <1>7, <2>1 DEF vars, WInv, TypeOK, ClosedIsFlushed, File!vars
<1> QED BY <1>1, <1>2, <1>3, <1>4, <1>5, <1>6, <1>7 DEF Next

\* The invariant holds in every state the stream reaches: the buffer is never
\* overrun, and a stream without a file holds no byte back.
THEOREM WriterInvariant == Spec => []WInv
<1>1. Init => WInv
  BY WriterInitKeeps
<1>2. WInv /\ [Next]_vars => WInv'
  BY WriterStepKeeps
<1> QED BY <1>1, <1>2, PTL DEF Spec

\* write, seek, flush, close and open keep the types of the state and the buffer
\* within its size.
THEOREM WriterTypes == Spec => []TypeOK
<1>1. WInv => TypeOK
  BY DEF WInv
<1> QED BY <1>1, WriterInvariant, PTL

\* Whatever the system refuses, no byte the caller was told is written stays
\* behind in the buffer of a closed stream.
THEOREM NothingHeldBack == Spec => []ClosedIsFlushed
<1>1. WInv => ClosedIsFlushed
  BY DEF WInv
<1> QED BY <1>1, WriterInvariant, PTL

\* The buffered stream implements the file of bytes with a position, for every
\* size of the buffer, of the writes and of the seeks.
THEOREM WriterIsFile == Spec => ImplementsByteFile
<1>1. Init => File!Init
  <2> SUFFICES ASSUME Init PROVE File!Init
    OBVIOUS
  <2>1. Content = Empty /\ GetPosition = 0
    BY DEF Init, Content, GetPosition, Overlay
  <2> QED BY <2>1 DEF Init, File!Init, File!Empty, File!Hole, Empty, Hole
<1>2. WInv /\ [Next]_vars => [File!Next]_(File!vars)
  BY WriterStepKeeps
<1> QED BY <1>1, <1>2, WriterInvariant, PTL DEF Spec, ImplementsByteFile, File!Spec

-----------------------------------------------------------------------------
(* The reader. *)

\* The buffer holds the bytes of the file up to the position of the system.
BufferMatches == \A i \in 0 .. filled - 1 : m_buffer[i] = offset - filled + i

\* A buffer that was not filled whole holds the end of the file.
ShortAtEnd == filled = 0 \/ filled = BufferSize \/ offset = file_size

\* The caller is where m_buffer_position says, in the buffer or behind it, and
\* a buffer that does not hold the start of the file lies behind a full one.
PositionMatches ==
    /\ offset = filled \/ offset - filled >= BufferSize
    /\ IF m_buffer_position = 0 THEN filled = 0 /\ position = offset
       ELSE m_buffer_position <= filled /\ position = offset - filled + m_buffer_position

\* The inductive invariant of the reader.
RInv ==
    /\ ReaderTypeOK
    /\ BufferMatches
    /\ ShortAtEnd
    /\ m_file /\ regular => PositionMatches
    /\ ReadsExact
    /\ NoOverrun

-----------------------------------------------------------------------------
\* What a read of n bytes leaves to be read is where the system is in the file,
\* and what it took from the buffer before is the bytes in front of that.
LEMMA RestExact ==
    ASSUME RInv, m_file, regular, NEW n \in Nat, position + n <= file_size
    PROVE  /\ Rest(n) \in 0 .. n
           /\ Crossing(n) => n - Rest(n) > 0 /\ position + Rest(n) = offset
           /\ Start(n) # 0 => ~Crossing(n) /\ m_buffer_position + n <= filled
           /\ \A i \in 0 .. Rest(n) - 1 : m_buffer[m_buffer_position + i] = position + i
<1>1. /\ BufferSize \in Nat \ {0} /\ file_size \in Nat
      /\ filled \in 0 .. BufferSize /\ filled <= offset /\ offset \in 0 .. file_size
      /\ m_buffer_position \in Nat /\ position \in Nat
  BY StreamOK, ReaderOK DEF RInv, ReaderTypeOK, Smaller
<1>2. PositionMatches /\ BufferMatches /\ ShortAtEnd
  BY DEF RInv
<1>3. CASE m_buffer_position = 0
  BY <1>1, <1>3 DEF Rest, Crossing, Start
<1>4. CASE m_buffer_position > 0 /\ m_buffer_position + n <= BufferSize
  <2>1. ~Crossing(n) /\ Rest(n) = 0 /\ Start(n) = m_buffer_position
    BY <1>1, <1>4 DEF Rest, Crossing, Start
  <2>2. m_buffer_position + n <= filled
    BY <1>1, <1>2, <1>4 DEF PositionMatches, ShortAtEnd
  <2> QED BY <1>1, <2>1, <2>2
<1>5. CASE m_buffer_position > 0 /\ m_buffer_position + n > BufferSize
  <2>1. Crossing(n) /\ Rest(n) = BufferSize - m_buffer_position /\ Start(n) = 0
    BY <1>1, <1>5 DEF Rest, Crossing, Start
  <2>2. filled = BufferSize /\ m_buffer_position <= filled
    BY <1>1, <1>2, <1>5 DEF PositionMatches, ShortAtEnd
  <2>3. position = offset - filled + m_buffer_position
    BY <1>2, <1>5 DEF PositionMatches
  <2>4. ASSUME NEW i \in 0 .. Rest(n) - 1
        PROVE  m_buffer[m_buffer_position + i] = position + i
    <3>1. m_buffer_position + i \in 0 .. filled - 1
      BY <1>1, <2>1, <2>2
    <3> QED BY <1>1, <1>2, <2>3, <3>1 DEF BufferMatches
  <2> QED BY <1>1, <1>5, <2>1, <2>2, <2>3, <2>4
<1> QED BY <1>1, <1>3, <1>4, <1>5

\* A read of n bytes of which the part that is not in the buffer is read
\* directly from the file.
LEMMA DirectRead ==
    ASSUME RInv, m_file, regular, NEW n \in Nat, position + n <= file_size,
           n > 0 \/ m_buffer_position > 0, ReadDirect(n)
    PROVE  /\ output'.ok /\ output'.size = n /\ output'.from = position
           /\ \A i \in 0 .. n - 1 : output'.byte[i] = position + i
           /\ m_buffer_position' = 0 /\ offset' = position + n
           /\ filled' = 0 /\ offset' >= BufferSize
<1> DEFINE left == n - Rest(n)
<1>1. /\ BufferSize \in Nat \ {0} /\ file_size \in Nat /\ offset \in 0 .. file_size
      /\ m_buffer_position \in Nat /\ position \in Nat
  BY StreamOK, ReaderOK DEF RInv, ReaderTypeOK
<1>2. /\ Rest(n) \in 0 .. n
      /\ Crossing(n) => left > 0 /\ position + Rest(n) = offset
      /\ Start(n) # 0 => ~Crossing(n) /\ m_buffer_position + n <= filled
      /\ \A i \in 0 .. Rest(n) - 1 : m_buffer[m_buffer_position + i] = position + i
  BY RestExact
<1>3. filled \in Nat /\ filled <= BufferSize /\ PositionMatches
  BY <1>1 DEF RInv, ReaderTypeOK, Smaller
<1>4. left >= BufferSize
  BY DEF ReadDirect
<1>5. Start(n) = 0
  <2> SUFFICES ASSUME Start(n) # 0 PROVE FALSE
    OBVIOUS
  <2>1. ~Crossing(n) /\ Rest(n) = 0 /\ m_buffer_position > 0
    BY <1>1, <1>2 DEF Rest, Start
  <2> QED BY <1>1, <1>2, <1>3, <1>4, <2>1
<1>6. position + Rest(n) = offset
  <2>1. CASE Crossing(n)
    BY <1>2, <2>1
  <2>2. CASE ~Crossing(n)
    BY <1>1, <1>3, <1>5, <2>2 DEF Start, Rest, PositionMatches
  <2> QED BY <2>1, <2>2
<1>7. Available(left) = left /\ left \in Nat
  BY <1>1, <1>2, <1>6 DEF Available, Smaller
<1>8. output' = [ok |-> TRUE, from |-> position, size |-> n,
                 byte |-> Delivered(n, [i \in 0 .. left - 1 |->
                                       IF i < left THEN offset + i ELSE Unknown])]
  BY <1>7 DEF ReadDirect, Returned
<1>9. ASSUME NEW i \in 0 .. n - 1 PROVE output'.byte[i] = position + i
  <2>1. CASE i < Rest(n)
    <3>1. output'.byte[i] = m_buffer[m_buffer_position + i]
      BY <1>8, <2>1 DEF Delivered
    <3> QED BY <1>1, <1>2, <2>1, <3>1
  <2>2. CASE ~(i < Rest(n))
    <3>1. i - Rest(n) \in 0 .. left - 1 /\ i - Rest(n) < left
      BY <1>2, <2>2
    <3>2. output'.byte[i] = offset + (i - Rest(n))
      BY <1>8, <2>2, <3>1 DEF Delivered
    <3> QED BY <1>1, <1>2, <1>6, <3>2
  <2> QED BY <2>1, <2>2
<1>10. /\ m_buffer_position' = 0 /\ offset' = position + n
       /\ filled' = 0 /\ offset' >= BufferSize
  BY SMTT(30), <1>1, <1>2, <1>4, <1>5, <1>6, <1>7 DEF ReadDirect
<1> QED BY <1>8, <1>9, <1>10

\* A read of n bytes whose last part comes from the buffer, new or old.
LEMMA BufferedRead ==
    ASSUME RInv, m_file, regular, NEW n \in Nat, position + n <= file_size,
           n > 0 \/ m_buffer_position > 0, ReadBuffered(n)
    PROVE  /\ output'.ok /\ output'.size = n /\ output'.from = position
           /\ \A i \in 0 .. n - 1 : output'.byte[i] = position + i
           /\ m_buffer_position' > 0 /\ m_buffer_position' <= filled'
           /\ position + n = offset' - filled' + m_buffer_position'
           /\ offset' = filled' \/ offset' - filled' >= BufferSize
<1> DEFINE left == n - Rest(n)
           buffer == IF Start(n) = 0 THEN Filled ELSE m_buffer
<1>1. /\ BufferSize \in Nat \ {0} /\ file_size \in Nat /\ offset \in 0 .. file_size
      /\ m_buffer_position \in Nat /\ position \in Nat
      /\ filled \in Nat /\ filled <= BufferSize /\ filled <= offset
  BY StreamOK, ReaderOK DEF RInv, ReaderTypeOK, Smaller
<1>2. /\ Rest(n) \in 0 .. n
      /\ Crossing(n) => left > 0 /\ position + Rest(n) = offset
      /\ Start(n) # 0 => ~Crossing(n) /\ m_buffer_position + n <= filled
      /\ \A i \in 0 .. Rest(n) - 1 : m_buffer[m_buffer_position + i] = position + i
  BY RestExact
<1>3. PositionMatches /\ BufferMatches
  BY DEF RInv
<1>4. left < BufferSize /\ left \in Nat
  BY <1>1, <1>2 DEF ReadBuffered
<1>5. output' = [ok |-> TRUE, from |-> position, size |-> n,
                 byte |-> Delivered(n, [i \in 0 .. left - 1 |-> buffer[Start(n) + i]])]
  BY DEF ReadBuffered, Returned
<1>6. m_buffer_position' = Start(n) + left
  BY DEF ReadBuffered
<1>7. CASE Start(n) = 0
  <2>1. position + Rest(n) = offset /\ left > 0
    <3>1. CASE Crossing(n)
      BY <1>2, <3>1
    <3>2. CASE ~Crossing(n)
      BY <1>1, <1>3, <1>7, <3>2 DEF Start, Rest, PositionMatches
    <3> QED BY <3>1, <3>2
  <2>2. Available(BufferSize) \in left .. BufferSize
    BY <1>1, <1>2, <1>4, <2>1 DEF Available, Smaller
  <2>3. filled' = Available(BufferSize) /\ offset' = offset + Available(BufferSize)
    BY <1>4, <1>7, <2>1, <2>2 DEF ReadBuffered
  <2>4. ASSUME NEW i \in 0 .. left - 1 PROVE buffer[Start(n) + i] = offset + i
    <3>1. buffer = Filled /\ Start(n) + i = i
      BY <1>7
    <3>2. i \in 0 .. BufferSize - 1 /\ i < Available(BufferSize)
      BY <1>1, <1>4, <2>2
    <3> QED BY <3>1, <3>2 DEF Filled
  <2>5. ASSUME NEW i \in 0 .. n - 1 PROVE output'.byte[i] = position + i
    <3>1. CASE i < Rest(n)
      <4>1. output'.byte[i] = m_buffer[m_buffer_position + i]
        BY <1>5, <3>1 DEF Delivered
      <4> QED BY <1>1, <1>2, <3>1, <4>1
    <3>2. CASE ~(i < Rest(n))
      <4>1. i - Rest(n) \in 0 .. left - 1
        BY <1>2, <3>2
      <4>2. output'.byte[i] = buffer[Start(n) + (i - Rest(n))]
        BY <1>5, <3>2, <4>1 DEF Delivered
      <4>3. buffer[Start(n) + (i - Rest(n))] = offset + (i - Rest(n))
        BY <2>4, <4>1
      <4> HIDE DEF left, buffer
      <4> QED BY <1>1, <1>2, <2>1, <4>2, <4>3
    <3> QED BY <3>1, <3>2
  <2>6. m_buffer_position' = left
    BY <1>4, <1>6, <1>7
  <2>7. m_buffer_position' > 0 /\ m_buffer_position' <= filled'
    BY <1>4, <2>1, <2>2, <2>3, <2>6
  <2>8. position + n = offset' - filled' + m_buffer_position'
    <3>1. Available(BufferSize) \in Nat /\ n = Rest(n) + left /\ Rest(n) \in Nat
      BY <1>1, <1>2, <1>4, <2>2
    <3> HIDE DEF left
    <3> QED BY <1>1, <1>4, <2>1, <2>3, <2>6, <3>1
  <2>9. offset = 0 \/ offset >= BufferSize
    <3>1. CASE Crossing(n)
      <4>1. m_buffer_position > 0 /\ m_buffer_position + n > BufferSize
        BY <3>1 DEF Crossing
      <4>2. filled = BufferSize
        BY <1>1, <1>3, <4>1 DEF PositionMatches, RInv, ShortAtEnd
      <4> QED BY <1>1, <4>2
    <3>2. CASE ~Crossing(n)
      BY <1>1, <1>3, <1>7, <3>2 DEF Start, PositionMatches
    <3> QED BY <3>1, <3>2
  <2>10. offset' = filled' \/ offset' - filled' >= BufferSize
    <3>1. Available(BufferSize) \in Nat
      BY <1>1, <1>4, <2>2
    <3> QED BY <1>1, <2>3, <2>9, <3>1
  <2> QED BY <1>5, <2>5, <2>7, <2>8, <2>10
<1>8. CASE Start(n) # 0
  <2>1. /\ ~Crossing(n) /\ m_buffer_position + n <= filled
        /\ Rest(n) = 0 /\ Start(n) = m_buffer_position /\ m_buffer_position > 0
        /\ left = n
    BY <1>1, <1>2, <1>8 DEF Rest, Start
  <2>2. filled' = filled /\ offset' = offset
    BY <1>1, <1>8 DEF ReadBuffered
  <2>3. position = offset - filled + m_buffer_position
    BY <1>3, <2>1 DEF PositionMatches
  <2>4. ASSUME NEW i \in 0 .. n - 1 PROVE output'.byte[i] = position + i
    <3>1. output'.byte[i] = m_buffer[m_buffer_position + i]
      BY <1>5, <1>8, <2>1 DEF Delivered
    <3>2. m_buffer_position + i \in 0 .. filled - 1
      BY <1>1, <2>1
    <3>3. m_buffer[m_buffer_position + i] = offset - filled + (m_buffer_position + i)
      BY <1>3, <3>2 DEF BufferMatches
    <3> QED BY <1>1, <2>3, <3>1, <3>3
  <2>5. offset' = filled' \/ offset' - filled' >= BufferSize
    BY <1>3, <2>2 DEF PositionMatches
  <2>6. /\ m_buffer_position' > 0 /\ m_buffer_position' <= filled'
        /\ position + n = offset' - filled' + m_buffer_position'
    <3>1. m_buffer_position' = m_buffer_position + n
      BY <1>6, <2>1
    <3> HIDE DEF left, buffer
    <3> QED BY <1>1, <2>1, <2>2, <2>3, <3>1
  <2> QED BY <1>5, <2>4, <2>5, <2>6
<1> QED BY <1>7, <1>8

-----------------------------------------------------------------------------
\* A read keeps the types, supported or not.
LEMMA ReadType ==
    ASSUME ReaderTypeOK, BufferMatches, ShortAtEnd, NEW n \in Sizes, Read(n)
    PROVE  ReaderTypeOK' /\ BufferMatches' /\ ShortAtEnd'
<1>1. /\ BufferSize \in Nat \ {0} /\ file_size \in Nat /\ offset \in 0 .. file_size
      /\ m_buffer_position \in 0 .. BufferSize /\ position \in Nat /\ n \in Nat
      /\ filled \in Nat /\ filled <= BufferSize /\ filled <= offset
      /\ m_buffer \in [0 .. BufferSize - 1 -> Memory]
  BY StreamOK, ReaderOK DEF ReaderTypeOK, Smaller, Read
<1>2. /\ Rest(n) \in 0 .. n
      /\ \A i \in 0 .. Rest(n) - 1 : m_buffer_position + i \in 0 .. BufferSize - 1
      /\ Start(n) \in Nat
      /\ Start(n) # 0 => /\ Rest(n) = 0 /\ Start(n) + n <= BufferSize
  BY <1>1 DEF Rest, Start, Crossing
<1> DEFINE left == n - Rest(n)
<1>3. left \in Nat /\ left <= n
  BY <1>1, <1>2
<1>4. ASSUME NEW tail \in [0 .. left - 1 -> Memory]
      PROVE  Delivered(n, tail) \in [0 .. n - 1 -> Memory]
  <2> SUFFICES ASSUME NEW i \in 0 .. n - 1
               PROVE (IF i < Rest(n) THEN m_buffer[m_buffer_position + i]
                      ELSE tail[i - Rest(n)]) \in Memory
    BY DEF Delivered
  <2>1. CASE i < Rest(n)
    BY <1>1, <1>2, <2>1
  <2>2. CASE ~(i < Rest(n))
    <3>1. i - Rest(n) \in 0 .. left - 1
      BY <1>1, <1>2, <2>2
    <3> QED BY <2>2, <3>1
  <2> QED BY <2>1, <2>2
<1>5. ASSUME NEW k \in Nat
      PROVE  Available(k) \in 0 .. k /\ offset + Available(k) \in 0 .. file_size
  BY <1>1 DEF Available, Smaller
<1>6. UNCHANGED <<file_size, m_file, overrun>> /\ position' \in Nat /\ regular' \in BOOLEAN
  BY <1>1 DEF Read, ReaderTypeOK
<1>7. CASE ReadDirect(n)
  <2> DEFINE tail == [i \in 0 .. left - 1 |->
                         IF i < Available(left) THEN offset + i ELSE Unknown]
  <2>1. tail \in [0 .. left - 1 -> Memory]
    BY <1>1 DEF Memory
  <2>2. output' = [ok |-> Available(left) = left, from |-> position, size |-> n,
                   byte |-> Delivered(n, tail)]
    BY <1>7 DEF ReadDirect, Returned
  <2>3. Delivered(n, tail) \in [0 .. n - 1 -> Memory]
    BY <1>4, <2>1
  <2>4. /\ output'.ok \in BOOLEAN /\ output'.from \in Nat /\ output'.size \in Nat
        /\ output'.byte \in [0 .. output'.size - 1 -> Memory]
    <3> HIDE DEF tail, left
    <3> QED BY <1>1, <2>2, <2>3
  <2>5. /\ offset' \in 0 .. file_size /\ m_buffer_position' \in Nat
        /\ filled' = 0 /\ m_buffer' = m_buffer
    BY <1>2, <1>3, <1>5, <1>7 DEF ReadDirect
  <2>6. ReaderTypeOK'
    BY SMTT(30), <1>1, <1>6, <2>4, <2>5 DEF ReaderTypeOK, Smaller
  <2> QED BY <2>5, <2>6 DEF BufferMatches, ShortAtEnd
<1>8. CASE ReadBuffered(n)
  <2> DEFINE fill   == Start(n) = 0
             got    == IF fill THEN Available(BufferSize) ELSE 0
             buffer == IF fill THEN Filled ELSE m_buffer
             tail   == [i \in 0 .. left - 1 |-> buffer[Start(n) + i]]
  <2>1. buffer \in [0 .. BufferSize - 1 -> Memory]
    BY <1>1 DEF Filled, Memory
  <2>2. tail \in [0 .. left - 1 -> Memory]
    <3>1. ASSUME NEW i \in 0 .. left - 1 PROVE Start(n) + i \in 0 .. BufferSize - 1
      <4>1. left < BufferSize
        BY <1>8 DEF ReadBuffered
      <4> HIDE DEF left
      <4>2. CASE Start(n) = 0
        BY <1>1, <1>3, <4>1, <4>2
      <4>3. CASE Start(n) # 0
        BY <1>1, <1>2, <1>3, <4>3
      <4> QED BY <4>2, <4>3
    <3> HIDE DEF buffer, left
    <3> QED BY <2>1, <3>1
  <2>3. output' = [ok |-> TRUE, from |-> position, size |-> n, byte |-> Delivered(n, tail)]
    BY <1>8 DEF ReadBuffered, Returned
  <2>4. Delivered(n, tail) \in [0 .. n - 1 -> Memory]
    BY <1>4, <2>2
  <2>5. /\ output'.ok \in BOOLEAN /\ output'.from \in Nat /\ output'.size \in Nat
        /\ output'.byte \in [0 .. output'.size - 1 -> Memory]
    <3> HIDE DEF tail, left
    <3> QED BY <1>1, <2>3, <2>4
  <2>6. /\ offset' = offset + got /\ m_buffer' = buffer
        /\ m_buffer_position' = Start(n) + left
        /\ filled' = IF got > 0 THEN got ELSE filled
    BY <1>8 DEF ReadBuffered
  <2>7. /\ got \in 0 .. BufferSize /\ offset + got \in 0 .. file_size
        /\ got > 0 => fill /\ got = Available(BufferSize)
        /\ got = BufferSize \/ offset + got = file_size \/ ~fill
    BY <1>1, <1>5 DEF Available, Smaller
  <2>8. \A i \in 0 .. BufferSize - 1 :
           buffer[i] = IF i < got THEN offset + i ELSE m_buffer[i]
    BY <1>1, <2>7 DEF Filled
  <2>9. filled' \in 0 .. BufferSize /\ filled' <= offset' /\ offset' \in 0 .. file_size
    <3> HIDE DEF got, fill, buffer
    <3> QED BY <1>1, <2>6, <2>7
  <2>10. ReaderTypeOK'
    <3>1. m_buffer_position' \in Nat
      BY <1>2, <1>3, <2>6
    <3> HIDE DEF got, fill, buffer, tail, left
    <3> QED BY <1>1, <1>6, <2>1, <2>5, <2>6, <2>9, <3>1 DEF ReaderTypeOK, Smaller
  <2>11. BufferMatches'
    <3> HIDE DEF got, fill, buffer, tail, left
    <3>1. CASE got > 0
      <4>1. filled' = got /\ offset' - filled' = offset /\ m_buffer' = buffer
        BY <1>1, <2>6, <2>7, <3>1
      <4>2. \A i \in 0 .. got - 1 : buffer[i] = offset + i
        BY <1>1, <2>7, <2>8
      <4> QED BY <4>1, <4>2 DEF BufferMatches
    <3>2. CASE ~(got > 0)
      <4>1. filled' = filled /\ offset' = offset /\ m_buffer' = buffer /\ got = 0
        BY <1>1, <2>6, <2>7, <3>2
      <4>2. \A i \in 0 .. filled - 1 : buffer[i] = m_buffer[i]
        BY <1>1, <2>8, <4>1
      <4> QED BY <4>1, <4>2 DEF BufferMatches
    <3> QED BY <3>1, <3>2
  <2>12. ShortAtEnd'
    <3> HIDE DEF got, fill, buffer, tail, left
    <3> QED BY <1>1, <1>6, <2>6, <2>7 DEF ShortAtEnd
  <2> QED BY <2>10, <2>11, <2>12
<1> QED BY <1>7, <1>8 DEF Read

\* What is returned by a call that is no read.
LEMMA NoOutputType ==
    /\ NoOutput.ok \in BOOLEAN /\ NoOutput.from \in Nat /\ NoOutput.size \in Nat
    /\ NoOutput.byte \in [0 .. NoOutput.size - 1 -> Memory]
BY DEF NoOutput

\* The invariant holds at the start.
LEMMA ReaderInitKeeps == ReaderInit => RInv
<1> SUFFICES ASSUME ReaderInit PROVE RInv
  OBVIOUS
<1>1. ReaderTypeOK
  <2>1. file_size \in Nat /\ BufferSize \in Nat
    BY StreamOK, ReaderOK DEF ReaderInit
  <2>2. m_buffer \in [0 .. BufferSize - 1 -> Memory]
    BY DEF ReaderInit, Memory
  <2>3. offset \in 0 .. file_size /\ filled \in 0 .. Smaller(BufferSize, offset)
    BY <2>1 DEF ReaderInit, Smaller
  <2> QED BY <2>2, <2>3, NoOutputType DEF ReaderInit, ReaderTypeOK
<1>2. BufferMatches /\ ShortAtEnd
  BY DEF ReaderInit, BufferMatches, ShortAtEnd
<1>3. ReadsExact /\ NoOverrun
  BY DEF ReaderInit, ReadsExact, Exact, NoOutput, NoOverrun
<1> QED BY <1>1, <1>2, <1>3 DEF RInv, ReaderInit

\* Every step keeps the invariant.
LEMMA ReaderStepKeeps == RInv /\ [ReaderNext]_readerVars => RInv'
<1> SUFFICES ASSUME RInv, [ReaderNext]_readerVars PROVE RInv'
  OBVIOUS
<1> USE DEF RInv
<1>1. CASE OpenReader
  <2>1. ReaderTypeOK'
    BY <1>1, StreamOK, ReaderOK, NoOutputType DEF OpenReader, ReaderTypeOK, Smaller
  <2>2. BufferMatches' /\ ShortAtEnd' /\ PositionMatches'
    BY <1>1 DEF OpenReader, BufferMatches, ShortAtEnd, PositionMatches
  <2>3. ReadsExact' /\ NoOverrun'
    BY <1>1 DEF OpenReader, ReadsExact, Exact, NoOutput, NoOverrun
  <2> QED BY <2>1, <2>2, <2>3
<1>2. CASE OpenReaderFails \/ CloseReader
  <2>1. ReaderTypeOK'
    <3>1. CASE OpenReaderFails
      BY <3>1, NoOutputType DEF OpenReaderFails, ReaderTypeOK
    <3>2. CASE CloseReader
      BY <3>2, NoOutputType DEF CloseReader, ReaderTypeOK
    <3> QED BY <1>2, <3>1, <3>2
  <2>2. BufferMatches' /\ ShortAtEnd' /\ ~m_file'
    BY <1>2 DEF OpenReaderFails, CloseReader, BufferMatches, ShortAtEnd
  <2>3. ReadsExact' /\ NoOverrun'
    BY <1>2 DEF OpenReaderFails, CloseReader, ReadsExact, Exact, NoOutput, NoOverrun
  <2> QED BY <2>1, <2>2, <2>3
<1>3. ASSUME NEW p \in Positions, SeekReader(p) PROVE RInv'
  <2>1. p \in Nat /\ file_size \in Nat
    BY StreamOK, ReaderOK DEF ReaderTypeOK
  <2>2. ReaderTypeOK'
    BY <1>3, <2>1, NoOutputType DEF SeekReader, ReaderTypeOK
  <2>3. BufferMatches' /\ ShortAtEnd'
    BY <1>3 DEF SeekReader, BufferMatches, ShortAtEnd
  <2>4. regular' => PositionMatches'
    <3>1. SUFFICES ASSUME regular' PROVE PositionMatches'
      OBVIOUS
    <3>2. /\ offset = filled /\ p <= filled
          /\ p > 0 \/ offset = 0
          /\ m_buffer_position' = p /\ position' = p
          /\ offset' = offset /\ filled' = filled
      BY <1>3, <3>1 DEF SeekReader
    <3>3. filled \in Nat
      BY DEF ReaderTypeOK
    <3> QED BY <2>1, <3>2, <3>3 DEF PositionMatches
  <2>5. ReadsExact' /\ NoOverrun'
    BY <1>3 DEF SeekReader, ReadsExact, Exact, NoOutput, NoOverrun
  <2> QED BY <2>2, <2>3, <2>4, <2>5
<1>4. ASSUME NEW n \in Sizes, Read(n) PROVE RInv'
  <2>1. n \in Nat /\ file_size \in Nat /\ position \in Nat /\ m_buffer_position \in Nat
    BY StreamOK, ReaderOK DEF ReaderTypeOK
  <2>2. ReaderTypeOK' /\ BufferMatches' /\ ShortAtEnd'
    BY <1>4, ReadType
  <2>3. NoOverrun'
    BY <1>4 DEF Read, NoOverrun
  <2>4. (m_file' /\ regular' => PositionMatches') /\ ReadsExact'
    <3>1. CASE ~regular'
      BY <3>1 DEF ReadsExact
    <3>2. CASE regular'
      <4>1. /\ m_file /\ regular /\ position + n <= file_size
            /\ n > 0 \/ m_buffer_position > 0
            /\ position' = position + n
        BY <1>4, <3>2 DEF Read
      <4>2. CASE ReadDirect(n)
        <5>1. /\ output'.ok /\ output'.size = n /\ output'.from = position
              /\ \A i \in 0 .. n - 1 : output'.byte[i] = position + i
              /\ m_buffer_position' = 0 /\ offset' = position + n
              /\ filled' = 0 /\ offset' >= BufferSize
          BY <2>1, <4>1, <4>2, DirectRead
        <5>2. PositionMatches'
          BY <2>2, <4>1, <5>1 DEF PositionMatches, ReaderTypeOK
        <5>3. ReadsExact'
          BY <5>1 DEF ReadsExact, Exact
        <5> QED BY <5>2, <5>3
      <4>3. CASE ReadBuffered(n)
        <5>1. /\ output'.ok /\ output'.size = n /\ output'.from = position
              /\ \A i \in 0 .. n - 1 : output'.byte[i] = position + i
              /\ m_buffer_position' > 0 /\ m_buffer_position' <= filled'
              /\ position + n = offset' - filled' + m_buffer_position'
              /\ offset' = filled' \/ offset' - filled' >= BufferSize
          BY <2>1, <4>1, <4>3, BufferedRead
        <5>2. PositionMatches'
          BY <4>1, <5>1, <2>2 DEF PositionMatches, ReaderTypeOK
        <5>3. ReadsExact'
          BY <5>1 DEF ReadsExact, Exact
        <5> QED BY <5>2, <5>3
      <4> QED BY <1>4, <4>2, <4>3 DEF Read
    <3> QED BY <3>1, <3>2
  <2> QED BY <2>2, <2>3, <2>4
<1>5. CASE ReadBehind
  <2>1. /\ BufferSize \in Nat /\ filled \in Nat /\ filled <= BufferSize
        /\ m_buffer_position \in Nat /\ m_buffer_position > BufferSize
    BY <1>5, StreamOK, ReaderOK DEF ReadBehind, ReaderTypeOK, Smaller
  <2>2. ~regular
    BY <1>5, <2>1 DEF ReadBehind, PositionMatches
  <2>3. ReaderTypeOK'
    BY <1>5 DEF ReadBehind, ReaderTypeOK
  <2>4. BufferMatches' /\ ShortAtEnd' /\ ~regular'
    BY <1>5, <2>2 DEF ReadBehind, BufferMatches, ShortAtEnd
  <2> QED BY <2>3, <2>4 DEF ReadsExact, NoOverrun
<1>6. CASE UNCHANGED readerVars
  <2>1. ReaderTypeOK' /\ BufferMatches' /\ ShortAtEnd'
    BY <1>6 DEF readerVars, ReaderTypeOK, BufferMatches, ShortAtEnd
  <2>2. (m_file' /\ regular' => PositionMatches') /\ ReadsExact' /\ NoOverrun'
    BY <1>6 DEF readerVars, PositionMatches, ReadsExact, Exact, NoOverrun
  <2> QED BY <2>1, <2>2
<1> QED BY <1>1, <1>2, <1>3, <1>4, <1>5, <1>6 DEF ReaderNext

\* The inductive invariant holds.
THEOREM ReaderInvariant == ReaderSpec => []RInv
BY ReaderInitKeeps, ReaderStepKeeps, PTL DEF ReaderSpec

\* The types, for every size of the buffer, of the file and of the reads.
THEOREM ReaderTypes == ReaderSpec => []ReaderTypeOK
<1>1. RInv => ReaderTypeOK
  BY DEF RInv
<1> QED BY <1>1, ReaderInvariant, PTL

\* Every supported read returns true and the bytes of the file at the position
\* of the caller.
THEOREM ReadsAreExact == ReaderSpec => []ReadsExact
<1>1. RInv => ReadsExact
  BY DEF RInv
<1> QED BY <1>1, ReaderInvariant, PTL

\* No supported call makes read take bytes from behind the buffer.
THEOREM ReadsStayInside == ReaderSpec => []NoOverrun
<1>1. RInv => NoOverrun
  BY DEF RInv
<1> QED BY <1>1, ReaderInvariant, PTL

\* Where the buffer was filled whole, or is the first, get_position is right.
THEOREM PositionIsRight == ReaderSpec => []PositionInFullBuffers
<1>1. RInv => PositionInFullBuffers
  <2> SUFFICES ASSUME RInv, m_file, regular, filled = BufferSize \/ offset < BufferSize
               PROVE  ReaderPosition = position
    BY DEF PositionInFullBuffers
  <2>1. /\ BufferSize \in Nat \ {0} /\ file_size \in Nat /\ offset \in Nat
        /\ filled \in Nat /\ filled <= offset
        /\ m_buffer_position \in Nat /\ position \in Nat
    BY StreamOK, ReaderOK DEF RInv, ReaderTypeOK, Smaller
  <2>2. PositionMatches
    BY DEF RInv
  <2> QED BY <2>1, <2>2 DEF PositionMatches, ReaderPosition
<1> QED BY <1>1, ReaderInvariant, PTL
=============================================================================
