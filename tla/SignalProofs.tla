----------------------------- MODULE SignalProofs -----------------------------
(* Proofs about Signal, for any objects, depth of sends and size of a pointer. *)
EXTENDS Signal, FiniteSetTheorems, TLAPS

\* The slots of a send that it has visited.
Visited(s) == IF s.calling THEN s.index + 1 ELSE s.index

\* The vector holds every connected object, once, and no other.
Receivers ==
    /\ m_size \in 0 .. Capacity
    /\ \A k \in 0 .. m_size - 1 : m_array[k].object \in connected
    /\ \A o \in connected : \E k \in 0 .. m_size - 1 : m_array[k].object = o
    /\ \A k, l \in 0 .. m_size - 1 : m_array[k].object = m_array[l].object => k = l

\* A send stays inside the array, and every slot it visits, also one that was
\* given up, holds an object it has seen.
InArray(s) ==
    /\ s.count <= Capacity
    /\ s.index <= s.count
    /\ s.calling => s.index < s.count
    /\ \A k \in 0 .. s.count - 1 : m_array[k].object \in s.seen
    /\ connected \subseteq s.seen
    /\ Called(s) \subseteq s.seen

\* Unless something was connected, who is still to be called stands in a slot
\* that is still to be visited.
StillComing(s) ==
    /\ s.present \subseteq connected
    /\ ~s.added =>
          \A o \in s.present :
              o \in Called(s) \/ \E k \in Visited(s) .. s.count - 1 : m_array[k].object = o

\* Unless something was disconnected, the slots to visit are as they were.
Untouched(s) ==
    ~s.removed =>
        /\ s.count <= m_size
        /\ Len(s.called) = Visited(s)
        /\ \A k \in 1 .. Len(s.called) : s.called[k] = m_array[k - 1].object
        /\ \A k \in 0 .. s.count - 1 : m_array[k].object \in s.present
        /\ \A o \in s.present : \E k \in 0 .. s.count - 1 : m_array[k].object = o

FrameOK(s) == s \in Frames /\ InArray(s) /\ StillComing(s) /\ Untouched(s)

\* The inductive invariant.
SInv ==
    /\ TypeOK
    /\ Receivers
    /\ \A i \in DOMAIN sends : FrameOK(sends[i])

-----------------------------------------------------------------------------
\* An array of n slots has capacity n.
LEMMA CapacityIs ==
    ASSUME NEW n \in Nat, NEW f, DOMAIN f = 0 .. n - 1
    PROVE  Cardinality(DOMAIN f) = n
<1>1. Cardinality(0 .. n - 1) = IF 0 > n - 1 THEN 0 ELSE (n - 1) - 0 + 1
  BY FS_Interval, 0 \in Int, n - 1 \in Int
<1> QED BY <1>1

\* The slots of the array before and after it grew.
LEMMA GrownKeeps ==
    ASSUME TypeOK, Receivers
    PROVE  /\ \E n \in Nat : /\ n > m_size /\ n >= Capacity
                             /\ Grown \in [0 .. n - 1 -> [object : Objects \cup {Nobody}, bridge : BOOLEAN]]
           /\ \A k \in 0 .. Capacity - 1 : Grown[k] = m_array[k]
<1>1. /\ m_size \in Nat /\ Capacity \in Nat /\ m_size <= Capacity
      /\ m_array \in [0 .. Capacity - 1 -> [object : Objects \cup {Nobody}, bridge : BOOLEAN]]
  BY DEF TypeOK, Receivers
<1>2. CASE m_size + 1 > Capacity
  <2>1. m_size = Capacity
    BY <1>1, <1>2
  <2>2. Garbage \in [object : Objects \cup {Nobody}, bridge : BOOLEAN]
    BY DEF Garbage
  <2>3. Grown = [i \in 0 .. 2 * (m_size + 1) - 1 |-> IF i < m_size THEN m_array[i] ELSE Garbage]
    BY <1>2 DEF Grown
  <2>4. \A i \in 0 .. 2 * (m_size + 1) - 1 : i < m_size => i \in 0 .. Capacity - 1
    BY <1>1, <2>1
  <2>5. Grown \in [0 .. 2 * (m_size + 1) - 1 -> [object : Objects \cup {Nobody}, bridge : BOOLEAN]]
    BY <1>1, <2>2, <2>3, <2>4
  <2>6. \A k \in 0 .. Capacity - 1 : k \in 0 .. 2 * (m_size + 1) - 1 /\ k < m_size
    BY <1>1, <2>1
  <2>7. \A k \in 0 .. Capacity - 1 : Grown[k] = m_array[k]
    BY <2>3, <2>6
  <2>8. 2 * (m_size + 1) \in Nat /\ 2 * (m_size + 1) > m_size /\ 2 * (m_size + 1) >= Capacity
    BY <1>1, <2>1
  <2> QED BY <2>5, <2>7, <2>8
<1>3. CASE ~(m_size + 1 > Capacity)
  <2>1. Grown = m_array /\ Capacity > m_size
    BY <1>1, <1>3 DEF Grown
  <2>2. Grown \in [0 .. Capacity - 1 -> [object : Objects \cup {Nobody}, bridge : BOOLEAN]]
    BY <1>1, <2>1
  <2>3. \A k \in 0 .. Capacity - 1 : Grown[k] = m_array[k]
    BY <2>1
  <2>4. Capacity \in Nat /\ Capacity > m_size /\ Capacity >= Capacity
    BY <1>1, <2>1
  <2> QED BY <2>2, <2>3, <2>4, Zenon
<1> QED BY <1>2, <1>3

\* Storing an object at the end changes no slot in use and enlarges the array.
LEMMA StoredKeeps ==
    ASSUME TypeOK, Receivers, NEW o \in Objects
    PROVE  /\ \E n \in Nat : /\ n > m_size /\ n >= Capacity
                             /\ Stored(o) \in [0 .. n - 1 -> [object : Objects \cup {Nobody}, bridge : BOOLEAN]]
                             /\ Cardinality(DOMAIN Stored(o)) = n
           /\ Stored(o)[m_size].object = o
           /\ \A k \in 0 .. Capacity - 1 : k # m_size => Stored(o)[k].object = m_array[k].object
<1>1. /\ m_size \in Nat /\ Capacity \in Nat
      /\ m_array \in [0 .. Capacity - 1 -> [object : Objects \cup {Nobody}, bridge : BOOLEAN]]
  BY DEF TypeOK
<1>2. PICK n \in Nat : /\ n > m_size /\ n >= Capacity
                       /\ Grown \in [0 .. n - 1 -> [object : Objects \cup {Nobody}, bridge : BOOLEAN]]
  BY GrownKeeps
<1>3. \A k \in 0 .. Capacity - 1 : Grown[k] = m_array[k]
  BY GrownKeeps
<1>4. DOMAIN Stored(o) = 0 .. n - 1
  BY <1>2 DEF Stored
<1>5. ASSUME NEW k \in 0 .. n - 1
      PROVE  /\ Stored(o)[k] \in [object : Objects \cup {Nobody}, bridge : BOOLEAN]
             /\ k # m_size => Stored(o)[k].object = Grown[k].object
  <2>1. Grown[k] \in [object : Objects \cup {Nobody}, bridge : BOOLEAN]
    BY <1>2
  <2>2. Slot(o) \in [object : Objects \cup {Nobody}, bridge : BOOLEAN]
    BY DEF Slot
  <2>3. Stored(o)[k] = IF k = m_size THEN Slot(o)
                       ELSE IF FunctionWords = 2 /\ k = m_size + 1 THEN [Grown[k] EXCEPT !.bridge = FALSE]
                       ELSE Grown[k]
    BY <1>2 DEF Stored
  <2>4. [Grown[k] EXCEPT !.bridge = FALSE] \in [object : Objects \cup {Nobody}, bridge : BOOLEAN]
        /\ [Grown[k] EXCEPT !.bridge = FALSE].object = Grown[k].object
    BY <2>1
  <2> QED BY <2>1, <2>2, <2>3, <2>4
<1>6. m_size \in 0 .. n - 1 /\ Stored(o)[m_size] = Slot(o)
  BY <1>1, <1>2 DEF Stored
<1>7. \A k \in 0 .. Capacity - 1 : k \in 0 .. n - 1
  BY <1>1, <1>2
<1>8. Stored(o) \in [0 .. n - 1 -> [object : Objects \cup {Nobody}, bridge : BOOLEAN]]
  <2>1. Stored(o) = [k \in DOMAIN Grown |-> Stored(o)[k]] /\ DOMAIN Grown = 0 .. n - 1
    BY <1>2 DEF Stored
  <2> QED BY <1>5, <2>1
<1>9. Cardinality(DOMAIN Stored(o)) = n
  BY <1>4, CapacityIs
<1> QED BY <1>2, <1>3, <1>5, <1>6, <1>7, <1>8, <1>9 DEF Slot
-----------------------------------------------------------------------------
(* A call that leaves the vector and the objects alone *)

\* Whatever happens on the top of the stack, a send with its vector is as before.
LEMMA FrameStays ==
    ASSUME NEW s, FrameOK(s), UNCHANGED <<m_array, m_size, connected>>
    PROVE  FrameOK(s)'
BY DEF FrameOK, InArray, StillComing, Untouched, Visited, Called, Capacity

LEMMA VectorStays ==
    ASSUME TypeOK, Receivers, UNCHANGED <<m_array, m_size, connected>>,
           sends' \in Seq(Frames), misdirected' \in BOOLEAN
    PROVE  TypeOK' /\ Receivers'
BY DEF TypeOK, Receivers, Capacity

\* A send begins with all connected objects still to come.
LEMMA NewSendOK ==
    ASSUME TypeOK, Receivers
    PROVE  FrameOK(NewSend)
<1> DEFINE s == NewSend
<1>1. /\ s.count = m_size /\ s.index = 0 /\ ~s.calling /\ s.present = connected
      /\ s.seen = connected /\ s.called = <<>>
  BY DEF NewSend
<1>2. s \in Frames
  BY DEF TypeOK, Frames, NewSend
<1>3. Len(s.called) = 0 /\ Called(s) = {} /\ Visited(s) = 0
  BY <1>1 DEF Called, Visited
<1>4. InArray(s)
  BY <1>1, <1>3 DEF InArray, Receivers, TypeOK
<1>5. StillComing(s)
  BY <1>1, <1>3 DEF StillComing, Receivers
<1>6. Untouched(s)
  BY <1>1, <1>3 DEF Untouched, Receivers, TypeOK
<1> QED BY <1>2, <1>4, <1>5, <1>6 DEF FrameOK

\* The callback of the slot a send is at is entered.
LEMMA CallOK ==
    ASSUME NEW s, FrameOK(s), TypeOK, ~s.calling, Remaining(s),
           NEW t, t = [s EXCEPT !.calling = TRUE, !.called = Append(@, m_array[s.index].object)]
    PROVE  FrameOK(t)
<1>1. /\ s \in Frames /\ InArray(s) /\ StillComing(s) /\ Untouched(s)
      /\ s.index \in 0 .. s.count - 1 /\ s.count \in Nat /\ s.index \in Nat
      /\ s.called \in Seq(Objects) /\ s.seen \subseteq Objects
  BY DEF FrameOK, Remaining, Frames
<1> DEFINE o == m_array[s.index].object
<1>2. o \in s.seen /\ o \in Objects
  BY <1>1 DEF InArray
<1>u. PICK u : u = [s EXCEPT !.calling = TRUE]
  OBVIOUS
<1>v. /\ u \in Frames /\ u.count = s.count /\ u.index = s.index /\ u.calling /\ u.called = s.called
      /\ u.present = s.present /\ u.seen = s.seen /\ u.added = s.added /\ u.removed = s.removed
  BY <1>1, <1>u DEF Frames
<1>w. t = [u EXCEPT !.called = Append(s.called, o)]
  BY <1>u, Zenon
<1>x. Append(s.called, o) \in Seq(Objects)
  BY <1>1, <1>2
<1>3. /\ t.count = s.count /\ t.index = s.index /\ t.calling /\ t.called = Append(s.called, o)
      /\ t.present = s.present /\ t.seen = s.seen /\ t.added = s.added /\ t.removed = s.removed
      /\ t \in Frames
  BY <1>v, <1>w, <1>x DEF Frames
<1>5. /\ Len(t.called) = Len(s.called) + 1 /\ t.called[Len(t.called)] = o
      /\ Len(s.called) \in Nat
      /\ \A k \in 1 .. Len(s.called) : t.called[k] = s.called[k]
  BY <1>1, <1>2, <1>3
<1>6. Called(t) = Called(s) \cup {o}
  <2>1. 1 .. Len(t.called) = (1 .. Len(s.called)) \cup {Len(t.called)}
    BY <1>5
  <2> QED BY <1>5, <2>1 DEF Called
<1>7. Visited(s) = s.index /\ Visited(t) = s.index + 1
  BY <1>3 DEF Visited
<1>8. InArray(t)
  BY <1>1, <1>2, <1>3, <1>6 DEF InArray
<1>9. StillComing(t)
  <2>1. ASSUME ~s.added, NEW p \in s.present, p \notin Called(t)
        PROVE  \E k \in Visited(t) .. t.count - 1 : m_array[k].object = p
    <3>1. PICK k \in s.index .. s.count - 1 : m_array[k].object = p
      BY <1>1, <1>6, <1>7, <2>1 DEF StillComing
    <3>2. k # s.index
      BY <1>6, <2>1, <3>1
    <3> QED BY <1>1, <1>3, <1>7, <3>1, <3>2
  <2> QED BY <1>1, <1>3, <2>1 DEF StillComing
<1>10. Untouched(t)
  <2>1. ASSUME ~t.removed
        PROVE  /\ Len(t.called) = Visited(t)
               /\ \A k \in 1 .. Len(t.called) : t.called[k] = m_array[k - 1].object
    <3>1. Len(s.called) = s.index
      BY <1>1, <1>3, <1>7, <2>1 DEF Untouched
    <3>2. \A k \in 1 .. Len(s.called) : s.called[k] = m_array[k - 1].object
      BY <1>1, <1>3, <2>1 DEF Untouched
    <3> QED BY <1>1, <1>5, <1>7, <3>1, <3>2
  <2> QED BY <1>1, <1>3, <2>1 DEF Untouched
<1> QED BY <1>3, <1>8, <1>9, <1>10 DEF FrameOK

\* The callback returns.
LEMMA ReturnOK ==
    ASSUME NEW s, FrameOK(s), TypeOK, s.calling,
           NEW t, t = [s EXCEPT !.calling = FALSE, !.index = @ + 1]
    PROVE  FrameOK(t)
<1>1. /\ s \in Frames /\ InArray(s) /\ StillComing(s) /\ Untouched(s)
      /\ s.index \in Nat /\ s.count \in Nat
  BY DEF FrameOK, Frames
<1>u. PICK u : u = [s EXCEPT !.calling = FALSE]
  OBVIOUS
<1>v. /\ u \in Frames /\ u.count = s.count /\ u.index = s.index /\ ~u.calling /\ u.called = s.called
      /\ u.present = s.present /\ u.seen = s.seen /\ u.added = s.added /\ u.removed = s.removed
  BY <1>1, <1>u DEF Frames
<1>w. t = [u EXCEPT !.index = s.index + 1]
  BY <1>u, Zenon
<1>2. /\ t.count = s.count /\ t.index = s.index + 1 /\ ~t.calling /\ t.called = s.called
      /\ t.present = s.present /\ t.seen = s.seen /\ t.added = s.added /\ t.removed = s.removed
      /\ t \in Frames
  BY <1>1, <1>v, <1>w DEF Frames
<1>3. Visited(t) = Visited(s) /\ Called(t) = Called(s)
  BY <1>2 DEF Visited, Called
<1>4. InArray(t)
  BY <1>1, <1>2, <1>3 DEF InArray
<1>5. StillComing(t) /\ Untouched(t)
  BY <1>1, <1>2, <1>3 DEF StillComing, Untouched
<1> QED BY <1>2, <1>4, <1>5 DEF FrameOK
-----------------------------------------------------------------------------
(* A call that changes the vector *)

\* connect() of an object that is not connected.
LEMMA ConnectVector ==
    ASSUME TypeOK, Receivers, NEW o \in Objects, o \notin connected,
           m_array' = Stored(o), m_size' = m_size + 1, connected' = connected \cup {o},
           sends' \in Seq(Frames), misdirected' \in BOOLEAN
    PROVE  /\ TypeOK' /\ Receivers'
           /\ Capacity' >= Capacity /\ Capacity' \in Nat
           /\ m_array'[m_size].object = o
           /\ \A k \in 0 .. Capacity - 1 : k # m_size => m_array'[k].object = m_array[k].object
<1>1. /\ m_size \in Nat /\ Capacity \in Nat /\ m_size <= Capacity /\ connected \subseteq Objects
  BY DEF TypeOK, Receivers
<1>2. PICK n \in Nat : /\ n > m_size /\ n >= Capacity
                       /\ Stored(o) \in [0 .. n - 1 -> [object : Objects \cup {Nobody}, bridge : BOOLEAN]]
                       /\ Cardinality(DOMAIN Stored(o)) = n
  BY StoredKeeps
<1>3. /\ Stored(o)[m_size].object = o
      /\ \A k \in 0 .. Capacity - 1 : k # m_size => Stored(o)[k].object = m_array[k].object
  BY StoredKeeps
<1>4. Capacity' = n
  BY <1>2 DEF Capacity
<1>5. TypeOK'
  BY <1>1, <1>2, <1>4 DEF TypeOK
<1>6. \A k \in 0 .. m_size - 1 : m_array'[k].object = m_array[k].object
  BY <1>1, <1>3
<1>7. Receivers'
  <2>1. m_size' \in 0 .. Capacity'
    BY <1>1, <1>2, <1>4
  <2>2. \A k \in 0 .. m_size : k = m_size \/ k \in 0 .. m_size - 1
    BY <1>1
  <2>3. \A k \in 0 .. m_size' - 1 : m_array'[k].object \in connected'
    BY <1>1, <1>3, <1>6, <2>2 DEF Receivers
  <2>4. ASSUME NEW p \in connected'
        PROVE  \E k \in 0 .. m_size' - 1 : m_array'[k].object = p
    <3>1. CASE p = o
      BY <1>1, <1>3, <3>1
    <3>2. CASE p \in connected
      <4>1. PICK k \in 0 .. m_size - 1 : m_array[k].object = p
        BY <3>2 DEF Receivers
      <4> QED BY <1>1, <1>6, <4>1
    <3> QED BY <3>1, <3>2
  <2>5. ASSUME NEW k \in 0 .. m_size' - 1, NEW l \in 0 .. m_size' - 1,
               m_array'[k].object = m_array'[l].object
        PROVE  k = l
    <3>1. \A j \in 0 .. m_size - 1 : m_array'[j].object \in connected
      BY <1>6 DEF Receivers
    <3>2. k \in 0 .. m_size /\ l \in 0 .. m_size
      BY <1>1
    <3> QED BY <1>3, <1>6, <2>2, <2>5, <3>1, <3>2 DEF Receivers
  <2> QED BY <2>1, <2>3, <2>4, <2>5 DEF Receivers
<1> QED BY <1>1, <1>2, <1>3, <1>4, <1>5, <1>7

LEMMA ConnectFrame ==
    ASSUME TypeOK, Receivers, NEW o \in Objects, o \notin connected,
           m_array' = Stored(o), m_size' = m_size + 1, connected' = connected \cup {o},
           sends' \in Seq(Frames), misdirected' \in BOOLEAN,
           NEW s, FrameOK(s), NEW t \in Frames,
           t.count = s.count, t.index = s.index, t.calling = s.calling, t.called = s.called,
           t.present = s.present, t.seen = s.seen \cup {o}, t.added, t.removed = s.removed
    PROVE  FrameOK(t)'
<1>1. /\ s \in Frames /\ InArray(s) /\ StillComing(s) /\ Untouched(s)
      /\ s.index \in Nat /\ s.count \in Nat /\ s.called \in Seq(Objects)
      /\ m_size \in Nat /\ Capacity \in Nat /\ s.count <= Capacity
  BY DEF FrameOK, Frames, TypeOK, InArray
<1>2. /\ Capacity' >= Capacity /\ Capacity' \in Nat
      /\ m_array'[m_size].object = o
      /\ \A k \in 0 .. Capacity - 1 : k # m_size => m_array'[k].object = m_array[k].object
  BY ConnectVector
<1>3. \A k \in 0 .. s.count - 1 : k # m_size => m_array'[k].object = m_array[k].object
  BY <1>1, <1>2
<1>4. Called(t) = Called(s) /\ Visited(t) = Visited(s)
  BY DEF Called, Visited
<1>5. InArray(t)'
  <2>1. \A k \in 0 .. s.count - 1 : m_array'[k].object \in t.seen
    BY <1>1, <1>2, <1>3 DEF InArray
  <2> QED BY <1>1, <1>2, <1>4, <2>1 DEF InArray, Called
<1>6. StillComing(t)'
  BY <1>1, <1>4 DEF StillComing
<1>7. Untouched(t)'
  <2>1. ASSUME ~t.removed
        PROVE  /\ t.count <= m_size' /\ Len(t.called) = Visited(t)
               /\ \A k \in 1 .. Len(t.called) : t.called[k] = m_array'[k - 1].object
               /\ \A k \in 0 .. t.count - 1 : m_array'[k].object \in t.present
               /\ \A p \in t.present : \E k \in 0 .. t.count - 1 : m_array'[k].object = p
    <3>1. /\ s.count <= m_size /\ Len(s.called) = Visited(s) /\ Visited(s) <= s.count /\ Visited(s) \in Nat
      BY <1>1, <2>1 DEF Untouched, Visited, InArray, Frames
    <3>2. \A k \in 0 .. s.count - 1 : m_array'[k].object = m_array[k].object
      BY <1>1, <1>3, <3>1
    <3>3. \A k \in 1 .. Len(s.called) : k - 1 \in 0 .. s.count - 1
      BY <1>1, <3>1
    <3>4. /\ \A k \in 1 .. Len(s.called) : s.called[k] = m_array[k - 1].object
          /\ \A k \in 0 .. s.count - 1 : m_array[k].object \in s.present
          /\ \A p \in s.present : \E k \in 0 .. s.count - 1 : m_array[k].object = p
      BY <1>1, <2>1 DEF Untouched
    <3>5. \A p \in s.present : \E k \in 0 .. s.count - 1 : m_array'[k].object = p
      BY <3>2, <3>4
    <3>6. \A k \in 1 .. Len(s.called) : s.called[k] = m_array'[k - 1].object
      BY <3>2, <3>3, <3>4
    <3>7. s.count <= m_size'
      BY <1>1, <3>1
    <3> QED BY <1>4, <3>1, <3>2, <3>4, <3>5, <3>6, <3>7
  <2> QED BY <2>1 DEF Untouched, Visited
<1> QED BY <1>5, <1>6, <1>7 DEF FrameOK

\* disconnect() of an object that is connected: the last receiver fills its slot.
LEMMA DisconnectVector ==
    ASSUME TypeOK, Receivers, NEW i \in 0 .. m_size - 1,
           m_array' = Removed(i), m_size' = m_size - 1,
           connected' = connected \ {m_array[i].object},
           sends' \in Seq(Frames), misdirected' \in BOOLEAN
    PROVE  TypeOK' /\ Receivers'
<1> DEFINE o == m_array[i].object
<1>1. /\ m_size \in Nat /\ Capacity \in Nat /\ m_size <= Capacity /\ connected \subseteq Objects
      /\ m_array \in [0 .. Capacity - 1 -> [object : Objects \cup {Nobody}, bridge : BOOLEAN]]
      /\ i \in 0 .. Capacity - 1 /\ m_size - 1 \in 0 .. Capacity - 1
  BY DEF TypeOK, Receivers
<1>2. m_array' = [m_array EXCEPT ![i] = m_array[m_size - 1]]
  BY DEF Removed
<1>3. /\ DOMAIN m_array' = DOMAIN m_array
      /\ m_array' \in [0 .. Capacity - 1 -> [object : Objects \cup {Nobody}, bridge : BOOLEAN]]
  BY <1>1, <1>2
<1>4. Capacity' = Capacity
  BY <1>3 DEF Capacity
<1>5. TypeOK'
  BY <1>1, <1>3, <1>4 DEF TypeOK
<1>6. m_array'[i] = m_array[m_size - 1] /\ \A k \in 0 .. Capacity - 1 : k # i => m_array'[k] = m_array[k]
  BY <1>1, <1>2
<1>7. \A k, l \in 0 .. m_size - 1 : m_array[k].object = m_array[l].object => k = l
  BY DEF Receivers
<1>8. ASSUME NEW k \in 0 .. m_size' - 1
      PROVE  m_array'[k].object \in connected'
  <2>1. k \in 0 .. m_size - 1 /\ m_size - 1 \in 0 .. m_size - 1 /\ k # m_size - 1 /\ k \in 0 .. Capacity - 1
    BY <1>1
  <2>2. CASE k = i
    BY <1>6, <1>7, <2>1, <2>2 DEF Receivers
  <2>3. CASE k # i
    BY <1>6, <1>7, <2>1, <2>3 DEF Receivers
  <2> QED BY <2>2, <2>3
<1>9. ASSUME NEW p \in connected'
      PROVE  \E k \in 0 .. m_size' - 1 : m_array'[k].object = p
  <2>1. PICK k \in 0 .. m_size - 1 : m_array[k].object = p
    BY DEF Receivers
  <2>2. k # i /\ k \in 0 .. Capacity - 1
    BY <1>1, <2>1
  <2>3. CASE k = m_size - 1
    BY <1>1, <1>6, <2>1, <2>2, <2>3
  <2>4. CASE k # m_size - 1
    BY <1>1, <1>6, <2>1, <2>2, <2>4
  <2> QED BY <2>3, <2>4
<1>10. ASSUME NEW k \in 0 .. m_size' - 1, NEW l \in 0 .. m_size' - 1,
              m_array'[k].object = m_array'[l].object
       PROVE  k = l
  <2>1. /\ k \in 0 .. m_size - 1 /\ l \in 0 .. m_size - 1 /\ m_size - 1 \in 0 .. m_size - 1
        /\ k # m_size - 1 /\ l # m_size - 1 /\ k \in 0 .. Capacity - 1 /\ l \in 0 .. Capacity - 1
    BY <1>1
  <2> QED BY <1>6, <1>7, <1>10, <2>1
<1>11. m_size' \in 0 .. Capacity'
  BY <1>1, <1>4
<1> QED BY <1>5, <1>8, <1>9, <1>10, <1>11 DEF Receivers

LEMMA DisconnectFrame ==
    ASSUME TypeOK, Receivers, NEW i \in 0 .. m_size - 1,
           m_array' = Removed(i), m_size' = m_size - 1,
           connected' = connected \ {m_array[i].object},
           NEW s, FrameOK(s), NEW t \in Frames,
           t.count = s.count, t.index = s.index, t.calling = s.calling, t.called = s.called,
           t.present = s.present \ {m_array[i].object}, t.seen = s.seen, t.added = s.added, t.removed
    PROVE  FrameOK(t)'
<1>1. /\ s \in Frames /\ InArray(s) /\ StillComing(s)
      /\ s.index \in Nat /\ s.count \in Nat
      /\ m_size \in Nat /\ Capacity \in Nat /\ m_size <= Capacity /\ s.count <= Capacity
      /\ m_array \in [0 .. Capacity - 1 -> [object : Objects \cup {Nobody}, bridge : BOOLEAN]]
  BY DEF FrameOK, Frames, TypeOK, InArray, Receivers
<1>2. /\ m_array' = [m_array EXCEPT ![i] = m_array[m_size - 1]]
      /\ i \in 0 .. Capacity - 1
  BY <1>1 DEF Removed
<1>3. /\ m_array'[i] = m_array[m_size - 1] /\ \A k \in 0 .. Capacity - 1 : k # i => m_array'[k] = m_array[k]
      /\ DOMAIN m_array' = DOMAIN m_array
  BY <1>1, <1>2
<1>4. Capacity' = Capacity
  BY <1>3 DEF Capacity
<1>5. Called(t) = Called(s) /\ Visited(t) = Visited(s)
  BY DEF Called, Visited
<1>6. m_array[m_size - 1].object \in s.seen
  <2>1. m_size - 1 \in 0 .. m_size - 1
    BY <1>1
  <2> QED BY <1>1, <2>1 DEF Receivers, InArray
<1>7. InArray(t)'
  <2>1. ASSUME NEW k \in 0 .. s.count - 1
        PROVE  m_array'[k].object \in s.seen
    <3>1. k \in 0 .. Capacity - 1
      BY <1>1
    <3> QED BY <1>1, <1>3, <1>6, <3>1 DEF InArray
  <2> QED BY <1>1, <1>4, <1>5, <2>1 DEF InArray, Called
<1>8. StillComing(t)'
  <2>1. ASSUME ~t.added, NEW p \in t.present, p \notin Called(t)
        PROVE  \E k \in Visited(t) .. t.count - 1 : m_array'[k].object = p
    <3>1. PICK k \in Visited(s) .. s.count - 1 : m_array[k].object = p
      BY <1>1, <1>5, <2>1 DEF StillComing
    <3>2. k # i
      BY <3>1
    <3>3. k \in 0 .. Capacity - 1
      BY <1>1, <3>1 DEF Visited
    <3> QED BY <1>3, <1>5, <3>1, <3>2, <3>3
  <2>2. t.present \subseteq connected'
    BY <1>1 DEF StillComing
  <2> QED BY <2>1, <2>2 DEF StillComing, Called, Visited
<1>9. Untouched(t)'
  BY DEF Untouched
<1> QED BY <1>7, <1>8, <1>9 DEF FrameOK

\* disconnect_all()
LEMMA DisconnectAllFrame ==
    ASSUME TypeOK, m_size' = 0, connected' = {}, UNCHANGED m_array,
           NEW s, FrameOK(s), NEW t \in Frames,
           t.count = s.count, t.index = s.index, t.calling = s.calling, t.called = s.called,
           t.present = {}, t.seen = s.seen, t.added = s.added, t.removed
    PROVE  FrameOK(t)'
BY DEF FrameOK, InArray, StillComing, Untouched, Visited, Called, Capacity
-----------------------------------------------------------------------------
(* The invariant *)

LEMMA InitOK == Init => SInv
<1> SUFFICES ASSUME Init PROVE SInv
  OBVIOUS
<1>1. DOMAIN m_array = {} /\ m_size = 0 /\ sends = <<>> /\ misdirected = FALSE /\ connected = {}
  BY DEF Init
<1>2. Capacity = 0
  BY <1>1, FS_EmptySet DEF Capacity
<1>3. 0 .. Capacity - 1 = {}
  BY <1>2
<1>4. m_array \in [0 .. Capacity - 1 -> [object : Objects \cup {Nobody}, bridge : BOOLEAN]]
  BY <1>3 DEF Init
<1>5. TypeOK
  <2>1. sends \in Seq(Frames)
    BY <1>1
  <2>2. m_size \in Nat /\ Capacity \in Nat /\ misdirected \in BOOLEAN /\ connected \subseteq Objects
    BY <1>1, <1>2
  <2> QED BY <1>4, <2>1, <2>2, Zenon DEF TypeOK
<1>6. Receivers
  BY <1>1, <1>2 DEF Receivers
<1>7. DOMAIN sends = {}
  BY <1>1
<1> QED BY <1>5, <1>6, <1>7 DEF SInv

\* A step that leaves the vector alone and whose sends are all in order keeps
\* the invariant.
LEMMA SameVector ==
    ASSUME SInv, UNCHANGED <<m_array, m_size, connected>>, misdirected' \in BOOLEAN,
           sends' \in Seq(Frames), \A i \in DOMAIN sends' : FrameOK(sends'[i])
    PROVE  SInv'
<1>1. TypeOK' /\ Receivers'
  BY VectorStays DEF SInv
<1>2. ASSUME NEW i \in DOMAIN sends'
      PROVE  FrameOK(sends[i])'
  <2>1. FrameOK(sends'[i])
    OBVIOUS
  <2> QED BY <2>1 DEF FrameOK, InArray, StillComing, Untouched, Visited, Called, Capacity
<1> QED BY <1>1, <1>2 DEF SInv

\* The send on the top of the stack.
LEMMA TopFrame ==
    ASSUME SInv, sends # <<>>
    PROVE  /\ Len(sends) \in DOMAIN sends /\ FrameOK(Top)
           /\ sends \in Seq(Frames) /\ Len(sends) \in Nat
           /\ \A i \in DOMAIN sends : FrameOK(sends[i])
<1>1. sends \in Seq(Frames)
  BY DEF SInv, TypeOK
<1>2. Len(sends) \in DOMAIN sends /\ Len(sends) \in Nat
  BY <1>1
<1>3. \A i \in DOMAIN sends : FrameOK(sends[i])
  BY DEF SInv
<1> QED BY <1>1, <1>2, <1>3 DEF Top

\* Another send in order on the top of the stack.
LEMMA TopChanges ==
    ASSUME SInv, sends # <<>>, NEW t, FrameOK(t), sends' = SetTop(t),
           UNCHANGED <<m_array, m_size, connected>>, misdirected' \in BOOLEAN
    PROVE  SInv'
<1>1. /\ Len(sends) \in DOMAIN sends /\ sends \in Seq(Frames)
      /\ \A i \in DOMAIN sends : FrameOK(sends[i])
  BY TopFrame
<1>2. t \in Frames
  BY DEF FrameOK
<1>3. sends' = [sends EXCEPT ![Len(sends)] = t]
  BY DEF SetTop
<1>4. sends' \in Seq(Frames) /\ DOMAIN sends' = DOMAIN sends
  BY <1>1, <1>2, <1>3
<1>5. \A i \in DOMAIN sends' : sends'[i] = IF i = Len(sends) THEN t ELSE sends[i]
  BY <1>1, <1>3
<1>6. \A i \in DOMAIN sends' : FrameOK(sends'[i])
  BY <1>1, <1>4, <1>5
<1> QED BY <1>4, <1>6, SameVector

\* The slots that hold an object: one, if it is connected.
LEMMA IndexOfIs ==
    ASSUME TypeOK, Receivers, NEW o \in Objects
    PROVE  /\ IndexOf(o) = {} <=> o \notin connected
           /\ \A i, j \in IndexOf(o) : i = j
BY DEF IndexOf, Receivers

\* What a running send notes when an object was connected.
Added(s, o) == [s EXCEPT !.seen = @ \cup {o}, !.added = TRUE]

LEMMA NotedIs ==
    ASSUME NEW s \in Frames, NEW o \in Objects,
           NEW t, t = Added(s, o)
    PROVE  /\ t \in Frames /\ t.count = s.count /\ t.index = s.index /\ t.calling = s.calling
           /\ t.called = s.called /\ t.present = s.present /\ t.seen = s.seen \cup {o}
           /\ t.added /\ t.removed = s.removed
<1>1. PICK u : u = [s EXCEPT !.seen = @ \cup {o}]
  OBVIOUS
<1>2. /\ u \in Frames /\ u.count = s.count /\ u.index = s.index /\ u.calling = s.calling
      /\ u.called = s.called /\ u.present = s.present /\ u.seen = s.seen \cup {o}
      /\ u.removed = s.removed
  BY <1>1 DEF Frames
<1>3. t = [u EXCEPT !.added = TRUE]
  BY <1>1, Zenon DEF Added
<1> QED BY <1>2, <1>3 DEF Frames

\* What it notes when some were disconnected.
Gone(s, gone) == [s EXCEPT !.present = @ \ gone, !.removed = TRUE]

LEMMA NotedGoneIs ==
    ASSUME NEW s \in Frames, NEW gone \in SUBSET Objects,
           NEW t, t = Gone(s, gone)
    PROVE  /\ t \in Frames /\ t.count = s.count /\ t.index = s.index /\ t.calling = s.calling
           /\ t.called = s.called /\ t.present = s.present \ gone /\ t.seen = s.seen
           /\ t.added = s.added /\ t.removed
<1>1. PICK u : u = [s EXCEPT !.present = @ \ gone]
  OBVIOUS
<1>2. /\ u \in Frames /\ u.count = s.count /\ u.index = s.index /\ u.calling = s.calling
      /\ u.called = s.called /\ u.present = s.present \ gone /\ u.seen = s.seen
      /\ u.added = s.added
  BY <1>1 DEF Frames
<1>3. t = [u EXCEPT !.removed = TRUE]
  BY <1>1, Zenon DEF Gone
<1> QED BY <1>2, <1>3 DEF Frames

\* The sends in order after a call that changes the vector.
LEMMA AllFrames ==
    ASSUME \A i \in DOMAIN sends' : \E t : t = sends'[i] /\ FrameOK(t)'
    PROVE  \A i \in DOMAIN sends' : FrameOK(sends[i])'
BY DEF FrameOK, InArray, StillComing, Untouched, Visited, Called, Capacity

LEMMA ConnectStep ==
    ASSUME SInv, NEW o \in Objects, Connect(o)
    PROVE  SInv'
<1>1. TypeOK /\ Receivers /\ sends \in Seq(Frames) /\ misdirected' \in BOOLEAN
  BY DEF SInv, TypeOK, Connect
<1>2. CASE o \in connected
  <2>1. IndexOf(o) # {}
    BY <1>1, <1>2, IndexOfIs
  <2>2. UNCHANGED <<m_array, m_size, sends, connected>>
    BY <1>2, <2>1 DEF Connect
  <2> QED BY <1>1, <2>2, SameVector DEF SInv
<1>3. CASE o \notin connected
  <2>1. IndexOf(o) = {}
    BY <1>1, <1>3, IndexOfIs
  <2>2. /\ m_array' = Stored(o) /\ m_size' = m_size + 1 /\ sends' = Noted(o)
        /\ connected' = connected \cup {o}
    BY <2>1 DEF Connect
  <2>3. /\ DOMAIN sends' = DOMAIN sends
        /\ \A i \in DOMAIN sends : sends'[i] = Added(sends[i], o)
    BY <2>2, Zenon DEF Noted, Added
  <2>4. sends' \in Seq(Frames)
    <3>1. \A i \in DOMAIN sends : sends[i] \in Frames
      BY <1>1
    <3>2. \A i \in DOMAIN sends : sends'[i] \in Frames
      BY <2>3, <3>1, NotedIs
    <3>3. Len(sends) \in Nat /\ DOMAIN sends = 1 .. Len(sends)
      BY <1>1
    <3>4. sends' = [i \in DOMAIN sends |-> sends'[i]]
      BY <2>2, <2>3, Zenon DEF Noted
    <3>5. sends' = [i \in 1 .. Len(sends) |-> sends'[i]]
      BY <3>3, <3>4, Zenon
    <3> HIDE <2>2, <2>3
    <3> QED BY <3>2, <3>3, <3>5
  <2>5. TypeOK' /\ Receivers'
    BY <1>1, <1>3, <2>2, <2>4, ConnectVector
  <2>6. ASSUME NEW i \in DOMAIN sends'
        PROVE  \E t : t = sends'[i] /\ FrameOK(t)'
    <3>1. PICK s : s = sends[i]
      OBVIOUS
    <3>2. PICK t : t = sends'[i]
      OBVIOUS
    <3>3. FrameOK(s)
      BY <2>3, <3>1 DEF SInv
    <3>4. t = Added(s, o)
      BY <2>3, <3>1, <3>2, Zenon
    <3>5. s \in Frames
      BY <3>3 DEF FrameOK
    <3>6. /\ t \in Frames /\ t.count = s.count /\ t.index = s.index /\ t.calling = s.calling
          /\ t.called = s.called /\ t.present = s.present /\ t.seen = s.seen \cup {o}
          /\ t.added /\ t.removed = s.removed
      BY <3>4, <3>5, NotedIs
    <3>7. FrameOK(t)'
      BY <1>1, <1>3, <2>2, <2>4, <3>3, <3>6, ConnectFrame
    <3> QED BY <3>2, <3>7
  <2> QED BY <2>5, <2>6, AllFrames DEF SInv
<1> QED BY <1>2, <1>3

\* The sends after objects were disconnected.
LEMMA NotedGoneSends ==
    ASSUME sends \in Seq(Frames), NEW gone \in SUBSET Objects, sends' = NotedGone(gone)
    PROVE  /\ DOMAIN sends' = DOMAIN sends /\ sends' \in Seq(Frames)
           /\ \A i \in DOMAIN sends :
                 sends'[i] = Gone(sends[i], gone)
<1>1. /\ DOMAIN sends' = DOMAIN sends
      /\ \A i \in DOMAIN sends :
            sends'[i] = Gone(sends[i], gone)
  BY Zenon DEF NotedGone, Gone
<1>2. \A i \in DOMAIN sends : sends[i] \in Frames
  OBVIOUS
<1>3. \A i \in DOMAIN sends : sends'[i] \in Frames
  BY <1>1, <1>2, NotedGoneIs
<1>4. Len(sends) \in Nat /\ DOMAIN sends = 1 .. Len(sends)
  OBVIOUS
<1>5. sends' = [i \in DOMAIN sends |-> sends'[i]]
  BY <1>1, Zenon DEF NotedGone
<1>6. sends' = [i \in 1 .. Len(sends) |-> sends'[i]]
  BY <1>4, <1>5, Zenon
<1>7. sends' \in Seq(Frames)
  BY <1>3, <1>4, <1>6
<1> QED BY <1>1, <1>7, Zenon

LEMMA DisconnectStep ==
    ASSUME SInv, NEW o \in Objects, Disconnect(o)
    PROVE  SInv'
<1>1. TypeOK /\ Receivers /\ sends \in Seq(Frames) /\ misdirected' \in BOOLEAN
  BY DEF SInv, TypeOK, Disconnect
<1>2. CASE o \notin connected
  <2>1. IndexOf(o) = {}
    BY <1>1, <1>2, IndexOfIs
  <2>2. UNCHANGED <<m_array, m_size, sends, connected>>
    BY <1>2, <2>1 DEF Disconnect
  <2> QED BY <1>1, <2>2, SameVector DEF SInv
<1>3. CASE o \in connected
  <2>1. PICK i : i \in IndexOf(o)
    BY <1>1, <1>3, IndexOfIs
  <2>2. i \in 0 .. m_size - 1 /\ m_array[i].object = o /\ \A j \in IndexOf(o) : j = i
    BY <1>1, <2>1, IndexOfIs DEF IndexOf
  <2>3. i = CHOOSE k \in IndexOf(o) : \A j \in IndexOf(o) : k <= j
    <3>1. \E k \in IndexOf(o) : \A j \in IndexOf(o) : k <= j
      BY <2>1, <2>2
    <3>2. (CHOOSE k \in IndexOf(o) : \A j \in IndexOf(o) : k <= j) \in IndexOf(o)
      BY <3>1, Zenon
    <3> QED BY <2>2, <3>2
  <2>4. /\ m_array' = Removed(i) /\ m_size' = m_size - 1 /\ sends' = NotedGone({o})
        /\ connected' = connected \ {m_array[i].object}
    BY <2>1, <2>2, <2>3, Zenon DEF Disconnect
  <2>0. {o} \in SUBSET Objects
    OBVIOUS
  <2>5. /\ DOMAIN sends' = DOMAIN sends /\ sends' \in Seq(Frames)
        /\ \A k \in DOMAIN sends :
              sends'[k] = Gone(sends[k], {o})
    BY <1>1, <2>4, <2>0, NotedGoneSends, Zenon
  <2>6. TypeOK' /\ Receivers'
    <3> HIDE <2>3
    <3>1. sends' \in Seq(Frames)
      BY <2>5, Zenon
    <3> QED BY <1>1, <2>2, <2>4, <3>1, DisconnectVector
  <2>7. ASSUME NEW k \in DOMAIN sends'
        PROVE  \E t : t = sends'[k] /\ FrameOK(t)'
    <3>1. PICK s : s = sends[k]
      OBVIOUS
    <3>2. PICK t : t = sends'[k]
      OBVIOUS
    <3>3. k \in DOMAIN sends
      BY <2>5, Zenon
    <3>4. FrameOK(s)
      BY <3>1, <3>3 DEF SInv
    <3>5. t = Gone(s, {o})
      BY <2>5, <3>1, <3>2, <3>3, Zenon
    <3>6. s \in Frames
      BY <3>4 DEF FrameOK
    <3>7. /\ t \in Frames /\ t.count = s.count /\ t.index = s.index /\ t.calling = s.calling
          /\ t.called = s.called /\ t.present = s.present \ {o} /\ t.seen = s.seen
          /\ t.added = s.added /\ t.removed
      BY <2>0, <3>5, <3>6, NotedGoneIs
    <3>8. FrameOK(t)'
      BY <1>1, <2>2, <2>4, <3>4, <3>7, DisconnectFrame
    <3> QED BY <3>2, <3>8
  <2> QED BY <2>6, <2>7, AllFrames DEF SInv
<1> QED BY <1>2, <1>3

LEMMA DisconnectAllStep ==
    ASSUME SInv, DisconnectAll
    PROVE  SInv'
<1>1. TypeOK /\ Receivers /\ sends \in Seq(Frames) /\ misdirected' \in BOOLEAN
  BY DEF SInv, TypeOK, DisconnectAll
<1>2. m_size' = 0 /\ sends' = NotedGone(connected) /\ connected' = {} /\ UNCHANGED m_array
  BY DEF DisconnectAll
<1>0. connected \in SUBSET Objects
  BY <1>1 DEF TypeOK
<1>3. /\ DOMAIN sends' = DOMAIN sends /\ sends' \in Seq(Frames)
      /\ \A k \in DOMAIN sends :
            sends'[k] = Gone(sends[k], connected)
  BY <1>1, <1>2, <1>0, NotedGoneSends, Zenon
<1>4. TypeOK' /\ Receivers'
  <2>1. sends' \in Seq(Frames)
    BY <1>3, Zenon
  <2>2. Capacity' = Capacity
    BY <1>2 DEF Capacity
  <2> QED BY <1>1, <1>2, <2>1, <2>2 DEF TypeOK, Receivers
<1>5. ASSUME NEW k \in DOMAIN sends'
      PROVE  \E t : t = sends'[k] /\ FrameOK(t)'
  <2>1. PICK s : s = sends[k]
    OBVIOUS
  <2>2. PICK t : t = sends'[k]
    OBVIOUS
  <2>3. k \in DOMAIN sends
    BY <1>3, Zenon
  <2>4. FrameOK(s)
    BY <2>1, <2>3 DEF SInv
  <2>5. t = Gone(s, connected)
    BY <1>3, <2>1, <2>2, <2>3, Zenon
  <2>6. s \in Frames /\ s.present \subseteq connected
    BY <2>4 DEF FrameOK, StillComing
  <2>7. /\ t \in Frames /\ t.count = s.count /\ t.index = s.index /\ t.calling = s.calling
        /\ t.called = s.called /\ t.present = s.present \ connected /\ t.seen = s.seen
        /\ t.added = s.added /\ t.removed
    BY <1>0, <2>5, <2>6, NotedGoneIs
  <2>8. t.present = {}
    BY <2>6, <2>7
  <2>9. FrameOK(t)'
    BY <1>1, <1>2, <2>4, <2>7, <2>8, DisconnectAllFrame
  <2> QED BY <2>2, <2>9
<1> QED BY <1>4, <1>5, AllFrames DEF SInv

LEMMA SendStep ==
    ASSUME SInv, Send
    PROVE  SInv'
<1>1. TypeOK /\ Receivers /\ sends \in Seq(Frames) /\ misdirected' \in BOOLEAN
  BY DEF SInv, TypeOK, Send
<1>2. FrameOK(NewSend) /\ NewSend \in Frames
  BY <1>1, NewSendOK DEF FrameOK
<1>3. sends' = Append(sends, NewSend)
  BY DEF Send
<1>4. sends' \in Seq(Frames)
  BY <1>1, <1>2, <1>3
<1>5. \A i \in DOMAIN sends' : sends'[i] = NewSend \/ (i \in DOMAIN sends /\ sends'[i] = sends[i])
  BY <1>1, <1>2, <1>3
<1>6. \A i \in DOMAIN sends' : FrameOK(sends'[i])
  BY <1>2, <1>5, Zenon DEF SInv
<1> QED BY <1>1, <1>4, <1>6, SameVector DEF Send

LEMMA EndSendStep ==
    ASSUME SInv, EndSend
    PROVE  SInv'
<1>1. sends \in Seq(Frames) /\ sends # <<>> /\ misdirected' \in BOOLEAN
  BY DEF SInv, TypeOK, EndSend
<1>2. sends' = SubSeq(sends, 1, Len(sends) - 1)
  BY DEF EndSend
<1>3. sends' \in Seq(Frames)
  BY <1>1, <1>2
<1>4. \A i \in DOMAIN sends' : i \in DOMAIN sends /\ sends'[i] = sends[i]
  BY <1>1, <1>2
<1>5. \A i \in DOMAIN sends' : FrameOK(sends'[i])
  BY <1>4, Zenon DEF SInv
<1> QED BY <1>1, <1>3, <1>5, SameVector DEF EndSend

LEMMA CallStep ==
    ASSUME SInv, Call
    PROVE  SInv'
<1>1. sends # <<>> /\ ~Top.calling /\ Remaining(Top) /\ UNCHANGED <<m_array, m_size, connected>>
  BY DEF Call
<1>2. TypeOK /\ FrameOK(Top)
  BY <1>1, TopFrame DEF SInv
<1>3. PICK t : t = [Top EXCEPT !.calling = TRUE, !.called = Append(@, m_array[Top.index].object)]
  OBVIOUS
<1>4. FrameOK(t)
  BY <1>1, <1>2, <1>3, CallOK, Zenon
<1>5. sends' = SetTop(t)
  BY <1>3, Zenon DEF Call
<1>6. misdirected' \in BOOLEAN
  <2>1. misdirected' \in Adjusted(Top.index)
    BY DEF Call
  <2>2. \A k \in DOMAIN m_array : m_array[k].bridge \in BOOLEAN
    BY <1>2 DEF TypeOK
  <2> QED BY <2>1, <2>2 DEF Adjusted
<1> QED BY <1>1, <1>4, <1>5, <1>6, TopChanges

LEMMA ReturnStep ==
    ASSUME SInv, Return
    PROVE  SInv'
<1>1. /\ sends # <<>> /\ Top.calling /\ UNCHANGED <<m_array, m_size, connected>>
      /\ misdirected' \in BOOLEAN
  BY DEF Return, SInv, TypeOK
<1>2. TypeOK /\ FrameOK(Top)
  BY <1>1, TopFrame DEF SInv
<1>3. PICK t : t = [Top EXCEPT !.calling = FALSE, !.index = @ + 1]
  OBVIOUS
<1>4. FrameOK(t)
  BY <1>1, <1>2, <1>3, ReturnOK, Zenon
<1>5. sends' = SetTop(t)
  BY <1>3, Zenon DEF Return
<1> QED BY <1>1, <1>4, <1>5, TopChanges

\* The invariant holds in every state of every behaviour: the vector is exact
\* whatever callback changes it, and every running send keeps its figures.
THEOREM SignalInvariant == Spec => []SInv
<1>1. ASSUME SInv, [Next]_vars
      PROVE  SInv'
  <2>1. CASE \E o \in Objects : Connect(o) \/ Disconnect(o)
    BY <1>1, <2>1, ConnectStep, DisconnectStep
  <2>2. CASE DisconnectAll
    BY <1>1, <2>2, DisconnectAllStep
  <2>3. CASE Send
    BY <1>1, <2>3, SendStep
  <2>4. CASE Call
    BY <1>1, <2>4, CallStep
  <2>5. CASE Return
    BY <1>1, <2>5, ReturnStep
  <2>6. CASE EndSend
    BY <1>1, <2>6, EndSendStep
  <2>7. CASE UNCHANGED vars
    <3>1. /\ UNCHANGED <<m_array, m_size, connected>> /\ sends' = sends
          /\ misdirected' \in BOOLEAN /\ sends' \in Seq(Frames)
      BY <1>1, <2>7 DEF vars, SInv, TypeOK
    <3>2. \A i \in DOMAIN sends' : FrameOK(sends'[i])
      BY <1>1, <3>1, Zenon DEF SInv
    <3> QED BY <1>1, <3>1, <3>2, SameVector
  <2> QED BY <1>1, <2>1, <2>2, <2>3, <2>4, <2>5, <2>6, <2>7 DEF Next
<1> QED BY <1>1, InitOK, PTL DEF Spec
-----------------------------------------------------------------------------
(* What it gives *)

\* The first n slots hold as many objects, if each holds another one.
LEMMA SlotsCount ==
    ASSUME NEW n \in Nat, NEW S, NEW a,
           \A k \in 0 .. n - 1 : a[k].object \in S,
           \A o \in S : \E k \in 0 .. n - 1 : a[k].object = o,
           \A k, l \in 0 .. n - 1 : a[k].object = a[l].object => k = l
    PROVE  Cardinality(S) = n
<1> DEFINE f == [k \in 1 .. n |-> a[k - 1].object]
<1>1. \A k \in 1 .. n : k - 1 \in 0 .. n - 1
  OBVIOUS
<1>2. f \in [1 .. n -> S]
  BY <1>1
<1>3. \A k, l \in 1 .. n : f[k] = f[l] => k = l
  BY <1>1
<1>4. ASSUME NEW o \in S
      PROVE  \E k \in 1 .. n : f[k] = o
  <2>1. PICK k \in 0 .. n - 1 : a[k].object = o
    OBVIOUS
  <2>2. k + 1 \in 1 .. n /\ (k + 1) - 1 = k
    BY <2>1
  <2>3. f[k + 1] = a[k].object
    BY <2>2
  <2> QED BY <2>1, <2>2, <2>3
<1> HIDE DEF f
<1>5. f \in Bijection(1 .. n, S)
  <2>1. f \in Injection(1 .. n, S)
    BY <1>2, <1>3 DEF Injection, IsInjective
  <2>2. f \in Surjection(1 .. n, S)
    BY <1>2, <1>4 DEF Surjection
  <2> QED BY <2>1, <2>2 DEF Bijection
<1>6. ExistsBijection(1 .. n, S)
  BY <1>5 DEF ExistsBijection
<1> QED BY <1>6, FS_CountingElements

\* Every variable of the signal keeps its type.
THEOREM SignalTypes == Spec => []TypeOK
<1>1. SInv => TypeOK
  BY DEF SInv
<1> QED BY <1>1, SignalInvariant, PTL

\* connect, disconnect and disconnect_all leave the vector with every connected
\* object once and no other, from whichever callback they are called.
THEOREM ReceiversAreExact == Spec => []ReceiversExact
<1>1. ASSUME SInv PROVE ReceiversExact
  <2>1. /\ Receivers /\ m_size \in Nat /\ m_size \in 0 .. Capacity /\ Capacity \in Nat
    BY <1>1 DEF SInv, TypeOK, Receivers
  <2>2. m_size = Cardinality(connected)
    BY <2>1, SlotsCount DEF Receivers
  <2>3. {m_array[i].object : i \in 0 .. m_size - 1} = connected
    BY <2>1 DEF Receivers
  <2> QED BY <2>1, <2>2, <2>3 DEF ReceiversExact
<1> QED BY <1>1, SignalInvariant, PTL

\* send stays inside the array, whatever its callbacks do to the vector, and
\* only calls objects that were connected at some time since it began.
THEOREM CalledObjectsWereConnected == Spec => []CalledWereConnected
<1>1. SInv => CalledWereConnected
  BY DEF SInv, CalledWereConnected, FrameOK, InArray
<1> QED BY <1>1, SignalInvariant, PTL

\* Who stays connected while the signal is sent is called, if no callback
\* connects anything.
THEOREM NobodyIsMissed == Spec => []NobodyMissed
<1>1. ASSUME SInv PROVE NobodyMissed
  <2>1. ASSUME NEW i \in DOMAIN sends, ~sends[i].added, sends[i].index = sends[i].count
        PROVE  sends[i].present \subseteq Called(sends[i])
    <3>1. PICK s : s = sends[i]
      OBVIOUS
    <3>2. s \in Frames /\ InArray(s) /\ StillComing(s)
      BY <1>1, <3>1 DEF SInv, FrameOK
    <3>3. Visited(s) = s.count /\ s.count \in Nat
      BY <2>1, <3>1, <3>2 DEF InArray, Visited, Frames
    <3>4. Visited(s) .. s.count - 1 = {}
      BY <3>3
    <3> QED BY <2>1, <3>1, <3>2, <3>4 DEF StillComing
  <2> QED BY <2>1 DEF NobodyMissed
<1> QED BY <1>1, SignalInvariant, PTL

\* Who was connected when the signal was sent is called once, and nobody else
\* is, if no callback disconnects anything.
THEOREM EveryoneOnce == Spec => []SentOnce
<1>1. ASSUME SInv PROVE SentOnce
  <2>1. ASSUME NEW i \in DOMAIN sends, ~sends[i].removed, sends[i].index = sends[i].count
        PROVE  /\ Called(sends[i]) = sends[i].present
               /\ Len(sends[i].called) = Cardinality(sends[i].present)
    <3>1. PICK s : s = sends[i]
      OBVIOUS
    <3>2. s \in Frames /\ InArray(s) /\ Untouched(s) /\ Receivers /\ m_size \in Nat
      BY <1>1, <3>1 DEF SInv, FrameOK, TypeOK
    <3>3. Visited(s) = s.count /\ s.count \in Nat
      BY <2>1, <3>1, <3>2 DEF InArray, Visited, Frames
    <3>4. /\ s.count <= m_size /\ Len(s.called) = s.count
          /\ \A k \in 1 .. Len(s.called) : s.called[k] = m_array[k - 1].object
          /\ \A k \in 0 .. s.count - 1 : m_array[k].object \in s.present
          /\ \A o \in s.present : \E k \in 0 .. s.count - 1 : m_array[k].object = o
      BY <2>1, <3>1, <3>2, <3>3 DEF Untouched
    <3>5. \A k, l \in 0 .. s.count - 1 : m_array[k].object = m_array[l].object => k = l
      BY <3>2, <3>3, <3>4 DEF Receivers
    <3>6. Cardinality(s.present) = s.count
      <4>1. PICK n \in Nat : n = s.count
        BY <3>3
      <4>2. PICK S : S = s.present
        OBVIOUS
      <4>3. /\ \A k \in 0 .. n - 1 : m_array[k].object \in S
            /\ \A o \in S : \E k \in 0 .. n - 1 : m_array[k].object = o
            /\ \A k, l \in 0 .. n - 1 : m_array[k].object = m_array[l].object => k = l
        BY <3>4, <3>5, <4>1, <4>2
      <4>4. Cardinality(S) = n
        BY <4>3, SlotsCount
      <4> QED BY <4>1, <4>2, <4>4
    <3>7. Called(s) \subseteq s.present
      <4>1. \A k \in 1 .. Len(s.called) : k - 1 \in 0 .. s.count - 1
        BY <3>3, <3>4
      <4> QED BY <3>4, <4>1 DEF Called
    <3>8. s.present \subseteq Called(s)
      <4>1. \A k \in 0 .. s.count - 1 : k + 1 \in 1 .. Len(s.called) /\ s.called[k + 1] = m_array[k].object
        BY <3>3, <3>4
      <4>2. ASSUME NEW o \in s.present
            PROVE  o \in Called(s)
        <5>1. PICK k \in 0 .. s.count - 1 : m_array[k].object = o
          BY <3>4
        <5> QED BY <4>1, <5>1 DEF Called
      <4> QED BY <4>2
    <3> QED BY <3>1, <3>4, <3>6, <3>7, <3>8
  <2> QED BY <2>1, Zenon DEF SentOnce
<1> QED BY <1>1, SignalInvariant, PTL
=============================================================================
