---------------------------- MODULE HashMapProofs ----------------------------
(***************************************************************************)
(* Proofs about Vector and HashMap: every array has one owner, every entry *)
(* of a map is found, whatever was added, cleared or carried over, and     *)
(* every call is one of Collections.                                       *)
(*                                                                         *)
(* From the bottom up: what the operations of Vector do to a memory and    *)
(* keep, the calls of vectors, the bits of a key and the slots a search    *)
(* visits, tables in which every entry is found and their doubling, the    *)
(* calls of maps, and the invariant, whose halves are Typed (memory) and   *)
(* Entries (contents). Then the refinement: the elements of a vector after *)
(* each call, the function a table is, and the steps of Collections.       *)
(***************************************************************************)
EXTENDS HashMap, FiniteSetTheorems, SequenceTheorems, WellFoundedInduction, TLAPS

-----------------------------------------------------------------------------
(* Least elements *)

LEMMA LeastSet ==
    ASSUME NEW S, IsFiniteSet(S), NEW bad, bad \subseteq SUBSET S, bad # {}
    PROVE  \E T \in bad : \A U \in bad : U \subseteq T => U = T
<1>1. bad \subseteq FiniteSubsetsOf(S)
  BY FS_FiniteSubsetsOfFinite
<1>2. IsWellFoundedOn(StrictSubsetOrdering(S), FiniteSubsetsOf(S))
  BY FS_StrictSubsetOrderingWellFounded
<1>3. PICK T \in bad : \A U \in bad : ~ (<<U, T>> \in StrictSubsetOrdering(S))
  BY <1>1, <1>2, WFMin
<1> QED BY <1>3 DEF StrictSubsetOrdering

LEMMA LeastNumber ==
    ASSUME NEW n \in Nat, NEW bad, bad \subseteq 0 .. n, bad # {}
    PROVE  \E k \in bad : \A m \in bad : k <= m
<1> DEFINE below == {0 .. (k - 1) : k \in bad}
<1>1. below \subseteq SUBSET (0 .. n) /\ below # {}
  <2> SUFFICES ASSUME NEW k \in bad PROVE 0 .. (k - 1) \subseteq 0 .. n
    OBVIOUS
  <2>1. k \in 0 .. n
    OBVIOUS
  <2> QED BY <2>1
<1>2. PICK S : S = 0 .. n /\ IsFiniteSet(S)
  BY FS_Interval
<1>3. PICK T \in below : \A U \in below : U \subseteq T => U = T
  <2>1. IsFiniteSet(S) /\ below \subseteq SUBSET S /\ below # {}
    BY <1>1, <1>2
  <2>2. PICK W : W = below
    OBVIOUS
  <2>3. \E T \in W : \A U \in W : U \subseteq T => U = T
    <3>1. IsFiniteSet(S) /\ W \subseteq SUBSET S /\ W # {}
      BY <2>1, <2>2, Zenon
    <3> HIDE <2>1, <2>2, <1>2
    <3> QED BY <3>1, LeastSet
  <2> QED BY <2>2, <2>3, Zenon
<1>4. PICK k \in bad : T = 0 .. (k - 1)
  OBVIOUS
<1>5. ASSUME NEW m \in bad, m < k PROVE FALSE
  <2>1. 0 .. (m - 1) \in below /\ 0 .. (m - 1) \subseteq T
    BY <1>4, <1>5
  <2>2. m \notin 0 .. (m - 1) /\ m \in 0 .. (k - 1)
    BY <1>5
  <2> QED BY <1>3, <1>4, <2>1, <2>2
<1> QED BY <1>5

LEMMA MinIn ==
    ASSUME NEW n \in Nat, NEW S, S \subseteq 0 .. n, S # {}
    PROVE  Min(S) \in S /\ \A y \in S : Min(S) <= y
<1>1. \E x \in S : \A y \in S : x <= y
  BY LeastNumber
<1> QED BY <1>1 DEF Min

-----------------------------------------------------------------------------
(* What the operations on a memory do to its four fields *)

IsMemory(m) ==
    m = [vectors |-> m.vectors, arrays |-> m.arrays, leaked |-> m.leaked, undefined |-> m.undefined]

LEMMA MemoryIs ==
    /\ IsMemory(memory) /\ memory.vectors = vectors /\ memory.arrays = arrays
    /\ memory.leaked = leaked /\ memory.undefined = undefined
BY Zenon DEF IsMemory, memory

LEMMA SizedIs ==
    ASSUME NEW m, IsMemory(m), NEW o, NEW n, NEW b, b = Sized(m, o, n)
    PROVE  /\ IsMemory(b)
           /\ b.vectors = [m.vectors EXCEPT ![o].size = n]
           /\ b.arrays = m.arrays /\ b.leaked = m.leaked /\ b.undefined = m.undefined
BY Zenon DEF IsMemory, Sized

LEMMA SetBufferIs ==
    ASSUME NEW m, IsMemory(m), NEW o, NEW array, NEW size, NEW capacity, NEW heap,
           NEW b, b = SetBuffer(m, o, array, size, capacity, heap),
           NEW old, old = m.vectors[o]
    PROVE  /\ IsMemory(b)
           /\ b.vectors = [m.vectors EXCEPT ![o] =
                  [array |-> array, capacity |-> capacity, size |-> size, heap |-> heap]]
           /\ b.arrays = [m.arrays EXCEPT ![old.array] = IF old.array # Null /\ old.heap THEN NoSlots ELSE @]
           /\ b.leaked = m.leaked
           /\ b.undefined = (m.undefined \/ (old.array # Null /\ old.heap /\ m.arrays[old.array] = NoSlots))
BY Zenon DEF IsMemory, SetBuffer

LEMMA AllocatedIs ==
    ASSUME NEW m, IsMemory(m), NEW id, NEW o, NEW n, NEW b, b = Allocated(m, id, o, n)
    PROVE  /\ IsMemory(b)
           /\ b.vectors = m.vectors
           /\ b.arrays = [m.arrays EXCEPT ![id] = [i \in 0 .. n - 1 |-> Blank[o]]]
           /\ b.leaked = m.leaked /\ b.undefined = m.undefined
BY Zenon DEF IsMemory, Allocated

LEMMA StoredIs ==
    ASSUME NEW m, IsMemory(m), NEW a, NEW part, DOMAIN part \subseteq DOMAIN m.arrays[a],
           NEW b, b = Stored(m, a, part)
    PROVE  /\ IsMemory(b)
           /\ b.vectors = m.vectors
           /\ b.arrays = [m.arrays EXCEPT ![a] = Over(part, m.arrays[a])]
           /\ b.leaked = m.leaked /\ b.undefined = m.undefined
BY Zenon DEF IsMemory, Stored

TakenFrom(m, b, o, p) ==
    /\ IsMemory(b)
    /\ b.vectors = [[m.vectors EXCEPT ![o] = m.vectors[p]] EXCEPT ![p].array = Null]
    /\ b.arrays = m.arrays
    /\ b.leaked = (IF m.vectors[o].heap THEN m.leaked \cup ({m.vectors[o].array} \ {Null}) ELSE m.leaked)
    /\ b.undefined = m.undefined

LEMMA TakenIs ==
    ASSUME NEW m, IsMemory(m), NEW o, NEW p, m.vectors[p].size # 0, NEW b, b = Taken(m, o, p)
    PROVE  TakenFrom(m, b, o, p)
BY Zenon DEF IsMemory, Taken, Size, TakenFrom


-----------------------------------------------------------------------------
(* Memories in which every array has one owner *)

Addresses == {Null} \cup Heap \cup Maps
Members == [array : Addresses, capacity : Nat, size : Nat, heap : BOOLEAN]

Nodes == {UnusedNode, RemovedNode} \cup [key : Keys, value : Values, state : {"USED"}]

\* What the slots of the array at an address hold.
Contents(a) == IF client = "vectors" /\ a \notin Maps THEN Values \cup {Unset} ELSE Nodes

IsArray(a, slots) == \E n \in Nat : slots \in [0 .. n - 1 -> Contents(a)]

Shaped(m) ==
    /\ IsMemory(m)
    /\ m.vectors \in [Objects -> Members]
    /\ m.arrays = [a \in Addresses |-> m.arrays[a]]
    /\ \A a \in Addresses : IsArray(a, m.arrays[a])
    /\ m.undefined \in BOOLEAN

\* A vector that was moved from.
Gone(r) == r.array = Null /\ r.capacity > 0

\* The array of o, if it has one, is its own and as long as it says.
Owns(m, o) ==
    LET r == m.vectors[o] IN
    /\ Gone(r) \/ DOMAIN m.arrays[r.array] = 0 .. r.capacity - 1
    /\ IF r.heap THEN r.array \in Heap \cup {Null} ELSE o \in Maps /\ r.array = o
    /\ r.array \in Heap => r.capacity > 0
    /\ o \in Maps => r.array # Null /\ r.capacity > 0

\* The array at a, on the heap, is not that of a vector.
Loose(m, a) == a \in Heap /\ m.arrays[a] # NoSlots /\ \A o \in Objects : m.vectors[o].array # a

\* "more" has the array of a table that is being made.
Owned(m, more) ==
    /\ m.arrays[Null] = NoSlots
    /\ \A o \in Objects : Owns(m, o)
    /\ \A o, p \in Objects : m.vectors[o].array = m.vectors[p].array => o = p \/ m.vectors[o].array = Null
    /\ \A a \in m.leaked \cup more : Loose(m, a)
    /\ m.leaked \cap more = {}
    /\ \A a \in Heap : m.arrays[a] # NoSlots =>
           a \in m.leaked \cup more \/ \E o \in Objects : m.vectors[o].array = a

Fit(m, o) == Gone(m.vectors[o]) \/ m.vectors[o].size <= m.vectors[o].capacity

Alive(m) == {a \in Heap : m.arrays[a] # NoSlots}

\* The program uses objects of one kind.
Suits(o) == o \in Objects /\ (client = "vectors" <=> o \in Vectors)

-----------------------------------------------------------------------------
(* Arrays *)

LEMMA EmptyArray ==
    /\ NoSlots \in [0 .. 0 - 1 -> {}] /\ DOMAIN NoSlots = 0 .. 0 - 1
    /\ \A a : IsArray(a, NoSlots)
    /\ \A n \in Nat : 0 .. n - 1 = 0 .. 0 - 1 => n = 0
<1>1. NoSlots = [i \in {} |-> 0] /\ 0 .. 0 - 1 = {}
  BY DEF NoSlots
<1>2. \A a : NoSlots \in [0 .. 0 - 1 -> Contents(a)]
  BY <1>1
<1>3. \A n \in Nat : 0 .. n - 1 = 0 .. 0 - 1 => n = 0
  <2> SUFFICES ASSUME NEW n \in Nat, n > 0 PROVE 0 \in 0 .. n - 1
    BY <1>1
  <2> QED OBVIOUS
<1> QED BY <1>1, <1>2, <1>3 DEF IsArray

LEMMA NotEmptyArray ==
    ASSUME NEW s, NEW n \in Nat, DOMAIN s = 0 .. n - 1, n > 0
    PROVE  s # NoSlots
BY EmptyArray

LEMMA OverIs ==
    ASSUME NEW a, NEW s, IsArray(a, s), NEW part, DOMAIN part \subseteq DOMAIN s,
           \A i \in DOMAIN part : part[i] \in Contents(a)
    PROVE  /\ IsArray(a, Over(part, s)) /\ DOMAIN Over(part, s) = DOMAIN s
           /\ \A i \in DOMAIN s : Over(part, s)[i] = IF i \in DOMAIN part THEN part[i] ELSE s[i]
           /\ s = NoSlots <=> Over(part, s) = NoSlots
<1>1. PICK n \in Nat : s \in [0 .. n - 1 -> Contents(a)]
  BY DEF IsArray
<1>2. Over(part, s) \in [0 .. n - 1 -> Contents(a)] /\ DOMAIN Over(part, s) = DOMAIN s
  BY <1>1 DEF Over
<1>3. \A i \in DOMAIN s : Over(part, s)[i] = IF i \in DOMAIN part THEN part[i] ELSE s[i]
  BY DEF Over
<1>4. s = NoSlots <=> n = 0
  BY <1>1, EmptyArray, NotEmptyArray
<1>5. Over(part, s) = NoSlots <=> n = 0
  BY <1>1, <1>2, EmptyArray, NotEmptyArray
<1> QED BY <1>1, <1>2, <1>3, <1>4, <1>5 DEF IsArray

-----------------------------------------------------------------------------
(* What the operations keep *)

LEMMA MemberIs ==
    /\ \A r \in Members : /\ r.array \in Addresses /\ r.capacity \in Nat /\ r.size \in Nat /\ r.heap \in BOOLEAN
    /\ \A array \in Addresses, capacity, size \in Nat, heap \in BOOLEAN :
           [array |-> array, capacity |-> capacity, size |-> size, heap |-> heap] \in Members
BY DEF Members

LEMMA MemberWith ==
    ASSUME NEW r \in Members, NEW n \in Nat, NEW s, s = [r EXCEPT !.size = n]
    PROVE  s \in Members /\ s.size = n /\ s.array = r.array /\ s.capacity = r.capacity /\ s.heap = r.heap
BY DEF Members

\* All but o is as it was.
Others(m, b, o) ==
    \A p \in Objects \ {o} : b.vectors[p] = m.vectors[p]
                             /\ b.arrays[m.vectors[p].array] = m.arrays[m.vectors[p].array]

LEMMA SizedKeeps ==
    ASSUME NEW m, Shaped(m), NEW o \in Objects, NEW n \in Nat, NEW b, b = Sized(m, o, n)
    PROVE  /\ Shaped(b) /\ b.undefined = m.undefined /\ b.leaked = m.leaked /\ b.arrays = m.arrays
           /\ b.vectors[o].array = m.vectors[o].array /\ b.vectors[o].capacity = m.vectors[o].capacity
           /\ b.vectors[o].heap = m.vectors[o].heap /\ b.vectors[o].size = n
           /\ Others(m, b, o)
           /\ \A more : Owned(m, more) => Owned(b, more)
<1>1. /\ IsMemory(b) /\ b.vectors = [m.vectors EXCEPT ![o].size = n]
      /\ b.arrays = m.arrays /\ b.leaked = m.leaked /\ b.undefined = m.undefined
  BY SizedIs DEF Shaped
<1>2. m.vectors \in [Objects -> Members] /\ m.vectors[o] \in Members
  BY DEF Shaped
<1>30. PICK r : r = [m.vectors[o] EXCEPT !.size = n]
  OBVIOUS
<1>3. /\ r \in Members /\ r.size = n
      /\ r.array = m.vectors[o].array /\ r.capacity = m.vectors[o].capacity /\ r.heap = m.vectors[o].heap
  BY <1>2, <1>30, MemberWith
<1>4. b.vectors = [m.vectors EXCEPT ![o] = r]
  BY <1>1, <1>30, Zenon
<1> HIDE <1>30
<1>5. /\ b.vectors \in [Objects -> Members]
      /\ \A p \in Objects : b.vectors[p] = IF p = o THEN r ELSE m.vectors[p]
  <2> HIDE <1>1, <1>3
  <2>1. r \in Members
    BY <1>3
  <2> QED BY <1>2, <1>4, <2>1
<1>6. Shaped(b)
  <2> HIDE <1>3, <1>4
  <2>1. IsMemory(b) /\ b.arrays = m.arrays /\ b.undefined = m.undefined
    BY <1>1
  <2> HIDE <1>1
  <2> QED BY <1>5, <2>1 DEF Shaped
<1>7. /\ r.array = m.vectors[o].array /\ r.capacity = m.vectors[o].capacity /\ r.heap = m.vectors[o].heap
      /\ r.size = n
  BY <1>3
<1>8. b.arrays = m.arrays /\ b.leaked = m.leaked /\ b.undefined = m.undefined
  BY <1>1
<1> HIDE <1>1, <1>3, <1>4
<1>9. \A p \in Objects : /\ b.vectors[p].array = m.vectors[p].array
                         /\ b.vectors[p].capacity = m.vectors[p].capacity
                         /\ b.vectors[p].heap = m.vectors[p].heap
  BY <1>5, <1>7
<1>10. ASSUME NEW more, Owned(m, more) PROVE Owned(b, more)
  <2>1. \A p \in Objects : Owns(m, p) <=> Owns(b, p)
    BY <1>8, <1>9 DEF Owns, Gone
  <2>2. \A a : Loose(m, a) <=> Loose(b, a)
    BY <1>8, <1>9 DEF Loose
  <2> QED BY <1>8, <1>9, <1>10, <2>1, <2>2 DEF Owned
<1> QED BY <1>5, <1>6, <1>7, <1>8, <1>10 DEF Others

LEMMA StoredKeeps ==
    ASSUME NEW m, Shaped(m), NEW a \in Addresses, NEW part, DOMAIN part \subseteq DOMAIN m.arrays[a],
           \A i \in DOMAIN part : part[i] \in Contents(a), NEW b, b = Stored(m, a, part)
    PROVE  /\ Shaped(b) /\ b.undefined = m.undefined /\ b.leaked = m.leaked /\ b.vectors = m.vectors
           /\ \A c \in Addresses : /\ b.arrays[c] = IF c = a THEN Over(part, m.arrays[a]) ELSE m.arrays[c]
                                   /\ DOMAIN b.arrays[c] = DOMAIN m.arrays[c]
                                   /\ b.arrays[c] = NoSlots <=> m.arrays[c] = NoSlots
           /\ \A i \in DOMAIN m.arrays[a] :
                  b.arrays[a][i] = IF i \in DOMAIN part THEN part[i] ELSE m.arrays[a][i]
           /\ \A more : Owned(m, more) => Owned(b, more)
<1>1. /\ IsMemory(b) /\ b.vectors = m.vectors
      /\ b.arrays = [m.arrays EXCEPT ![a] = Over(part, m.arrays[a])]
      /\ b.leaked = m.leaked /\ b.undefined = m.undefined
  BY StoredIs DEF Shaped
<1>2. m.arrays = [c \in Addresses |-> m.arrays[c]] /\ \A c \in Addresses : IsArray(c, m.arrays[c])
  BY DEF Shaped
<1>3. PICK s : s = Over(part, m.arrays[a])
  OBVIOUS
<1>4. /\ IsArray(a, s) /\ DOMAIN s = DOMAIN m.arrays[a]
      /\ \A i \in DOMAIN m.arrays[a] : s[i] = IF i \in DOMAIN part THEN part[i] ELSE m.arrays[a][i]
      /\ m.arrays[a] = NoSlots <=> s = NoSlots
  BY <1>2, <1>3, OverIs
<1>5. /\ \A c \in Addresses : b.arrays[c] = IF c = a THEN s ELSE m.arrays[c]
      /\ b.arrays = [c \in Addresses |-> b.arrays[c]]
  <2>1. b.arrays = [m.arrays EXCEPT ![a] = s]
    BY <1>1, <1>3, Zenon
  <2> HIDE <1>1, <1>3, <1>4
  <2> QED BY <1>2, <2>1, Zenon
<1>6. b.leaked = m.leaked /\ b.undefined = m.undefined /\ b.vectors = m.vectors /\ IsMemory(b)
  BY <1>1
<1> HIDE <1>1, <1>3
<1>7. Shaped(b)
  BY <1>2, <1>4, <1>5, <1>6 DEF Shaped
<1>8. \A c \in Addresses : /\ DOMAIN b.arrays[c] = DOMAIN m.arrays[c]
                           /\ b.arrays[c] = NoSlots <=> m.arrays[c] = NoSlots
  BY <1>4, <1>5
<1>9. ASSUME NEW more, Owned(m, more) PROVE Owned(b, more)
  <2>1. \A p \in Objects : m.vectors[p].array \in Addresses
    BY MemberIs DEF Shaped
  <2>2. \A p \in Objects : Owns(m, p) <=> Owns(b, p)
    BY <1>6, <1>8, <2>1 DEF Owns
  <2>3. \A c : Loose(m, c) <=> Loose(b, c)
    BY <1>6, <1>8 DEF Loose, Addresses
  <2>4. \A c \in Heap \cup {Null} : c \in Addresses
    BY DEF Addresses
  <2> QED BY <1>6, <1>8, <1>9, <2>2, <2>3, <2>4 DEF Owned
<1> QED BY <1>3, <1>4, <1>5, <1>6, <1>7, <1>8, <1>9

LEMMA ConstantsApart ==
    /\ Null \notin Heap /\ Null \notin Maps /\ Maps \cap Heap = {} /\ Maps \cap Vectors = {}
    /\ Vectors \subseteq Objects /\ Maps \subseteq Objects /\ Objects = Vectors \cup Maps
    /\ Heap \subseteq Addresses /\ Maps \subseteq Addresses /\ Null \in Addresses
BY VectorOK, HashMapOK DEF Heap, Null, Addresses

\* The array of o is given up, and deleted if it is on the heap; o has another.
Replaced(m, b, o, array, size, capacity, heap) ==
    /\ b.undefined = m.undefined /\ b.leaked = m.leaked
    /\ b.vectors[o].array = array /\ b.vectors[o].size = size
    /\ b.vectors[o].capacity = capacity /\ b.vectors[o].heap = heap
    /\ \A a \in Addresses :
           b.arrays[a] = IF a \in Heap /\ a = m.vectors[o].array THEN NoSlots ELSE m.arrays[a]
    /\ \A p \in Objects \ {o} : b.vectors[p] = m.vectors[p]
    /\ Others(m, b, o)

LEMMA SetBufferKeeps ==
    ASSUME NEW m, Shaped(m), NEW more, Owned(m, more), NEW o \in Objects, NEW array \in Addresses,
           NEW size \in Nat, NEW capacity \in Nat, NEW heap \in BOOLEAN,
           NEW b, b = SetBuffer(m, o, array, size, capacity, heap)
    PROVE  Shaped(b) /\ Replaced(m, b, o, array, size, capacity, heap)
<1>1. PICK old : old = m.vectors[o]
  OBVIOUS
<1>2. /\ IsMemory(b)
      /\ b.vectors = [m.vectors EXCEPT ![o] =
             [array |-> array, capacity |-> capacity, size |-> size, heap |-> heap]]
      /\ b.arrays = [m.arrays EXCEPT ![old.array] = IF old.array # Null /\ old.heap THEN NoSlots ELSE @]
      /\ b.leaked = m.leaked
      /\ b.undefined = (m.undefined \/ (old.array # Null /\ old.heap /\ m.arrays[old.array] = NoSlots))
  BY <1>1, SetBufferIs DEF Shaped
<1>3. /\ m.vectors \in [Objects -> Members] /\ m.arrays = [a \in Addresses |-> m.arrays[a]]
      /\ \A a \in Addresses : IsArray(a, m.arrays[a])
      /\ m.undefined \in BOOLEAN
  BY DEF Shaped
<1>4. old \in Members /\ old.array \in Addresses /\ old.capacity \in Nat /\ old.heap \in BOOLEAN /\ Owns(m, o)
  BY <1>1, <1>3, MemberIs DEF Owned
<1>5. old.array # Null /\ old.heap <=> old.array \in Heap
  BY <1>1, <1>4, ConstantsApart DEF Owns
<1>6. old.array \in Heap => m.arrays[old.array] # NoSlots
  <2> SUFFICES ASSUME old.array \in Heap PROVE m.arrays[old.array] # NoSlots
    OBVIOUS
  <2>1. old.capacity > 0 /\ DOMAIN m.arrays[old.array] = 0 .. old.capacity - 1
    BY <1>1, <1>4, ConstantsApart DEF Owns, Gone
  <2> QED BY <1>4, <2>1, NotEmptyArray
<1>7. PICK r : r = [array |-> array, capacity |-> capacity, size |-> size, heap |-> heap]
  OBVIOUS
<1>8. r \in Members /\ r.array = array /\ r.capacity = capacity /\ r.size = size /\ r.heap = heap
  BY <1>7, MemberIs
<1>9. b.vectors = [m.vectors EXCEPT ![o] = r]
  BY <1>2, <1>7, Zenon
<1>10. PICK s : s = IF old.array \in Heap THEN NoSlots ELSE m.arrays[old.array]
  OBVIOUS
<1>11. b.arrays = [m.arrays EXCEPT ![old.array] = s]
  BY <1>2, <1>5, <1>10, Zenon
<1>12. IsMemory(b) /\ b.leaked = m.leaked /\ b.undefined = m.undefined
  <2>1. b.undefined = (m.undefined \/ (old.array # Null /\ old.heap /\ m.arrays[old.array] = NoSlots))
    BY <1>2, Zenon
  <2>2. ~ (old.array # Null /\ old.heap /\ m.arrays[old.array] = NoSlots)
    BY <1>5, <1>6
  <2>3. b.undefined = m.undefined
    BY <1>3, <2>1, <2>2
  <2> QED BY <1>2, <2>3, Zenon
<1> HIDE <1>2, <1>7
<1>13. /\ b.vectors \in [Objects -> Members]
       /\ \A p \in Objects : b.vectors[p] = IF p = o THEN r ELSE m.vectors[p]
  BY <1>3, <1>8, <1>9
<1>14. /\ \A a \in Addresses : b.arrays[a] = IF a = old.array THEN s ELSE m.arrays[a]
       /\ b.arrays = [a \in Addresses |-> b.arrays[a]]
  BY <1>3, <1>11, Zenon
<1> HIDE <1>9, <1>11
<1>15. \A a \in Addresses : IsArray(a, b.arrays[a])
  BY <1>3, <1>10, <1>14, EmptyArray
<1>16. Shaped(b)
  BY <1>3, <1>12, <1>13, <1>14, <1>15 DEF Shaped
<1>17. \A a \in Addresses :
           b.arrays[a] = IF a \in Heap /\ a = m.vectors[o].array THEN NoSlots ELSE m.arrays[a]
  BY <1>1, <1>10, <1>14
<1>18. Others(m, b, o)
  <2> SUFFICES ASSUME NEW p \in Objects \ {o}
               PROVE  b.vectors[p] = m.vectors[p]
                      /\ b.arrays[m.vectors[p].array] = m.arrays[m.vectors[p].array]
    BY DEF Others
  <2>1. m.vectors[p].array \in Addresses
    BY <1>3, MemberIs
  <2>2. m.vectors[p].array # m.vectors[o].array \/ m.vectors[p].array = Null
    BY DEF Owned
  <2> QED BY <1>13, <1>17, <2>1, <2>2, ConstantsApart
<1> QED BY <1>8, <1>12, <1>13, <1>16, <1>17, <1>18 DEF Replaced

\* o has a new array, that was nobody's.
LEMMA HandedOver ==
    ASSUME NEW m, Shaped(m), NEW array, Owned(m, {array}), NEW o \in Objects, NEW size,
           NEW capacity \in Nat, capacity > 0, DOMAIN m.arrays[array] = 0 .. capacity - 1,
           NEW b, Replaced(m, b, o, array, size, capacity, TRUE)
    PROVE  Owned(b, {})
<1>1. Loose(m, array) /\ array \in Heap /\ array \in Addresses /\ array \notin m.leaked
  BY ConstantsApart DEF Owned, Loose
<1>2. /\ b.leaked = m.leaked
      /\ b.vectors[o].array = array /\ b.vectors[o].capacity = capacity /\ b.vectors[o].heap
  BY DEF Replaced
<1>3. \A a \in Addresses :
          b.arrays[a] = IF a \in Heap /\ a = m.vectors[o].array THEN NoSlots ELSE m.arrays[a]
  BY DEF Replaced
<1>4. m.vectors[o].array # array
  BY <1>1 DEF Loose
<1>5. b.arrays[array] = m.arrays[array]
  BY <1>1, <1>3, <1>4
<1>6. ASSUME NEW p \in Objects \ {o} PROVE Owns(b, p)
  <2>1. b.vectors[p] = m.vectors[p] /\ b.arrays[m.vectors[p].array] = m.arrays[m.vectors[p].array]
    BY DEF Replaced, Others
  <2>2. Owns(m, p)
    BY DEF Owned
  <2> QED BY <2>1, <2>2 DEF Owns
<1>7. Owns(b, o)
  BY <1>1, <1>2, <1>5, ConstantsApart DEF Owns
<1>8. b.arrays[Null] = NoSlots
  <2>1. m.arrays[Null] = NoSlots
    BY DEF Owned
  <2> QED BY <1>3, <2>1, ConstantsApart
<1>9. \A p \in Objects : b.vectors[p].array = IF p = o THEN array ELSE m.vectors[p].array
  BY <1>2 DEF Replaced
<1>10. \A p, q \in Objects : b.vectors[p].array = b.vectors[q].array => p = q \/ b.vectors[p].array = Null
  <2>1. \A p, q \in Objects : m.vectors[p].array = m.vectors[q].array => p = q \/ m.vectors[p].array = Null
    BY DEF Owned
  <2>2. \A p \in Objects : m.vectors[p].array # array
    BY <1>1 DEF Loose
  <2> QED BY <1>9, <2>1, <2>2
<1>11. \A a \in b.leaked : Loose(b, a)
  <2> SUFFICES ASSUME NEW a \in m.leaked PROVE Loose(b, a)
    BY <1>2
  <2>1. Loose(m, a) /\ a # array
    BY <1>1 DEF Owned
  <2>2. b.arrays[a] = m.arrays[a]
    BY <1>3, <2>1, ConstantsApart DEF Loose
  <2> QED BY <1>9, <2>1, <2>2 DEF Loose
<1>12. \A a \in Heap : b.arrays[a] # NoSlots => a \in b.leaked \/ \E p \in Objects : b.vectors[p].array = a
  <2> SUFFICES ASSUME NEW a \in Heap, b.arrays[a] # NoSlots, a \notin m.leaked
               PROVE  \E p \in Objects : b.vectors[p].array = a
    BY <1>2
  <2>1. a # m.vectors[o].array /\ m.arrays[a] # NoSlots
    BY <1>3, ConstantsApart
  <2>2. a = array \/ \E p \in Objects \ {o} : m.vectors[p].array = a
    BY <2>1 DEF Owned
  <2> QED BY <1>9, <2>2
<1> QED
  <2>1. \A p \in Objects : Owns(b, p)
    BY <1>6, <1>7
  <2>2. b.leaked \cap {} = {} /\ b.leaked \cup {} = b.leaked
    OBVIOUS
  <2> QED BY <1>8, <1>10, <1>11, <1>12, <2>1, <2>2, Zenon DEF Owned

-----------------------------------------------------------------------------
(* Allocating *)

LEMMA BlankIs ==
    ASSUME NEW o, Suits(o), NEW a \in Heap
    PROVE  Blank[o] \in Contents(a)
<1>1. Blank[o] = IF o \in Maps THEN UnusedNode ELSE Unset
  BY HashMapOK DEF Blanks, Suits
<1>2. a \notin Maps
  BY ConstantsApart
<1> QED BY <1>1, <1>2, ConstantsApart DEF Suits, Contents, Nodes

\* There is an array for o at f; nothing else changes.
Gains(m, b, o, f, n) ==
    /\ b.undefined = m.undefined /\ b.leaked = m.leaked /\ b.vectors = m.vectors
    /\ \A c \in Addresses : c # f => b.arrays[c] = m.arrays[c]
    /\ b.arrays[f] = [i \in 0 .. n - 1 |-> Blank[o]]

LEMMA AllocatedKeeps ==
    ASSUME NEW m, Shaped(m), NEW more, Owned(m, more), NEW o, Suits(o), NEW f \in Heap, m.arrays[f] = NoSlots,
           NEW n \in Nat, n > 0, NEW b, b = Allocated(m, f, o, n)
    PROVE  Shaped(b) /\ Gains(m, b, o, f, n) /\ Owned(b, more \cup {f})
<1>1. /\ IsMemory(b) /\ b.vectors = m.vectors
      /\ b.arrays = [m.arrays EXCEPT ![f] = [i \in 0 .. n - 1 |-> Blank[o]]]
      /\ b.leaked = m.leaked /\ b.undefined = m.undefined
  BY AllocatedIs DEF Shaped
<1>2. m.arrays = [c \in Addresses |-> m.arrays[c]] /\ \A c \in Addresses : IsArray(c, m.arrays[c])
  BY DEF Shaped
<1>3. PICK s : s = [i \in 0 .. n - 1 |-> Blank[o]]
  OBVIOUS
<1>4. IsArray(f, s) /\ s # NoSlots /\ DOMAIN s = 0 .. n - 1
  <2>1. s \in [0 .. n - 1 -> Contents(f)]
    BY <1>3, BlankIs
  <2> QED BY <2>1, NotEmptyArray DEF IsArray
<1>5. /\ \A c \in Addresses : b.arrays[c] = IF c = f THEN s ELSE m.arrays[c]
      /\ b.arrays = [c \in Addresses |-> b.arrays[c]]
  <2>1. b.arrays = [m.arrays EXCEPT ![f] = s]
    BY <1>1, <1>3, Zenon
  <2>2. f \in Addresses
    BY ConstantsApart
  <2> HIDE <1>1, <1>3, <1>4
  <2> QED BY <1>2, <2>1, Zenon
<1>6. b.leaked = m.leaked /\ b.undefined = m.undefined /\ b.vectors = m.vectors /\ IsMemory(b)
  BY <1>1
<1> HIDE <1>1
<1>7. Shaped(b)
  BY <1>2, <1>4, <1>5, <1>6 DEF Shaped
<1>8. f \in Addresses /\ f # Null /\ \A a \in Heap : a \in Addresses
  BY ConstantsApart
<1>9. f \notin m.leaked \cup more
  BY DEF Owned, Loose
<1>10. \A p \in Objects : m.vectors[p].array # f
  <2> SUFFICES ASSUME NEW p \in Objects, m.vectors[p].array = f PROVE FALSE
    OBVIOUS
  <2>1. Owns(m, p) /\ m.vectors[p] \in Members
    BY DEF Owned, Shaped
  <2>2. m.vectors[p].capacity \in Nat /\ m.vectors[p].capacity > 0 /\ DOMAIN m.arrays[f] = 0 .. m.vectors[p].capacity - 1
    BY <1>8, <2>1, MemberIs DEF Owns, Gone
  <2> QED BY <2>2, NotEmptyArray
<1>11. Owned(b, more \cup {f})
  <2>1. b.arrays[Null] = NoSlots
    <3>1. m.arrays[Null] = NoSlots
      BY DEF Owned
    <3> QED BY <1>5, <1>8, <3>1, ConstantsApart
  <2>2. ASSUME NEW p \in Objects PROVE Owns(b, p)
    <3>1. m.vectors[p].array \in Addresses /\ m.vectors[p].array # f
      BY <1>10, MemberIs DEF Shaped
    <3>2. b.vectors[p] = m.vectors[p] /\ b.arrays[m.vectors[p].array] = m.arrays[m.vectors[p].array]
      BY <1>5, <1>6, <3>1
    <3>3. Owns(m, p)
      BY DEF Owned
    <3> QED BY <3>2, <3>3 DEF Owns
  <2>3. \A p, q \in Objects : b.vectors[p].array = b.vectors[q].array => p = q \/ b.vectors[p].array = Null
    BY <1>6 DEF Owned
  <2>4. ASSUME NEW a \in b.leaked \cup (more \cup {f}) PROVE Loose(b, a)
    <3>1. CASE a = f
      BY <1>4, <1>5, <1>6, <1>8, <1>10, <3>1 DEF Loose
    <3>2. CASE a # f
      <4>1. Loose(m, a)
        BY <1>6, <3>2 DEF Owned
      <4> QED BY <1>5, <1>6, <1>8, <3>2, <4>1 DEF Loose
    <3> QED BY <3>1, <3>2
  <2>5. b.leaked \cap (more \cup {f}) = {}
    <3>1. m.leaked \cap more = {}
      BY DEF Owned
    <3> QED BY <1>6, <1>9, <3>1
  <2>6. \A a \in Heap : b.arrays[a] # NoSlots =>
            a \in b.leaked \cup (more \cup {f}) \/ \E p \in Objects : b.vectors[p].array = a
    <3>1. \A a \in Heap : m.arrays[a] # NoSlots => a \in m.leaked \cup more \/ \E p \in Objects : m.vectors[p].array = a
      BY DEF Owned
    <3> QED BY <1>5, <1>6, <1>8, <3>1
  <2> QED BY <2>1, <2>2, <2>3, <2>4, <2>5, <2>6, Zenon DEF Owned
<1> QED BY <1>3, <1>5, <1>6, <1>7, <1>8, <1>11 DEF Gains

LEMMA AliveFinite ==
    ASSUME NEW m
    PROVE  IsFiniteSet(Alive(m)) /\ Cardinality(Alive(m)) \in Nat
<1>1. IsFiniteSet(Heap)
  BY FS_Interval, VectorOK DEF Heap
<1>2. Alive(m) \in SUBSET Heap
  BY DEF Alive
<1> QED BY <1>1, <1>2, FS_Subset, FS_CardinalityType

LEMMA FreeAddressIs ==
    ASSUME NEW m, Cardinality(Alive(m)) < MaxArrays
    PROVE  FreeAddress(m) \in Heap /\ m.arrays[FreeAddress(m)] = NoSlots
<1>1. PICK S : S = {id \in Heap : m.arrays[id] = NoSlots}
  OBVIOUS
<1>2. Cardinality(Heap) = MaxArrays
  BY FS_Interval, VectorOK DEF Heap
<1>3. S # {}
  <2> SUFFICES ASSUME S = {} PROVE FALSE
    OBVIOUS
  <2>1. Alive(m) = Heap
    BY <1>1 DEF Alive
  <2> QED BY <1>2, <2>1, VectorOK
<1>4. S \subseteq 0 .. MaxArrays
  BY <1>1, VectorOK DEF Heap
<1>5. Min(S) \in S
  BY <1>3, <1>4, MinIn, VectorOK
<1>6. FreeAddress(m) = Min(S)
  BY <1>1, Zenon DEF FreeAddress
<1> QED BY <1>1, <1>5, <1>6

\* o is as it was, but for an array of n slots where it had less.
Enlarged(m, b, o, n) ==
    /\ b.undefined = m.undefined /\ b.leaked = m.leaked
    /\ b.vectors[o].size = m.vectors[o].size
    /\ n <= m.vectors[o].capacity => b = m
    /\ n > m.vectors[o].capacity =>
           /\ b.vectors[o].array \in Heap /\ b.vectors[o].capacity = n
           /\ b.arrays[m.vectors[o].array] = NoSlots \/ m.vectors[o].array \notin Heap
    /\ \A p \in Objects \ {o} : b.vectors[p] = m.vectors[p]
    /\ Others(m, b, o)
    /\ \E f \in Heap : Alive(b) \subseteq Alive(m) \cup {f}

LEMMA CopiedKeeps ==
    ASSUME NEW m, Shaped(m), NEW o, Suits(o), client = "vectors", NEW more, Owned(m, more), Fit(m, o),
           m.vectors[o].array # Null, NEW id \in Heap,
           NEW n \in Nat, n > m.vectors[o].capacity, DOMAIN m.arrays[id] = 0 .. n - 1,
           NEW b, b = Copied(m, id, o)
    PROVE  /\ Shaped(b) /\ b.undefined = m.undefined /\ b.leaked = m.leaked /\ b.vectors = m.vectors
           /\ \A c \in Addresses : /\ c # id => b.arrays[c] = m.arrays[c]
                                   /\ DOMAIN b.arrays[c] = DOMAIN m.arrays[c]
                                   /\ b.arrays[c] = NoSlots <=> m.arrays[c] = NoSlots
           /\ Owned(b, more)
<1>1. PICK part : part = [i \in 0 .. Size(m, o) - 1 |-> Element(m, o, i)]
  OBVIOUS
<1>2. b = Stored(m, id, part)
  BY <1>1, Zenon DEF Copied
<1>3. /\ o \in Vectors /\ o \in Objects /\ o \notin Maps /\ m.vectors[o] \in Members /\ Owns(m, o) /\ id \in Addresses
      /\ id \notin Maps
  BY ConstantsApart DEF Suits, Shaped, Owned
<1>4. m.vectors[o].array \notin Maps /\ m.vectors[o].array \in Addresses
  BY <1>3, ConstantsApart, MemberIs DEF Owns
<1>5. m.vectors[o].size \in Nat /\ m.vectors[o].capacity \in Nat /\ m.vectors[o].size <= m.vectors[o].capacity
  BY <1>3, MemberIs DEF Fit, Gone
<1>6. \A i \in 0 .. Size(m, o) - 1 : Element(m, o, i) \in Contents(id)
  <2>1. IsArray(m.vectors[o].array, m.arrays[m.vectors[o].array])
    BY <1>4 DEF Shaped
  <2>2. \A i \in DOMAIN Slots(m, o) : Slots(m, o)[i] \in Values \cup {Unset}
    BY <1>4, <2>1 DEF IsArray, Contents, Slots
  <2> QED BY <1>3, <2>2 DEF Element, Contents
<1>7. DOMAIN part \subseteq DOMAIN m.arrays[id] /\ \A i \in DOMAIN part : part[i] \in Contents(id)
  BY <1>1, <1>5, <1>6 DEF Size
<1>8. /\ Shaped(b) /\ b.undefined = m.undefined /\ b.leaked = m.leaked /\ b.vectors = m.vectors
      /\ \A c \in Addresses : /\ b.arrays[c] = IF c = id THEN Over(part, m.arrays[id]) ELSE m.arrays[c]
                              /\ DOMAIN b.arrays[c] = DOMAIN m.arrays[c]
                              /\ b.arrays[c] = NoSlots <=> m.arrays[c] = NoSlots
      /\ \A any : Owned(m, any) => Owned(b, any)
  <2> HIDE <1>1
  <2> QED BY <1>2, <1>3, <1>7, StoredKeeps
<1> QED BY <1>8

LEMMA ReservedKeeps ==
    ASSUME NEW m, Shaped(m), Owned(m, {}), NEW o, Suits(o), NEW n \in Nat,
           Cardinality(Alive(m)) < MaxArrays,
           NEW copy \in BOOLEAN, copy => client = "vectors" /\ Fit(m, o),
           NEW b, b = Reserved(m, o, n, copy)
    PROVE  Shaped(b) /\ Owned(b, {}) /\ Enlarged(m, b, o, n)
<1>1. o \in Objects /\ m.vectors[o] \in Members /\ m.vectors[o].capacity \in Nat /\ m.vectors[o].size \in Nat
  BY MemberIs DEF Suits, Shaped
<1>2. CASE n <= m.vectors[o].capacity
  <2>1. b = m
    BY <1>2, Zenon DEF Reserved
  <2> QED BY <1>1, <1>2, <2>1, VectorOK DEF Enlarged, Others, Heap
<1>3. CASE n > m.vectors[o].capacity
  <2>1. PICK f : f = FreeAddress(m)
    OBVIOUS
  <2>2. f \in Heap /\ m.arrays[f] = NoSlots
    BY <2>1, FreeAddressIs
  <2>3. PICK a : a = Allocated(m, f, o, n)
    OBVIOUS
  <2>4. /\ Shaped(a) /\ a.undefined = m.undefined /\ a.leaked = m.leaked /\ a.vectors = m.vectors
        /\ \A c \in Addresses : c # f => a.arrays[c] = m.arrays[c]
        /\ a.arrays[f] = [i \in 0 .. n - 1 |-> Blank[o]]
        /\ Owned(a, {f})
    <3>1. n > 0
      BY <1>1, <1>3
    <3>2. PICK none : none = {}
      OBVIOUS
    <3>3. Owned(m, none)
      BY <3>2
    <3>4. Shaped(a) /\ Gains(m, a, o, f, n) /\ Owned(a, none \cup {f})
      <4> HIDE <2>1, <3>2
      <4> QED BY <2>2, <2>3, <3>1, <3>3, AllocatedKeeps, Zenon
    <3>5. none \cup {f} = {f}
      BY <3>2
    <3> QED BY <3>4, <3>5 DEF Gains
  <2>5. PICK d : d = IF copy /\ a.vectors[o].array # Null THEN Copied(a, f, o) ELSE a
    OBVIOUS
  <2>6. /\ Shaped(d) /\ d.undefined = m.undefined /\ d.leaked = m.leaked /\ d.vectors = m.vectors
        /\ \A c \in Addresses : c # f => d.arrays[c] = m.arrays[c]
        /\ DOMAIN d.arrays[f] = 0 .. n - 1
        /\ Owned(d, {f})
    <3>1. f \in Addresses /\ DOMAIN a.arrays[f] = 0 .. n - 1
      BY <2>2, <2>4, ConstantsApart
    <3>2. CASE copy /\ a.vectors[o].array # Null
      <4>1. d = Copied(a, f, o)
        BY <2>5, <3>2
      <4>2. Fit(a, o) /\ client = "vectors"
        BY <2>4, <3>2 DEF Fit
      <4>3. a.vectors[o].array # Null /\ n > a.vectors[o].capacity
        BY <1>3, <2>4, <3>2
      <4>4. /\ Shaped(d) /\ d.undefined = a.undefined /\ d.leaked = a.leaked /\ d.vectors = a.vectors
            /\ \A c \in Addresses : /\ c # f => d.arrays[c] = a.arrays[c]
                                    /\ DOMAIN d.arrays[c] = DOMAIN a.arrays[c]
                                    /\ d.arrays[c] = NoSlots <=> a.arrays[c] = NoSlots
            /\ Owned(d, {f})
        BY <2>2, <2>4, <3>1, <4>1, <4>2, <4>3, CopiedKeeps
      <4> QED BY <2>4, <3>1, <4>4
    <3>3. CASE ~ (copy /\ a.vectors[o].array # Null)
      BY <2>4, <2>5, <3>1, <3>3
    <3> QED BY <3>2, <3>3
  <2>7. PICK size : size = m.vectors[o].size
    OBVIOUS
  <2>8. b = SetBuffer(d, o, f, size, n, TRUE)
    <3>1. b = Moved(a, o, f, n, copy)
      <4>1. ~ (n <= m.vectors[o].capacity)
        BY <1>1, <1>3
      <4> QED BY <2>1, <2>3, <4>1, Zenon DEF Reserved
    <3>2. Size(a, o) = size
      BY <2>4, <2>7 DEF Size
    <3> QED BY <2>5, <3>1, <3>2, Zenon DEF Moved
  <2>9. f \in Addresses /\ size \in Nat
    BY <1>1, <2>2, <2>7, ConstantsApart
  <2>10. Shaped(b) /\ Replaced(d, b, o, f, size, n, TRUE)
    <3> HIDE <2>1, <2>3, <2>4, <2>5, <2>7
    <3> QED BY <1>1, <2>6, <2>8, <2>9, SetBufferKeeps
  <2>11. Owned(b, {})
    <3>1. /\ Shaped(d) /\ Owned(d, {f}) /\ DOMAIN d.arrays[f] = 0 .. n - 1
          /\ Replaced(d, b, o, f, size, n, TRUE)
      BY <2>6, <2>10
    <3>2. n > 0
      BY <1>1, <1>3
    <3> HIDE <2>1, <2>3, <2>4, <2>5, <2>6, <2>7, <2>8, <2>10
    <3> QED BY <1>1, <3>1, <3>2, HandedOver, Zenon
  <2>12. Enlarged(m, b, o, n)
    <3>1. b.undefined = m.undefined /\ b.leaked = m.leaked /\ b.vectors[o].size = m.vectors[o].size
      BY <2>6, <2>7, <2>10 DEF Replaced
    <3>2. b.vectors[o].array \in Heap /\ b.vectors[o].capacity = n
      BY <2>2, <2>10 DEF Replaced
    <3>3. \A p \in Objects \ {o} : b.vectors[p] = m.vectors[p]
      BY <2>6, <2>10 DEF Replaced
    <3>4. \A c \in Addresses : b.arrays[c] = IF c \in Heap /\ c = m.vectors[o].array THEN NoSlots ELSE d.arrays[c]
      BY <2>6, <2>10 DEF Replaced
    <3>5. m.vectors[o].array \in Addresses
      BY <1>1, MemberIs
    <3>6. Others(m, b, o)
      <4> SUFFICES ASSUME NEW p \in Objects \ {o}
                   PROVE  b.arrays[m.vectors[p].array] = m.arrays[m.vectors[p].array]
        BY <3>3 DEF Others
      <4>1. b.arrays[m.vectors[p].array] = d.arrays[m.vectors[p].array]
        BY <2>6, <2>10 DEF Replaced, Others
      <4>2. m.vectors[p].array # f /\ m.vectors[p].array \in Addresses
        BY <2>6, MemberIs DEF Owned, Loose, Shaped
      <4> QED BY <2>6, <4>1, <4>2
    <3>7. Alive(b) \subseteq Alive(m) \cup {f}
      BY <2>6, <3>4, ConstantsApart DEF Alive
    <3> QED BY <1>3, <1>1, <2>2, <3>1, <3>2, <3>3, <3>4, <3>5, <3>6, <3>7 DEF Enlarged
  <2> QED BY <2>10, <2>11, <2>12
<1> QED BY <1>1, <1>2, <1>3

-----------------------------------------------------------------------------
(* Sizing, writing and giving up *)

Sound(m) == Shaped(m) /\ Owned(m, {}) /\ \A p \in Objects : Fit(m, p)

\* At most one array more.
Near(m, b) == b.undefined = m.undefined /\ \E f \in Heap : Alive(b) \subseteq Alive(m) \cup {f}

\* What the slots of an object of the program hold.
Elem == IF client = "vectors" THEN Values \cup {Unset} ELSE Nodes

LEMMA ObjectIs ==
    ASSUME NEW m, Shaped(m), NEW more, Owned(m, more), NEW o, Suits(o),
           NEW r, r = m.vectors[o]
    PROVE  /\ o \in Objects /\ r \in Members /\ r.array \in Addresses
           /\ r.capacity \in Nat /\ r.size \in Nat /\ r.heap \in BOOLEAN
           /\ Contents(r.array) = Elem
           /\ ~Gone(r) => DOMAIN Slots(m, o) = 0 .. r.capacity - 1
<1>1. o \in Objects /\ r \in Members /\ Owns(m, o)
  BY DEF Suits, Shaped, Owned
<1>2. r.array \in Addresses /\ r.capacity \in Nat /\ r.size \in Nat /\ r.heap \in BOOLEAN
  BY <1>1, MemberIs
<1>3. Contents(r.array) = Elem
  <2>1. client = "vectors" => r.array \notin Maps
    BY <1>1, ConstantsApart DEF Suits, Owns
  <2> QED BY <2>1 DEF Contents, Elem
<1>4. ~Gone(r) => DOMAIN Slots(m, o) = 0 .. r.capacity - 1
  BY <1>1 DEF Owns, Slots
<1> QED BY <1>1, <1>2, <1>3, <1>4

LEMMA ElementIn ==
    ASSUME NEW m, Shaped(m), NEW more, Owned(m, more), NEW o, Suits(o), NEW i,
           client = "vectors" \/ (~Gone(m.vectors[o]) /\ Fit(m, o) /\ i \in 0 .. Size(m, o) - 1)
    PROVE  Element(m, o, i) \in Elem
<1>1. PICK r : r = m.vectors[o]
  OBVIOUS
<1>2. /\ r.array \in Addresses /\ r.capacity \in Nat /\ r.size \in Nat
      /\ Contents(r.array) = Elem
      /\ ~Gone(r) => DOMAIN Slots(m, o) = 0 .. r.capacity - 1
  BY <1>1, ObjectIs
<1>3. IsArray(r.array, Slots(m, o))
  BY <1>1, <1>2 DEF Shaped, Slots
<1>4. i \in DOMAIN Slots(m, o) => Slots(m, o)[i] \in Elem
  BY <1>2, <1>3 DEF IsArray
<1>5. CASE client = "vectors"
  BY <1>4, <1>5 DEF Element, Elem
<1>6. CASE client # "vectors"
  <2>1. i \in DOMAIN Slots(m, o)
    BY <1>1, <1>2, <1>6 DEF Fit, Size
  <2> QED BY <1>4, <2>1 DEF Element
<1> QED BY <1>5, <1>6

\* Some slots of the array of o are others.
Overwritten(m, b, o, part) ==
    /\ b.undefined = m.undefined /\ b.leaked = m.leaked /\ b.vectors = m.vectors
    /\ DOMAIN Slots(b, o) = DOMAIN Slots(m, o)
    /\ \A i \in DOMAIN Slots(m, o) : Slots(b, o)[i] = IF i \in DOMAIN part THEN part[i] ELSE Slots(m, o)[i]
    /\ Others(m, b, o)
    /\ Alive(b) = Alive(m)

LEMMA WrittenKeeps ==
    ASSUME NEW m, Shaped(m), NEW more, Owned(m, more), NEW o, Suits(o), NEW part,
           DOMAIN part \subseteq DOMAIN Slots(m, o), \A i \in DOMAIN part : part[i] \in Elem,
           NEW b, b = Written(m, o, part)
    PROVE  Shaped(b) /\ Owned(b, more) /\ Overwritten(m, b, o, part)
<1>1. PICK a : a = m.vectors[o].array
  OBVIOUS
<1>2. o \in Objects /\ a \in Addresses /\ Contents(a) = Elem
  BY <1>1, ObjectIs
<1>3. b = Stored(m, a, part)
  BY <1>1, Zenon DEF Written
<1>4. DOMAIN part \subseteq DOMAIN m.arrays[a] /\ \A i \in DOMAIN part : part[i] \in Contents(a)
  BY <1>1, <1>2 DEF Slots
<1>5. /\ Shaped(b) /\ b.undefined = m.undefined /\ b.leaked = m.leaked /\ b.vectors = m.vectors
      /\ \A c \in Addresses : /\ b.arrays[c] = IF c = a THEN Over(part, m.arrays[a]) ELSE m.arrays[c]
                              /\ DOMAIN b.arrays[c] = DOMAIN m.arrays[c]
                              /\ b.arrays[c] = NoSlots <=> m.arrays[c] = NoSlots
      /\ \A i \in DOMAIN m.arrays[a] :
             b.arrays[a][i] = IF i \in DOMAIN part THEN part[i] ELSE m.arrays[a][i]
      /\ \A any : Owned(m, any) => Owned(b, any)
  BY <1>2, <1>3, <1>4, StoredKeeps
<1>6. Others(m, b, o)
  <2> SUFFICES ASSUME NEW p \in Objects \ {o}
               PROVE  b.arrays[m.vectors[p].array] = m.arrays[m.vectors[p].array]
    BY <1>5 DEF Others
  <2>1. m.vectors[p].array \in Addresses
    BY MemberIs DEF Shaped
  <2>2. CASE m.vectors[p].array # a
    BY <1>5, <2>1, <2>2
  <2>3. CASE m.vectors[p].array = a
    <3>1. a = Null
      BY <1>1, <1>2, <2>3 DEF Owned
    <3>2. m.arrays[Null] = NoSlots
      BY DEF Owned
    <3> QED BY <1>2, <1>5, <2>3, <3>1, <3>2
  <2> QED BY <2>2, <2>3
<1>7. Alive(b) = Alive(m)
  BY <1>5, ConstantsApart DEF Alive
<1>8. Overwritten(m, b, o, part)
  BY <1>1, <1>2, <1>5, <1>6, <1>7 DEF Overwritten, Slots
<1> QED BY <1>5, <1>8

LEMMA SoundSized ==
    ASSUME NEW m, Sound(m), NEW o \in Objects, NEW n \in Nat, Gone(m.vectors[o]) \/ n <= m.vectors[o].capacity,
           NEW b, b = Sized(m, o, n)
    PROVE  /\ Sound(b) /\ Near(m, b) /\ Alive(b) = Alive(m) /\ Others(m, b, o)
           /\ b.vectors[o].size = n /\ b.vectors[o].capacity = m.vectors[o].capacity
           /\ Gone(b.vectors[o]) <=> Gone(m.vectors[o])
           /\ DOMAIN Slots(b, o) = DOMAIN Slots(m, o)
<1>1. /\ Shaped(b) /\ b.undefined = m.undefined /\ b.leaked = m.leaked /\ b.arrays = m.arrays
      /\ b.vectors[o].array = m.vectors[o].array /\ b.vectors[o].capacity = m.vectors[o].capacity
      /\ b.vectors[o].heap = m.vectors[o].heap /\ b.vectors[o].size = n
      /\ Others(m, b, o)
      /\ \A more : Owned(m, more) => Owned(b, more)
  BY SizedKeeps DEF Sound
<1>2. Fit(b, o) /\ (Gone(b.vectors[o]) <=> Gone(m.vectors[o]))
  BY <1>1 DEF Fit, Gone
<1>3. \A p \in Objects : Fit(b, p)
  <2> SUFFICES ASSUME NEW p \in Objects \ {o} PROVE Fit(b, p)
    BY <1>2
  <2>1. b.vectors[p] = m.vectors[p]
    BY <1>1 DEF Others
  <2> QED BY <2>1 DEF Fit, Sound
<1>4. Alive(b) = Alive(m)
  BY <1>1 DEF Alive
<1>5. Near(m, b)
  BY <1>1, <1>4, VectorOK DEF Near, Heap
<1> QED BY <1>1, <1>2, <1>3, <1>4, <1>5 DEF Sound, Slots

LEMMA SoundWritten ==
    ASSUME NEW m, Sound(m), NEW o, Suits(o), NEW part,
           DOMAIN part \subseteq DOMAIN Slots(m, o), \A i \in DOMAIN part : part[i] \in Elem,
           NEW b, b = Written(m, o, part)
    PROVE  Sound(b) /\ Overwritten(m, b, o, part)
<1>1. PICK none : none = {}
  OBVIOUS
<1>2. Shaped(m) /\ Owned(m, none)
  BY <1>1 DEF Sound
<1>3. Shaped(b) /\ Owned(b, none) /\ Overwritten(m, b, o, part)
  BY <1>2, WrittenKeeps
<1>4. \A p \in Objects : Fit(b, p)
  BY <1>3 DEF Overwritten, Fit, Sound
<1> QED BY <1>1, <1>3, <1>4 DEF Sound

LEMMA SizeFits ==
    ASSUME NEW m, Sound(m), NEW o, Suits(o), ~Gone(m.vectors[o])
    PROVE  /\ Size(m, o) \in Nat /\ m.vectors[o].capacity \in Nat /\ Size(m, o) <= m.vectors[o].capacity
           /\ DOMAIN Slots(m, o) = 0 .. m.vectors[o].capacity - 1
           /\ 0 .. Size(m, o) - 1 \subseteq DOMAIN Slots(m, o)
<1>1. PICK r : r = m.vectors[o]
  OBVIOUS
<1>2. PICK none : none = {}
  OBVIOUS
<1>3. Shaped(m) /\ Owned(m, none)
  BY <1>2 DEF Sound
<1>4. r.capacity \in Nat /\ r.size \in Nat /\ DOMAIN Slots(m, o) = 0 .. r.capacity - 1
  BY <1>1, <1>3, ObjectIs
<1>5. r.size <= r.capacity
  BY <1>1 DEF Sound, Fit, Suits
<1> QED BY <1>1, <1>4, <1>5 DEF Size

\* o has room for n.
Roomy(m, b, o, n) ==
    /\ Near(m, b) /\ b.leaked = m.leaked
    /\ b.vectors[o].size = m.vectors[o].size /\ b.vectors[o].capacity >= n
    /\ ~Gone(b.vectors[o])
    /\ Others(m, b, o)

LEMMA SoundReserved ==
    ASSUME NEW m, Sound(m), NEW o, Suits(o), ~Gone(m.vectors[o]), NEW n \in Nat,
           Cardinality(Alive(m)) < MaxArrays,
           NEW copy \in BOOLEAN, copy => client = "vectors",
           NEW b, b = Reserved(m, o, n, copy)
    PROVE  Sound(b) /\ Roomy(m, b, o, n) /\ (n <= m.vectors[o].capacity => b = m)
<1>1. Shaped(b) /\ Owned(b, {}) /\ Enlarged(m, b, o, n)
  BY ReservedKeeps DEF Sound, Suits
<1>2. /\ Size(m, o) \in Nat /\ m.vectors[o].capacity \in Nat /\ Size(m, o) <= m.vectors[o].capacity
      /\ m.vectors[o].size = Size(m, o)
  BY SizeFits DEF Size
<1>3. ~Gone(b.vectors[o]) /\ b.vectors[o].capacity >= n /\ Fit(b, o)
  <2>1. CASE n <= m.vectors[o].capacity
    BY <1>1, <1>2, <2>1 DEF Enlarged, Fit
  <2>2. CASE n > m.vectors[o].capacity
    <3>1. b.vectors[o].array \in Heap /\ b.vectors[o].capacity = n /\ b.vectors[o].size = m.vectors[o].size
      BY <1>1, <2>2 DEF Enlarged
    <3> QED BY <1>2, <2>2, <3>1, ConstantsApart DEF Gone, Fit
  <2> QED BY <1>2, <2>1, <2>2
<1>4. \A p \in Objects : Fit(b, p)
  <2> SUFFICES ASSUME NEW p \in Objects \ {o} PROVE Fit(b, p)
    BY <1>3
  <2>1. b.vectors[p] = m.vectors[p]
    BY <1>1 DEF Enlarged
  <2> QED BY <2>1 DEF Fit, Sound
<1> QED BY <1>1, <1>3, <1>4 DEF Enlarged, Roomy, Near, Sound

LEMMA SoundGrown ==
    ASSUME NEW m, Sound(m), NEW o, Suits(o), ~Gone(m.vectors[o]), NEW n \in Nat,
           Cardinality(Alive(m)) < MaxArrays, client = "vectors",
           NEW b, b = Grown(m, o, n)
    PROVE  Sound(b) /\ Roomy(m, b, o, n)
<1>1. m.vectors[o].capacity \in Nat
  BY SizeFits
<1>2. CASE n > m.vectors[o].capacity
  <2>1. PICK k \in Nat : k = 2 * n
    OBVIOUS
  <2>2. b = Reserved(m, o, k, TRUE)
    BY <1>2, <2>1, Zenon DEF Grown
  <2>3. Sound(b) /\ Roomy(m, b, o, k)
    BY <2>2, SoundReserved
  <2>4. b.vectors[o].capacity >= n
    <3>1. b.vectors[o].capacity \in Nat
      <4>1. ~Gone(b.vectors[o])
        BY <2>3 DEF Roomy
      <4> QED BY <2>3, <4>1, SizeFits
    <3> QED BY <2>1, <2>3, <3>1 DEF Roomy
  <2> QED BY <2>3, <2>4 DEF Roomy
<1>3. CASE ~ (n > m.vectors[o].capacity)
  <2>1. b = m
    BY <1>3, Zenon DEF Grown
  <2>2. n <= m.vectors[o].capacity
    BY <1>1, <1>3
  <2> QED BY <2>1, <2>2, VectorOK DEF Roomy, Near, Others, Heap
<1> QED BY <1>2, <1>3

\* What writing what o holds, into slots it has, keeps.
LEMMA SoundPut ==
    ASSUME NEW m, NEW b, Sound(b), Near(m, b), NEW o, Suits(o), ~Gone(b.vectors[o]), NEW part,
           DOMAIN part \subseteq 0 .. b.vectors[o].capacity - 1, \A i \in DOMAIN part : part[i] \in Elem,
           NEW c, c = Written(b, o, part)
    PROVE  /\ Sound(c) /\ Near(m, c) /\ ~Gone(c.vectors[o])
           /\ c.vectors = b.vectors
<1>1. DOMAIN Slots(b, o) = 0 .. b.vectors[o].capacity - 1
  BY SizeFits
<1>2. Sound(c) /\ Overwritten(b, c, o, part)
  <2>1. DOMAIN part \subseteq DOMAIN Slots(b, o)
    BY <1>1
  <2> QED BY <2>1, SoundWritten
<1> QED BY <1>2 DEF Overwritten, Near

\* What sizing o within its capacity keeps.
LEMMA SoundCut ==
    ASSUME NEW m, NEW b, Sound(b), Near(m, b), NEW o, Suits(o), ~Gone(b.vectors[o]),
           NEW n \in Nat, n <= b.vectors[o].capacity,
           NEW c, c = Sized(b, o, n)
    PROVE  /\ Sound(c) /\ Near(m, c) /\ ~Gone(c.vectors[o])
           /\ c.vectors[o].capacity = b.vectors[o].capacity /\ c.vectors[o].size = n
           /\ Others(b, c, o)
<1>1. /\ Sound(c) /\ Near(b, c) /\ Alive(c) = Alive(b) /\ Others(b, c, o)
      /\ c.vectors[o].size = n /\ c.vectors[o].capacity = b.vectors[o].capacity
      /\ Gone(c.vectors[o]) <=> Gone(b.vectors[o])
  BY SoundSized DEF Suits
<1> QED BY <1>1 DEF Near

-----------------------------------------------------------------------------
(* The functions of Vector *)

\* Of the objects only o changes; it has n elements.
Result(m, b, o, n) ==
    /\ Sound(b) /\ Near(m, b) /\ Others(m, b, o)
    /\ ~Gone(b.vectors[o]) /\ b.vectors[o].size = n
    /\ b.vectors[o].capacity \in Nat /\ n <= b.vectors[o].capacity

LEMMA OthersChain ==
    ASSUME NEW m, NEW b, NEW c, NEW o, Others(m, b, o), Others(b, c, o)
    PROVE  Others(m, c, o)
BY DEF Others

LEMMA RoomySized ==
    ASSUME NEW m, NEW b, NEW o, Suits(o), Sound(b), NEW n \in Nat, Roomy(m, b, o, n),
           NEW c, c = Sized(b, o, n)
    PROVE  Result(m, c, o, n)
<1>1. b.vectors[o].capacity \in Nat
  BY SizeFits DEF Roomy
<1>2. Near(m, b) /\ ~Gone(b.vectors[o]) /\ n <= b.vectors[o].capacity /\ Others(m, b, o)
  BY <1>1 DEF Roomy
<1>3. /\ Sound(c) /\ Near(m, c) /\ ~Gone(c.vectors[o])
      /\ c.vectors[o].capacity = b.vectors[o].capacity /\ c.vectors[o].size = n
      /\ Others(b, c, o)
  BY <1>2, SoundCut
<1> QED BY <1>1, <1>2, <1>3, OthersChain DEF Result

\* What a program may call.
Callable(m, o) == Sound(m) /\ Suits(o) /\ ~Gone(m.vectors[o]) /\ Cardinality(Alive(m)) < MaxArrays

LEMMA GrownSized ==
    ASSUME NEW m, NEW o, Callable(m, o), client = "vectors", NEW n \in Nat,
           NEW b, b = Sized(Grown(m, o, n), o, n)
    PROVE  Result(m, b, o, n)
<1>1. PICK g : g = Grown(m, o, n)
  OBVIOUS
<1>2. Sound(g) /\ Roomy(m, g, o, n)
  BY <1>1, SoundGrown DEF Callable
<1> QED BY <1>1, <1>2, RoomySized DEF Callable

LEMMA ReservedSized ==
    ASSUME NEW m, NEW o, Callable(m, o), NEW copy \in BOOLEAN, copy => client = "vectors", NEW n \in Nat,
           NEW b, b = Sized(Reserved(m, o, n, copy), o, n)
    PROVE  Result(m, b, o, n)
<1>1. PICK g : g = Reserved(m, o, n, copy)
  OBVIOUS
<1>2. Sound(g) /\ Roomy(m, g, o, n)
  BY <1>1, SoundReserved DEF Callable
<1> QED BY <1>1, <1>2, RoomySized DEF Callable

\* Writing into o after a function that gave it n elements.
LEMMA ResultPut ==
    ASSUME NEW m, NEW b, NEW o, Suits(o), NEW n \in Nat, Result(m, b, o, n), NEW part,
           DOMAIN part \subseteq 0 .. n - 1, \A i \in DOMAIN part : part[i] \in Elem,
           NEW c, c = Written(b, o, part)
    PROVE  Result(m, c, o, n)
<1>1. DOMAIN part \subseteq 0 .. b.vectors[o].capacity - 1
  BY DEF Result
<1>2. DOMAIN part \subseteq DOMAIN Slots(b, o)
  BY <1>1, SizeFits DEF Result
<1>3. Sound(c) /\ Overwritten(b, c, o, part)
  BY <1>2, SoundWritten DEF Result
<1>4. Sound(c) /\ Near(m, c) /\ ~Gone(c.vectors[o]) /\ c.vectors = b.vectors
  BY <1>1, SoundPut DEF Result
<1>5. Others(m, c, o)
  BY <1>3, OthersChain DEF Result, Overwritten
<1> QED BY <1>4, <1>5 DEF Result

LEMMA CallableIs ==
    ASSUME NEW m, NEW o, Callable(m, o)
    PROVE  /\ Size(m, o) \in Nat /\ m.vectors[o].size = Size(m, o)
           /\ Result(m, m, o, Size(m, o))
<1>1. Near(m, m) /\ Others(m, m, o)
  BY VectorOK DEF Near, Others, Heap
<1> QED BY <1>1, SizeFits DEF Callable, Result, Size

LEMMA VectorElement ==
    ASSUME NEW m, Sound(m), NEW o, Suits(o), client = "vectors", NEW i
    PROVE  Element(m, o, i) \in Elem
<1>1. PICK none : none = {}
  OBVIOUS
<1>2. Shaped(m) /\ Owned(m, none)
  BY <1>1 DEF Sound
<1> QED BY <1>2, ElementIn

LEMMA AddedKeeps ==
    ASSUME NEW m, NEW o, Callable(m, o), client = "vectors", NEW b, b = Added(m, o)
    PROVE  Result(m, b, o, Size(m, o) + 1)
<1>1. PICK n \in Nat : n = Size(m, o) + 1
  BY CallableIs
<1>2. b = Sized(Grown(m, o, n), o, n)
  BY <1>1, Zenon DEF Added
<1> QED BY <1>1, <1>2, GrownSized

LEMMA AddedVectorKeeps ==
    ASSUME NEW m, NEW o, Callable(m, o), client = "vectors", NEW p, Callable(m, p), NEW b, b = AddedVector(m, o, p)
    PROVE  Sound(b) /\ Near(m, b)
<1>1. CASE Size(m, p) = 0
  <2>1. b = m
    BY <1>1, Zenon DEF AddedVector
  <2> QED BY <2>1, CallableIs DEF Result
<1>2. CASE Size(m, p) # 0
  <2>1. PICK n \in Nat : n = Size(m, o) + Size(m, p)
    BY CallableIs
  <2>2. PICK g : g = Grown(m, o, n)
    OBVIOUS
  <2>3. Sound(g) /\ Roomy(m, g, o, n)
    BY <2>2, SoundGrown DEF Callable
  <2>4. PICK part : part = [i \in Size(m, o) .. Size(m, o) + Size(m, p) - 1 |-> Element(g, p, i - Size(m, o))]
    OBVIOUS
  <2>5. b = Sized(Written(g, o, part), o, n)
    <3>1. b = Joined(m, g, o, p)
      BY <1>2, <2>1, <2>2, Zenon DEF AddedVector
    <3>2. b = Sized(Written(g, o, part), o, Size(m, o) + Size(m, p))
      BY <2>4, <3>1, Zenon DEF Joined
    <3> QED BY <2>1, <3>2, Zenon
  <2>6. PICK w : w = Written(g, o, part)
    OBVIOUS
  <2>7. g.vectors[o].capacity \in Nat /\ n <= g.vectors[o].capacity /\ ~Gone(g.vectors[o]) /\ Near(m, g)
    <3>1. ~Gone(g.vectors[o]) /\ Near(m, g) /\ g.vectors[o].capacity >= n
      BY <2>3 DEF Roomy
    <3>2. g.vectors[o].capacity \in Nat
      BY <2>3, <3>1, SizeFits DEF Callable
    <3> QED BY <3>1, <3>2
  <2>8. Suits(o) /\ Suits(p) /\ Size(m, o) \in Nat
    BY CallableIs DEF Callable
  <2>9. DOMAIN part \subseteq 0 .. g.vectors[o].capacity - 1 /\ \A i \in DOMAIN part : part[i] \in Elem
    <3>1. \A i : Element(g, p, i) \in Elem
      BY <2>3, <2>8, VectorElement
    <3>2. DOMAIN part = Size(m, o) .. Size(m, o) + Size(m, p) - 1 /\ \A i \in DOMAIN part : part[i] \in Elem
      BY <2>4, <3>1
    <3>3. Size(m, p) \in Nat
      BY CallableIs
    <3>4. Size(m, o) .. Size(m, o) + Size(m, p) - 1 \subseteq 0 .. g.vectors[o].capacity - 1
      <4> HIDE <2>2, <2>4
      <4> QED BY <2>1, <2>7, <2>8, <3>3
    <3> QED BY <3>2, <3>4
  <2>10. Sound(w) /\ Near(m, w) /\ ~Gone(w.vectors[o]) /\ w.vectors = g.vectors
    <3> HIDE <2>2, <2>4
    <3> QED BY <2>3, <2>6, <2>7, <2>8, <2>9, SoundPut
  <2>11. b = Sized(w, o, n)
    BY <2>5, <2>6, Zenon
  <2>12. n <= w.vectors[o].capacity
    BY <2>7, <2>10
  <2> QED BY <2>8, <2>10, <2>11, <2>12, SoundCut
<1> QED BY <1>1, <1>2

LEMMA ExpandedToKeeps ==
    ASSUME NEW m, NEW o, Callable(m, o), client = "vectors", NEW index \in Nat, NEW b, b = ExpandedTo(m, o, index)
    PROVE  Result(m, b, o, IF Size(m, o) <= index THEN index + 1 ELSE Size(m, o))
<1>1. CASE Size(m, o) <= index
  <2>1. PICK n \in Nat : n = index + 1
    OBVIOUS
  <2>2. b = Sized(Reserved(m, o, n, TRUE), o, n)
    BY <1>1, <2>1, Zenon DEF ExpandedTo
  <2>3. Result(m, b, o, n)
    BY <2>2, ReservedSized
  <2> QED BY <1>1, <2>1, <2>3
<1>2. CASE ~ (Size(m, o) <= index)
  <2>1. b = m
    BY <1>2, Zenon DEF ExpandedTo
  <2> QED BY <1>2, <2>1, CallableIs
<1> QED BY <1>1, <1>2

LEMMA OpenedKeeps ==
    ASSUME NEW m, NEW o, Callable(m, o), client = "vectors", NEW index \in Nat, NEW b, b = Opened(m, o, index)
    PROVE  \E n \in Nat : index < n /\ Result(m, b, o, n)
<1>1. CASE Size(m, o) <= index
  <2>1. b = ExpandedTo(m, o, index)
    BY <1>1, Zenon DEF Opened
  <2>2. Result(m, b, o, IF Size(m, o) <= index THEN index + 1 ELSE Size(m, o))
    BY <2>1, ExpandedToKeeps
  <2> QED BY <1>1, <2>2
<1>2. CASE ~ (Size(m, o) <= index)
  <2>1. PICK a : a = Added(m, o)
    OBVIOUS
  <2>2. b = Shifted(a, o, index)
    BY <1>2, <2>1, Zenon DEF Opened
  <2>3. PICK n \in Nat : n = Size(m, o) + 1
    BY CallableIs
  <2>4. Result(m, a, o, n)
    BY <2>1, <2>3, AddedKeeps
  <2>5. PICK part : part = [i \in index + 1 .. Size(a, o) - 1 |-> Element(a, o, i - 1)]
    OBVIOUS
  <2>6. b = Written(a, o, part)
    BY <2>2, <2>5, Zenon DEF Shifted
  <2>7. DOMAIN part \subseteq 0 .. n - 1 /\ \A i \in DOMAIN part : part[i] \in Elem
    <3>1. \A i : Element(a, o, i) \in Elem
      BY <2>4, VectorElement DEF Result, Callable
    <3>2. Size(a, o) = n
      BY <2>4 DEF Result, Size
    <3> QED BY <2>5, <3>1, <3>2
  <2>8. Result(m, b, o, n)
    <3> HIDE <2>1, <2>5
    <3> QED BY <2>4, <2>6, <2>7, ResultPut DEF Callable
  <2>9. index < n
    BY <1>2, <2>3, CallableIs
  <2> QED BY <2>8, <2>9
<1> QED BY <1>1, <1>2

LEMMA RemovedIndexKeeps ==
    ASSUME NEW m, NEW o, Callable(m, o), client = "vectors", NEW index \in Nat, NEW b, b = RemovedIndex(m, o, index)
    PROVE  Sound(b) /\ Near(m, b)
<1>1. CASE index < Size(m, o)
  <2>1. PICK n \in Nat : n = Size(m, o) - 1
    BY <1>1, CallableIs
  <2>2. PICK a : a = Sized(m, o, n)
    OBVIOUS
  <2>3. PICK x : x = Element(m, o, n)
    OBVIOUS
  <2>4. b = Written(a, o, Slot(index, x))
    <3>1. b = Written(Sized(m, o, Size(m, o) - 1), o, Slot(index, Element(m, o, Size(m, o) - 1)))
      BY <1>1, Zenon DEF RemovedIndex
    <3> QED BY <2>1, <2>2, <2>3, <3>1, Zenon
  <2>5. Size(m, o) <= m.vectors[o].capacity /\ m.vectors[o].capacity \in Nat /\ Size(m, o) \in Nat
    BY SizeFits DEF Callable
  <2>6. /\ Sound(a) /\ Near(m, a) /\ ~Gone(a.vectors[o])
        /\ a.vectors[o].capacity = m.vectors[o].capacity
    <3>1. n <= m.vectors[o].capacity
      BY <2>1, <2>5
    <3>2. Near(m, m)
      BY CallableIs DEF Result
    <3> QED BY <2>2, <3>1, <3>2, SoundCut DEF Callable
  <2>7. PICK part : part = Slot(index, x)
    OBVIOUS
  <2>8. DOMAIN part \subseteq 0 .. a.vectors[o].capacity - 1 /\ \A i \in DOMAIN part : part[i] \in Elem
    <3>1. x \in Elem
      BY <2>3, VectorElement DEF Callable
    <3>2. DOMAIN part = {index} /\ part[index] = x
      BY <2>7 DEF Slot
    <3> QED BY <1>1, <2>5, <2>6, <3>1, <3>2
  <2>9. b = Written(a, o, part)
    BY <2>4, <2>7, Zenon
  <2> HIDE <2>2, <2>3, <2>4, <2>7
  <2> QED BY <2>6, <2>8, <2>9, SoundPut DEF Callable
<1>2. CASE ~ (index < Size(m, o))
  <2>1. b = m
    BY <1>2, Zenon DEF RemovedIndex
  <2> QED BY <2>1, CallableIs DEF Result
<1> QED BY <1>1, <1>2

LEMMA FindIndexIs ==
    ASSUME NEW m, NEW o, Size(m, o) \in Nat, NEW x
    PROVE  FindIndex(m, o, x) = -1 \/ FindIndex(m, o, x) \in Nat
<1>1. PICK s : s = Elements(m, o)
  OBVIOUS
<1>2. Len(s) = Size(m, o)
  BY <1>1 DEF Elements
<1>3. PICK I : I = {i \in 1 .. Len(s) : s[i] = x}
  OBVIOUS
<1>4. FindIndex(m, o, x) = (IF I # {} THEN Min(I) ELSE 0) - 1
  BY <1>1, <1>3, Zenon DEF FindIndex, SelectInSeq
<1>5. CASE I = {}
  BY <1>4, <1>5
<1>6. CASE I # {}
  <2>1. I \subseteq 0 .. Size(m, o)
    BY <1>2, <1>3
  <2>2. Min(I) \in I
    BY <1>6, <2>1, MinIn
  <2>3. Min(I) \in Nat /\ Min(I) >= 1
    BY <1>2, <1>3, <2>2
  <2> QED BY <1>4, <1>6, <2>3
<1> QED BY <1>5, <1>6

LEMMA RemovedKeeps ==
    ASSUME NEW m, NEW o, Callable(m, o), client = "vectors", NEW x, NEW b, b = Removed(m, o, x)
    PROVE  Sound(b) /\ Near(m, b)
<1>1. CASE FindIndex(m, o, x) = -1
  <2>1. b = m
    BY <1>1, Zenon DEF Removed
  <2> QED BY <2>1, CallableIs DEF Result
<1>2. CASE FindIndex(m, o, x) # -1
  <2>1. PICK index \in Nat : index = FindIndex(m, o, x)
    BY <1>2, FindIndexIs, CallableIs
  <2>2. b = RemovedIndex(m, o, index)
    BY <1>2, <2>1, Zenon DEF Removed
  <2> QED BY <2>2, RemovedIndexKeeps
<1> QED BY <1>1, <1>2

LEMMA FilledKeeps ==
    ASSUME NEW m, NEW b, NEW o, Suits(o), NEW n \in Nat, Result(m, b, o, n), NEW first \in Nat,
           NEW x \in Elem, NEW c, c = Filled(b, o, first, x)
    PROVE  Sound(c) /\ Near(m, c)
<1>1. PICK part : part = [i \in first .. Size(b, o) - 1 |-> x]
  OBVIOUS
<1>2. c = Written(b, o, part)
  BY <1>1, Zenon DEF Filled
<1>3. Size(b, o) = n
  BY DEF Result, Size
<1>4. DOMAIN part \subseteq 0 .. n - 1 /\ \A i \in DOMAIN part : part[i] \in Elem
  BY <1>1, <1>3
<1>5. Result(m, c, o, n)
  <2> HIDE <1>1
  <2> QED BY <1>2, <1>4, ResultPut
<1> QED BY <1>5 DEF Result

\* Also of maps: the elements of the other are within its array.
LEMMA CopyAssignedKeeps ==
    ASSUME NEW m, NEW o, Callable(m, o), NEW p, Callable(m, p), NEW b, b = CopyAssigned(m, o, p)
    PROVE  Sound(b) /\ Near(m, b) /\ Others(m, b, o)
<1>1. Suits(o) /\ Suits(p) /\ o \in Objects /\ p \in Objects /\ Sound(m) /\ Cardinality(Alive(m)) < MaxArrays
  BY DEF Callable, Suits
<1>2. CASE Size(m, p) = 0
  <2>1. b = Sized(m, o, 0)
    BY <1>2, Zenon DEF CopyAssigned
  <2>2. /\ Size(m, o) \in Nat /\ m.vectors[o].capacity \in Nat
    BY <1>1, SizeFits DEF Callable
  <2>3. 0 \in Nat /\ 0 <= m.vectors[o].capacity
    BY <2>2
  <2> QED BY <1>1, <2>1, <2>3, SoundSized
<1>3. CASE Size(m, p) # 0
  <2>1. PICK n \in Nat : n = Size(m, p)
    BY CallableIs
  <2>2. PICK s : s = Sized(m, o, n)
    OBVIOUS
  <2>3. /\ Shaped(s) /\ s.undefined = m.undefined /\ s.leaked = m.leaked /\ s.arrays = m.arrays
        /\ s.vectors[o].array = m.vectors[o].array /\ s.vectors[o].capacity = m.vectors[o].capacity
        /\ s.vectors[o].heap = m.vectors[o].heap /\ s.vectors[o].size = n
        /\ Others(m, s, o)
        /\ \A more : Owned(m, more) => Owned(s, more)
    BY <1>1, <2>2, SizedKeeps DEF Sound
  <2>4. PICK r : r = Reserved(s, o, n, FALSE)
    OBVIOUS
  <2>5. Shaped(r) /\ Owned(r, {}) /\ Enlarged(s, r, o, n)
    <3>1. Cardinality(Alive(s)) < MaxArrays
      <4>1. Alive(s) = Alive(m)
        BY <2>3 DEF Alive
      <4> QED BY <1>1, <4>1
    <3>2. Shaped(s) /\ Owned(s, {})
      BY <1>1, <2>3 DEF Sound
    <3> QED BY <1>1, <2>4, <3>1, <3>2, ReservedKeeps
  <2>6. m.vectors[o].capacity \in Nat
    BY <1>1, SizeFits DEF Callable
  <2>7. r.vectors[o].size = n /\ r.vectors[o].capacity \in Nat /\ n <= r.vectors[o].capacity /\ ~Gone(r.vectors[o])
    <3>1. r.vectors[o].size = n
      BY <2>3, <2>5 DEF Enlarged
    <3>2. CASE n <= s.vectors[o].capacity
      <4>1. r = s
        BY <2>5, <3>2 DEF Enlarged
      <4>2. ~Gone(s.vectors[o])
        BY <2>3 DEF Callable, Gone
      <4> QED BY <2>3, <2>6, <3>1, <3>2, <4>1, <4>2
    <3>3. CASE n > s.vectors[o].capacity
      <4>1. r.vectors[o].array \in Heap /\ r.vectors[o].capacity = n
        BY <2>5, <3>3 DEF Enlarged
      <4> QED BY <3>1, <4>1, ConstantsApart DEF Gone
    <3> QED BY <2>3, <2>6, <3>2, <3>3
  <2>8. Others(m, r, o)
    BY <2>3, <2>5, OthersChain DEF Enlarged
  <2>9. \A q \in Objects : Fit(r, q)
    <3> SUFFICES ASSUME NEW q \in Objects \ {o} PROVE Fit(r, q)
      BY <2>7 DEF Fit
    <3>1. r.vectors[q] = m.vectors[q]
      BY <2>8 DEF Others
    <3> QED BY <1>1, <3>1 DEF Fit, Sound
  <2>10. Near(m, r)
    <3>1. Alive(s) = Alive(m)
      BY <2>3 DEF Alive
    <3> QED BY <2>3, <2>5, <3>1 DEF Near, Enlarged
  <2>11. Result(m, r, o, n)
    BY <2>5, <2>7, <2>8, <2>9, <2>10 DEF Result, Sound
  <2>12. PICK part : part = [i \in 0 .. Size(r, o) - 1 |-> Element(r, p, i)]
    OBVIOUS
  <2>13. b = Written(r, o, part)
    <3>1. b = CopyInto(r, o, p)
      BY <1>3, <2>1, <2>2, <2>4, Zenon DEF CopyAssigned
    <3> QED BY <2>12, <3>1, Zenon DEF CopyInto
  <2>14. Size(r, o) = n
    BY <2>7 DEF Size
  <2>15. ~Gone(r.vectors[p]) /\ Fit(r, p) /\ Size(r, p) = n
    <3>1. CASE p = o
      BY <1>1, <2>7, <2>9, <2>14, <3>1
    <3>2. CASE p # o
      <4>1. r.vectors[p] = m.vectors[p]
        BY <1>1, <2>8, <3>2 DEF Others
      <4> QED BY <1>1, <2>1, <2>9, <4>1 DEF Callable, Size
    <3> QED BY <3>1, <3>2
  <2>16. \A i \in 0 .. n - 1 : Element(r, p, i) \in Elem
    <3>1. PICK none : none = {}
      OBVIOUS
    <3>2. Shaped(r) /\ Owned(r, none)
      BY <2>5, <3>1
    <3> HIDE <3>1
    <3> QED BY <1>1, <2>15, <3>2, ElementIn
  <2>17. DOMAIN part \subseteq 0 .. n - 1 /\ \A i \in DOMAIN part : part[i] \in Elem
    BY <2>12, <2>14, <2>16
  <2>18. Result(m, b, o, n)
    <3> HIDE <2>2, <2>4, <2>12
    <3> QED BY <1>1, <2>11, <2>13, <2>17, ResultPut
  <2> QED BY <2>18 DEF Result
<1> QED BY <1>2, <1>3

LEMMA MemberWithout ==
    ASSUME NEW r \in Members, NEW q, q = [r EXCEPT !.array = Null]
    PROVE  q \in Members /\ q.array = Null /\ q.size = r.size /\ q.capacity = r.capacity /\ q.heap = r.heap
BY DEF Members, Addresses

\* What o had is nobody's, what p had is that of o.
LEMMA TakenKeeps ==
    ASSUME NEW m, Sound(m), NEW o \in Vectors, NEW p \in Vectors, o # p, m.vectors[p].size # 0,
           NEW b, b = Taken(m, o, p)
    PROVE  Sound(b) /\ Near(m, b)
<1>1. /\ IsMemory(b)
      /\ b.vectors = [[m.vectors EXCEPT ![o] = m.vectors[p]] EXCEPT ![p].array = Null]
      /\ b.arrays = m.arrays
      /\ b.leaked = (IF m.vectors[o].heap THEN m.leaked \cup ({m.vectors[o].array} \ {Null}) ELSE m.leaked)
      /\ b.undefined = m.undefined
  <2>1. IsMemory(m)
    BY DEF Sound, Shaped
  <2>2. TakenFrom(m, b, o, p)
    BY <2>1, TakenIs
  <2> QED BY <2>2, Zenon DEF TakenFrom
<1>2. o \in Objects /\ p \in Objects /\ o \notin Maps /\ p \notin Maps
  BY ConstantsApart
<1>3. m.vectors \in [Objects -> Members]
  BY DEF Sound, Shaped
<1>4. PICK r : r = m.vectors[p]
  OBVIOUS
<1>5. PICK q : q = [r EXCEPT !.array = Null]
  OBVIOUS
<1>6. r \in Members
  BY <1>2, <1>3, <1>4
<1>7. q \in Members /\ q.array = Null /\ q.size = r.size /\ q.capacity = r.capacity /\ q.heap = r.heap
  BY <1>5, <1>6, MemberWithout
<1>8. /\ b.vectors \in [Objects -> Members]
      /\ \A x \in Objects : b.vectors[x] = IF x = o THEN r ELSE IF x = p THEN q ELSE m.vectors[x]
  <2>1. PICK first : first = [m.vectors EXCEPT ![o] = r]
    OBVIOUS
  <2>2. first \in [Objects -> Members] /\ first[p] = r /\ first[o] = r
        /\ \A x \in Objects \ {o} : first[x] = m.vectors[x]
    BY <1>2, <1>3, <1>4, <1>6, <2>1
  <2>3. b.vectors = [first EXCEPT ![p] = q]
    <3>1. b.vectors = [first EXCEPT ![p] = [first[p] EXCEPT !.array = Null]]
      BY <1>1, <1>4, <2>1, Zenon
    <3> QED BY <1>5, <2>2, <3>1, Zenon
  <2>4. q \in Members
    BY <1>7
  <2> HIDE <1>1, <1>5, <1>7, <2>1
  <2> QED BY <1>2, <2>2, <2>3, <2>4
<1>9. IsMemory(b) /\ b.arrays = m.arrays /\ b.undefined = m.undefined
  BY <1>1
<1>10. Owned(m, {}) /\ Owns(m, o) /\ Owns(m, p)
  BY <1>2 DEF Sound, Owned
<1>11. m.vectors[o].heap /\ m.vectors[p].heap /\ m.vectors[o].array \in Heap \cup {Null}
  BY <1>2, <1>10 DEF Owns
<1>12. b.leaked = m.leaked \cup ({m.vectors[o].array} \ {Null})
  BY <1>1, <1>11
<1> HIDE <1>1, <1>5
<1>13. q.array = Null /\ q.size = r.size /\ q.capacity = r.capacity /\ q.heap = r.heap
  BY <1>7
<1>14. Shaped(b)
  BY <1>8, <1>9 DEF Shaped, Sound
<1>15. r.capacity \in Nat /\ r.size \in Nat
  BY <1>6, MemberIs
<1>16. \A x \in Objects : Owns(b, x)
  <2>1. Owns(b, o)
    BY <1>2, <1>4, <1>8, <1>9, <1>10 DEF Owns
  <2>2. Owns(b, p)
    <3>1. m.arrays[Null] = NoSlots
      BY <1>10 DEF Owned
    <3>2. r.capacity = 0 => DOMAIN m.arrays[Null] = 0 .. r.capacity - 1
      BY <3>1, EmptyArray
    <3>3. b.vectors[p] = q
      BY <1>2, <1>8
    <3>4. q.heap
      BY <1>4, <1>11, <1>13
    <3> QED BY <1>2, <1>9, <1>13, <1>15, <3>2, <3>3, <3>4, ConstantsApart DEF Owns, Gone
  <2>3. ASSUME NEW x \in Objects, x # o, x # p PROVE Owns(b, x)
    <3>1. b.vectors[x] = m.vectors[x]
      BY <1>8, <2>3
    <3>2. Owns(m, x)
      BY <1>10 DEF Owned
    <3> QED BY <1>9, <3>1, <3>2 DEF Owns
  <2> QED BY <2>1, <2>2, <2>3
<1>17. \A x, y \in Objects : m.vectors[x].array = m.vectors[y].array => x = y \/ m.vectors[x].array = Null
  BY <1>10 DEF Owned
<1>18. \A x \in Objects :
           b.vectors[x].array = IF x = o THEN m.vectors[p].array ELSE IF x = p THEN Null ELSE m.vectors[x].array
  BY <1>4, <1>8, <1>13
<1>19. \A x, y \in Objects : b.vectors[x].array = b.vectors[y].array => x = y \/ b.vectors[x].array = Null
  BY <1>2, <1>17, <1>18
<1>20. \A a \in b.leaked : Loose(b, a)
  <2> SUFFICES ASSUME NEW a \in b.leaked PROVE Loose(b, a)
    OBVIOUS
  <2>1. CASE a \in m.leaked
    <3>1. Loose(m, a)
      BY <1>10, <2>1 DEF Owned
    <3>2. a # Null
      BY <3>1, ConstantsApart DEF Loose
    <3> QED BY <1>2, <1>9, <1>18, <3>1, <3>2 DEF Loose
  <2>2. CASE a = m.vectors[o].array /\ a # Null
    <3>1. a \in Heap
      BY <1>11, <2>2
    <3>2. m.arrays[a] # NoSlots
      <4>1. PICK c \in Nat : c = m.vectors[o].capacity
        BY <1>2, <1>3, MemberIs
      <4>2. c > 0 /\ DOMAIN m.arrays[a] = 0 .. c - 1
        BY <1>10, <2>2, <3>1, <4>1 DEF Owns, Gone
      <4> QED BY <4>2, NotEmptyArray
    <3>3. \A x \in Objects : b.vectors[x].array # a
      BY <1>2, <1>17, <1>18, <2>2
    <3> QED BY <1>9, <3>1, <3>2, <3>3 DEF Loose
  <2> QED BY <1>12, <2>1, <2>2
<1>21. \A a \in Heap : b.arrays[a] # NoSlots => a \in b.leaked \/ \E x \in Objects : b.vectors[x].array = a
  <2> SUFFICES ASSUME NEW a \in Heap, m.arrays[a] # NoSlots, a \notin b.leaked
               PROVE  \E x \in Objects : b.vectors[x].array = a
    BY <1>9
  <2>1. PICK x \in Objects : m.vectors[x].array = a
    <3>1. a \notin m.leaked
      BY <1>12
    <3> QED BY <1>10, <3>1 DEF Owned
  <2>2. a # Null
    BY ConstantsApart
  <2>3. x # o
    BY <1>12, <2>1, <2>2
  <2> QED BY <1>2, <1>18, <2>1, <2>3
<1>22. Owned(b, {})
  <2>1. m.arrays[Null] = NoSlots
    BY <1>10 DEF Owned
  <2>2. b.leaked \cap {} = {} /\ b.leaked \cup {} = b.leaked
    OBVIOUS
  <2> QED BY <1>9, <1>16, <1>19, <1>20, <1>21, <2>1, <2>2, Zenon DEF Owned
<1>23. \A x \in Objects : Fit(b, x)
  <2>1. \A x \in Objects : Fit(m, x)
    BY DEF Sound
  <2>2. Fit(b, o)
    BY <1>2, <1>4, <1>8, <2>1 DEF Fit
  <2>3. Fit(b, p)
    <3>1. b.vectors[p] = q /\ Fit(m, p)
      BY <1>2, <1>8, <2>1
    <3> QED BY <1>4, <1>13, <1>15, <3>1 DEF Fit, Gone
  <2>4. ASSUME NEW x \in Objects, x # o, x # p PROVE Fit(b, x)
    BY <1>8, <2>1, <2>4 DEF Fit
  <2> QED BY <2>2, <2>3, <2>4
<1>24. Near(m, b)
  BY <1>9, VectorOK DEF Near, Alive, Heap
<1> QED BY <1>14, <1>22, <1>23, <1>24 DEF Sound

LEMMA MoveAssignedKeeps ==
    ASSUME NEW m, Sound(m), NEW o \in Vectors, NEW p \in Vectors, NEW b, b = MoveAssigned(m, o, p)
    PROVE  Sound(b) /\ Near(m, b)
<1>1. o \in Objects /\ p \in Objects
  BY ConstantsApart
<1>2. PICK s : s = Sized(m, o, 0)
  OBVIOUS
<1>3. m.vectors[o].capacity \in Nat
  BY <1>1, MemberIs DEF Sound, Shaped
<1>4. Sound(s) /\ Near(m, s) /\ Alive(s) = Alive(m) /\ s.vectors[o].size = 0
  BY <1>1, <1>2, <1>3, SoundSized
<1>5. b = Taken(s, o, p)
  BY <1>2, Zenon DEF MoveAssigned
<1>6. CASE Size(s, p) = 0
  <2>1. b = s
    BY <1>5, <1>6, Zenon DEF Taken
  <2> QED BY <1>4, <2>1
<1>7. CASE Size(s, p) # 0
  <2>1. o # p /\ s.vectors[p].size # 0
    BY <1>4, <1>7 DEF Size
  <2>2. Sound(b) /\ Near(s, b)
    <3> HIDE <1>2
    <3> QED BY <1>4, <1>5, <2>1, TakenKeeps
  <2> QED BY <1>4, <2>2 DEF Near
<1> QED BY <1>6, <1>7

\* o gives up its array and has none, or its own.
LEMMA GivenUp ==
    ASSUME NEW m, Sound(m), NEW o \in Objects, NEW b, Shaped(b), b.leaked = m.leaked, b.undefined = m.undefined,
           Owns(b, o), Fit(b, o), b.vectors[o].array \notin Heap, Others(m, b, o),
           \A a \in Heap \cup {Null} :
               b.arrays[a] = IF a \in Heap /\ a = m.vectors[o].array THEN NoSlots ELSE m.arrays[a]
    PROVE  Sound(b) /\ Near(m, b)
<1>1. \A p \in Objects \ {o} : b.vectors[p] = m.vectors[p]
  BY DEF Others
<1>2. Owned(m, {})
  BY DEF Sound
<1>3. ASSUME NEW p \in Objects \ {o} PROVE Owns(b, p) /\ Fit(b, p)
  <2>1. b.vectors[p] = m.vectors[p] /\ b.arrays[m.vectors[p].array] = m.arrays[m.vectors[p].array]
    BY DEF Others
  <2>2. Owns(m, p) /\ Fit(m, p)
    BY DEF Sound, Owned
  <2> QED BY <2>1, <2>2 DEF Owns, Fit
<1>4. b.arrays[Null] = NoSlots
  BY <1>2, ConstantsApart DEF Owned
<1>5. \A p, q \in Objects : b.vectors[p].array = b.vectors[q].array => p = q \/ b.vectors[p].array = Null
  <2>1. \A p, q \in Objects : m.vectors[p].array = m.vectors[q].array => p = q \/ m.vectors[p].array = Null
    BY <1>2 DEF Owned
  <2>2. b.vectors[o].array = Null \/ (o \in Maps /\ b.vectors[o].array = o)
    BY ConstantsApart DEF Owns
  <2>3. \A p \in Objects \ {o} : b.vectors[p].array = b.vectors[o].array => b.vectors[p].array = Null
    <3> SUFFICES ASSUME NEW p \in Objects \ {o}, b.vectors[p].array = b.vectors[o].array
                 PROVE  b.vectors[p].array = Null
      OBVIOUS
    <3>1. b.vectors[p].array \in Heap \cup {Null} \/ b.vectors[p].array = p
      BY <1>3 DEF Owns
    <3> QED BY <2>2, <3>1, ConstantsApart
  <2> QED BY <1>1, <2>1, <2>3
<1>6. \A a \in b.leaked : Loose(b, a)
  <2> SUFFICES ASSUME NEW a \in m.leaked PROVE Loose(b, a)
    OBVIOUS
  <2>1. Loose(m, a)
    BY <1>2 DEF Owned
  <2>2. a # m.vectors[o].array /\ a \in Heap
    BY <2>1 DEF Loose
  <2> QED BY <1>1, <2>1, <2>2 DEF Loose
<1>7. \A a \in Heap : b.arrays[a] # NoSlots => a \in b.leaked \/ \E p \in Objects : b.vectors[p].array = a
  <2> SUFFICES ASSUME NEW a \in Heap, b.arrays[a] # NoSlots, a \notin m.leaked
               PROVE  \E p \in Objects : b.vectors[p].array = a
    OBVIOUS
  <2>1. a # m.vectors[o].array /\ m.arrays[a] # NoSlots
    OBVIOUS
  <2>2. PICK p \in Objects : m.vectors[p].array = a
    BY <1>2, <2>1 DEF Owned
  <2> QED BY <1>1, <2>1, <2>2
<1>8. Owned(b, {})
  <2>1. \A p \in Objects : Owns(b, p)
    BY <1>3
  <2>2. b.leaked \cap {} = {} /\ b.leaked \cup {} = b.leaked
    OBVIOUS
  <2> QED BY <1>4, <1>5, <1>6, <1>7, <2>1, <2>2, Zenon DEF Owned
<1>9. \A p \in Objects : Fit(b, p)
  BY <1>3
<1>10. Alive(b) \subseteq Alive(m)
  BY ConstantsApart DEF Alive
<1> QED BY <1>8, <1>9, <1>10, VectorOK DEF Sound, Near, Heap

LEMMA RenewKeeps ==
    ASSUME NEW m, Sound(m), NEW o \in Vectors, NEW b, b = SetBuffer(m, o, Null, 0, 0, TRUE)
    PROVE  Sound(b) /\ Near(m, b)
<1>1. o \in Objects /\ o \notin Maps /\ Null \in Addresses /\ 0 \in Nat /\ TRUE \in BOOLEAN
  BY ConstantsApart
<1>2. PICK none : none = {}
  OBVIOUS
<1>3. Shaped(m) /\ Owned(m, none)
  BY <1>2 DEF Sound
<1>4. Shaped(b) /\ Replaced(m, b, o, Null, 0, 0, TRUE)
  BY <1>1, <1>3, SetBufferKeeps
<1>5. /\ b.leaked = m.leaked /\ b.undefined = m.undefined /\ Others(m, b, o)
      /\ b.vectors[o].array = Null /\ b.vectors[o].size = 0 /\ b.vectors[o].capacity = 0 /\ b.vectors[o].heap
      /\ \A a \in Addresses :
             b.arrays[a] = IF a \in Heap /\ a = m.vectors[o].array THEN NoSlots ELSE m.arrays[a]
  BY <1>4 DEF Replaced
<1>6. \A a \in Heap \cup {Null} :
          b.arrays[a] = IF a \in Heap /\ a = m.vectors[o].array THEN NoSlots ELSE m.arrays[a]
  <2> SUFFICES ASSUME NEW a \in Heap \cup {Null}
               PROVE  b.arrays[a] = IF a \in Heap /\ a = m.vectors[o].array THEN NoSlots ELSE m.arrays[a]
    OBVIOUS
  <2>1. a \in Addresses
    BY ConstantsApart
  <2> QED BY <1>5, <2>1
<1>7. b.arrays[Null] = NoSlots
  <2>1. m.arrays[Null] = NoSlots
    BY <1>3 DEF Owned
  <2> QED BY <1>6, <2>1, ConstantsApart
<1>8. Owns(b, o) /\ Fit(b, o) /\ b.vectors[o].array \notin Heap
  <2>1. b.vectors[o].array = Null /\ b.vectors[o].size = 0 /\ b.vectors[o].capacity = 0 /\ b.vectors[o].heap
    BY <1>5
  <2>2. DOMAIN b.arrays[Null] = 0 .. 0 - 1
    BY <1>7, EmptyArray
  <2>3. Null \notin Heap
    BY ConstantsApart
  <2>4. Owns(b, o)
    BY <1>1, <2>1, <2>2, <2>3 DEF Owns
  <2>5. Fit(b, o)
    <3>1. 0 <= 0
      OBVIOUS
    <3> QED BY <2>1, <3>1, Zenon DEF Fit
  <2> QED BY <2>1, <2>3, <2>4, <2>5
<1>9. b.leaked = m.leaked /\ b.undefined = m.undefined /\ Others(m, b, o)
  BY <1>5
<1>10. Shaped(b)
  BY <1>4
<1> HIDE <1>5
<1> QED BY <1>1, <1>6, <1>8, <1>9, <1>10, GivenUp

LEMMA SortedKeeps ==
    ASSUME NEW m, NEW o, Callable(m, o), client = "vectors", NEW t \in Sortings(Elements(m, o)),
           NEW b, b = Sorted(m, o, t)
    PROVE  Sound(b) /\ Near(m, b)
<1>1. PICK n \in Nat : n = Size(m, o)
  BY CallableIs
<1>2. PICK s : s = Elements(m, o)
  OBVIOUS
<1>3. DOMAIN s = 1 .. n /\ \A i \in 1 .. n : s[i] \in Elem
  <2>1. \A i : Element(m, o, i) \in Elem
    BY VectorElement DEF Callable
  <2> QED BY <1>1, <1>2, <2>1 DEF Elements
<1>4. Len(s) = n
  BY <1>1, <1>2 DEF Elements
<1>5. ToSet(s) \subseteq Elem
  BY <1>3, <1>4 DEF ToSet
<1>6. t \in [1 .. n -> ToSet(s)]
  BY <1>2, <1>3 DEF Sortings
<1>7. \A i \in 1 .. n : t[i] \in Elem
  BY <1>5, <1>6
<1>8. PICK part : part = [i \in 0 .. n - 1 |-> t[i + 1]]
  OBVIOUS
<1>9. b = Written(m, o, part)
  <2>1. part = [i \in 0 .. Size(m, o) - 1 |-> t[i + 1]]
    BY <1>1, <1>8
  <2> QED BY <2>1, Zenon DEF Sorted
<1>10. DOMAIN part \subseteq 0 .. n - 1 /\ \A i \in DOMAIN part : part[i] \in Elem
  BY <1>7, <1>8
<1>11. Result(m, m, o, n) /\ Suits(o)
  BY <1>1, CallableIs DEF Callable
<1>12. Result(m, b, o, n)
  <2> HIDE <1>8
  <2> QED BY <1>9, <1>10, <1>11, ResultPut
<1> QED BY <1>12 DEF Result

-----------------------------------------------------------------------------
(* The invariant, but for what the maps hold *)

\* The array of a table that is being made
Making == IF job.at = "rehash" THEN {job.array} ELSE {}

JobTyped ==
    \/ job = NoJob
    \/ client = "maps" /\ \E m \in Maps, k \in Keys, x \in Values :
           \/ job = [at |-> "find", map |-> m, key |-> k, value |-> x]
           \/ \E a \in Heap, e \in 0 .. vectors[m].capacity :
                  /\ job = [at |-> "rehash", map |-> m, key |-> k, value |-> x, array |-> a, element |-> e]
                  /\ DOMAIN arrays[a] = 0 .. 2 * vectors[m].capacity - 1

\* A call leaves one array more, and add() no other but the one it is making.
Counted ==
    /\ job.at = "return" => Cardinality(Alive(memory)) <= calls
    /\ job.at = "find" =>
           /\ Cardinality(Alive(memory)) <= calls
           /\ vectors[job.map].array \notin Heap => Cardinality(Alive(memory)) + 1 <= calls
    /\ job.at = "rehash" =>
           /\ Cardinality(Alive(memory)) <= calls + 1
           /\ vectors[job.map].array \notin Heap => Cardinality(Alive(memory)) <= calls

Typed ==
    /\ Shaped(memory) /\ Owned(memory, Making) /\ \A o \in Objects : Fit(memory, o)
    /\ calls \in 0 .. MaxCalls /\ copied \subseteq Maps
    /\ client \in {"vectors", "maps"}
    /\ client = "vectors" => job = NoJob /\ copied = {} /\ ~undefined
    /\ undefined => copied # {} /\ (job.at = "rehash" => job.map \in copied)
    /\ JobTyped
    /\ ~undefined => Counted

LEMMA RememberIs ==
    ASSUME NEW b, IsMemory(b), Remember(b)
    PROVE  memory' = b
BY Zenon DEF Remember, IsMemory, memory

LEMMA RememberSound ==
    ASSUME NEW b, Sound(b), Remember(b)
    PROVE  memory' = b
BY RememberIs DEF Sound, Shaped

\* What is known of a memory is known of it after a step, if it is the memory then.
LEMMA ShapedThen ==
    ASSUME NEW b, memory' = b, client' = client
    PROVE  /\ Shaped(b) => Shaped(memory)'
           /\ \A more : Owned(b, more) <=> Owned(memory', more)
<1>1. \A a, s : IsArray(a, s)' <=> IsArray(a, s)
  BY DEF IsArray, Contents
<1>2. Shaped(b) => Shaped(memory)'
  BY <1>1, Zenon DEF Shaped, IsMemory, Contents, IsArray
<1> QED BY <1>2

LEMMA NearCount ==
    ASSUME NEW m, NEW b, Near(m, b)
    PROVE  Cardinality(Alive(b)) <= Cardinality(Alive(m)) + 1
<1>1. PICK f \in Heap : Alive(b) \subseteq Alive(m) \cup {f}
  BY DEF Near
<1>2. PICK A : A = Alive(m)
  OBVIOUS
<1>3. PICK B : B = Alive(b)
  OBVIOUS
<1>4. IsFiniteSet(A) /\ Cardinality(A) \in Nat /\ IsFiniteSet(B) /\ Cardinality(B) \in Nat
  BY <1>2, <1>3, AliveFinite
<1>5. IsFiniteSet(A \cup {f}) /\ Cardinality(A \cup {f}) <= Cardinality(A) + 1
  <2>1. IsFiniteSet(A)
    BY <1>4
  <2>2. /\ IsFiniteSet(A \cup {f})
        /\ Cardinality(A \cup {f}) = IF f \in A THEN Cardinality(A) ELSE Cardinality(A) + 1
    BY <2>1, FS_AddElement, Zenon
  <2> QED BY <1>4, <2>2
<1>6. Cardinality(B) <= Cardinality(A \cup {f}) /\ Cardinality(A \cup {f}) \in Nat
  BY <1>1, <1>2, <1>3, <1>5, FS_Subset, FS_CardinalityType
<1>7. Cardinality(B) <= Cardinality(A) + 1
  BY <1>4, <1>5, <1>6
<1> QED BY <1>2, <1>3, <1>7

-----------------------------------------------------------------------------
(* The calls of vectors *)

LEMMA CallIs ==
    ASSUME Typed, client = "vectors", calls < MaxCalls, NEW v \in Vectors
    PROVE  /\ Sound(memory) /\ Suits(v) /\ Near(memory, memory)
           /\ ~MovedFrom(v) => Callable(memory, v)
<1>1. job = NoJob /\ ~undefined
  BY DEF Typed
<1>2. Making = {}
  BY <1>1 DEF Making, NoJob
<1>3. Sound(memory)
  BY <1>2 DEF Typed, Sound
<1>4. Suits(v)
  BY ConstantsApart DEF Suits
<1>5. Cardinality(Alive(memory)) < MaxArrays
  <2>1. Cardinality(Alive(memory)) <= calls
    BY <1>1 DEF Typed, Counted, NoJob
  <2> QED BY <2>1, AliveFinite, VectorOK DEF Typed
<1>6. MovedFrom(v) <=> Gone(memory.vectors[v])
  BY MemoryIs DEF MovedFrom, Gone
<1>7. Near(memory, memory)
  BY VectorOK DEF Near, Heap
<1> QED BY <1>3, <1>4, <1>5, <1>6, <1>7 DEF Callable

LEMMA CallKeeps ==
    ASSUME Typed, client = "vectors", ~undefined, calls < MaxCalls, calls' = calls + 1,
           NEW b, Sound(b), Near(memory, b), Remember(b), UNCHANGED mapVars
    PROVE  Typed'
<1>1. memory' = b
  BY RememberSound
<1>2. client' = client /\ job' = job /\ copied' = copied
  BY DEF mapVars
<1>3. job = NoJob /\ copied = {}
  BY DEF Typed
<1>4. Making' = {}
  BY <1>2, <1>3 DEF Making, NoJob
<1>5. Shaped(memory)'
  BY <1>1, <1>2, ShapedThen DEF Sound
<1>6. Owned(memory, Making)'
  BY <1>1, <1>4 DEF Sound
<1>7. (\A o \in Objects : Fit(memory, o))'
  BY <1>1 DEF Sound
<1>8. undefined' = FALSE
  BY MemoryIs DEF Near, Remember, Typed, Shaped
<1>9. Counted'
  <2>1. Cardinality(Alive(b)) <= Cardinality(Alive(memory)) + 1
    BY NearCount
  <2>2. Cardinality(Alive(memory)) <= calls
    BY <1>3 DEF Typed, Counted, NoJob
  <2>3. Cardinality(Alive(b)) <= calls + 1
    BY <2>1, <2>2, AliveFinite DEF Typed
  <2>4. Cardinality(Alive(memory))' <= calls'
    BY <1>1, <2>3
  <2> QED BY <1>2, <1>3, <2>4 DEF Counted, NoJob
<1>10. calls' \in 0 .. MaxCalls
  BY VectorOK DEF Typed
<1> QED BY <1>2, <1>3, <1>5, <1>6, <1>7, <1>8, <1>9, <1>10 DEF Typed, JobTyped

\* What a step of a vector comes to.
Calls(b) == Sound(b) /\ Near(memory, b) /\ Remember(b)

LEMMA PassedIn ==
    ASSUME Typed, client = "vectors", calls < MaxCalls, NEW v \in Vectors, NEW m, NEW x \in Passed(v, m), Sound(m)
    PROVE  x \in Elem
<1>1. Suits(v)
  BY CallIs
<1>2. \A i : Element(m, v, i) \in Elem
  BY <1>1, VectorElement
<1> QED BY <1>2 DEF Passed, Elem

LEMMA PutKeeps ==
    ASSUME Typed, client = "vectors", calls < MaxCalls, NEW v \in Vectors, NEW m, NEW n \in Nat,
           Result(memory, m, v, n), NEW index \in Nat, index < n, Put(v, m, index)
    PROVE  \E b : Calls(b)
<1>1. PICK x \in Passed(v, m) : Remember(Written(m, v, Slot(index, x)))
  BY DEF Put
<1>2. PICK part : part = Slot(index, x)
  OBVIOUS
<1>3. PICK b : b = Written(m, v, part)
  OBVIOUS
<1>4. x \in Elem
  BY PassedIn DEF Result
<1>5. DOMAIN part \subseteq 0 .. n - 1 /\ \A i \in DOMAIN part : part[i] \in Elem
  <2>1. DOMAIN part = {index} /\ part[index] = x
    BY <1>2 DEF Slot
  <2> QED BY <1>4, <2>1
<1>6. Suits(v)
  BY CallIs
<1>7. Result(memory, b, v, n)
  <2> HIDE <1>2
  <2> QED BY <1>3, <1>5, <1>6, ResultPut
<1>8. Remember(b)
  BY <1>1, <1>2, <1>3, Zenon
<1> QED BY <1>7, <1>8 DEF Calls, Result

LEMMA VectorCalls ==
    ASSUME Typed, client = "vectors", VectorNext
    PROVE  ~undefined /\ calls < MaxCalls /\ calls' = calls + 1 /\ \E b : Calls(b)
<1>1. PICK v \in Vectors :
          \/ Add(v) \/ RemoveValue(v) \/ Clear(v) \/ Sort(v) \/ Renew(v)
          \/ \E w \in Vectors : AddVector(v, w) \/ CopyAssign(v, w) \/ MoveAssign(v, w)
          \/ \E n \in 0 .. MaxSize :
                 Insert(v, n) \/ RemoveIndex(v, n) \/ Resize(v, n) \/ Expand(v, n) \/ ExpandTo(v, n) \/ Reserve(v, n)
  BY Zenon DEF VectorNext
<1>2. ~undefined /\ calls < MaxCalls /\ calls' = calls + 1
  BY <1>1 DEF Add, RemoveValue, Clear, Sort, Renew, AddVector, CopyAssign, MoveAssign, Insert, RemoveIndex,
              Resize, Expand, ExpandTo, Reserve, Call
<1> SUFFICES \E b : Calls(b)
  BY <1>2
<1>3. /\ Sound(memory) /\ Suits(v) /\ v \in Objects
      /\ ~MovedFrom(v) => Callable(memory, v)
      /\ \A w \in Vectors : ~MovedFrom(w) => Callable(memory, w)
  BY <1>2, CallIs DEF Suits
<1>4. Call(v) => Callable(memory, v)
  BY <1>3 DEF Call
<1>5. CASE Add(v)
  <2>1. Callable(memory, v)
    BY <1>4, <1>5 DEF Add
  <2>2. PICK a : a = Added(memory, v)
    OBVIOUS
  <2>3. PICK n \in Nat : n = Size(memory, v) + 1
    BY <2>1, CallableIs
  <2>4. Result(memory, a, v, n)
    BY <2>1, <2>2, <2>3, AddedKeeps
  <2>5. CASE Remember(Added(memory, v))
    <3>1. Remember(a)
      BY <2>2, <2>5, Zenon
    <3> QED BY <2>4, <3>1 DEF Calls, Result
  <2>6. CASE Put(v, Added(memory, v), Size(memory, v))
    <3>1. Put(v, a, Size(memory, v))
      BY <2>2, <2>6, Zenon
    <3>2. Size(memory, v) \in Nat /\ Size(memory, v) < n
      BY <2>1, <2>3, CallableIs
    <3> HIDE <2>2, <2>3
    <3> QED BY <1>2, <2>4, <3>1, <3>2, PutKeeps
  <2> QED BY <1>5, <2>5, <2>6 DEF Add
<1>6. CASE RemoveValue(v)
  <2>1. Callable(memory, v)
    BY <1>4, <1>6 DEF RemoveValue
  <2>2. PICK x \in Values : Remember(Removed(memory, v, x))
    BY <1>6 DEF RemoveValue
  <2>3. PICK b : b = Removed(memory, v, x)
    OBVIOUS
  <2>4. Sound(b) /\ Near(memory, b)
    BY <2>1, <2>3, RemovedKeeps
  <2>5. Remember(b)
    BY <2>2, <2>3, Zenon
  <2> QED BY <2>4, <2>5 DEF Calls
<1>7. CASE Clear(v)
  <2>1. Callable(memory, v) /\ Remember(Sized(memory, v, 0))
    BY <1>4, <1>7 DEF Clear
  <2>2. PICK b : b = Sized(memory, v, 0)
    OBVIOUS
  <2>3. memory.vectors[v].capacity \in Nat
    BY <2>1, SizeFits DEF Callable
  <2>4. Sound(b) /\ Near(memory, b)
    BY <1>3, <2>2, <2>3, SoundSized
  <2>5. Remember(b)
    BY <2>1, <2>2, Zenon
  <2> QED BY <2>4, <2>5 DEF Calls
<1>8. CASE Sort(v)
  <2>1. Callable(memory, v)
    BY <1>4, <1>8 DEF Sort
  <2>2. PICK t \in Sortings(Elements(memory, v)) : Remember(Sorted(memory, v, t))
    BY <1>8 DEF Sort
  <2>3. PICK b : b = Sorted(memory, v, t)
    OBVIOUS
  <2>4. Sound(b) /\ Near(memory, b)
    BY <2>1, <2>3, SortedKeeps
  <2>5. Remember(b)
    BY <2>2, <2>3, Zenon
  <2> QED BY <2>4, <2>5 DEF Calls
<1>9. CASE Renew(v)
  <2>1. PICK b : b = SetBuffer(memory, v, Null, 0, 0, TRUE)
    OBVIOUS
  <2>2. Sound(b) /\ Near(memory, b)
    BY <1>3, <2>1, RenewKeeps
  <2>3. Remember(b)
    BY <1>9, <2>1, Zenon DEF Renew
  <2> HIDE <2>1
  <2> QED BY <2>2, <2>3 DEF Calls
<1>10. ASSUME NEW w \in Vectors, AddVector(v, w) \/ CopyAssign(v, w) \/ MoveAssign(v, w)
       PROVE  \E b : Calls(b)
  <2>1. CASE AddVector(v, w)
    <3>1. Callable(memory, v) /\ Callable(memory, w)
      BY <1>3, <1>4, <2>1 DEF AddVector
    <3>2. PICK b : b = AddedVector(memory, v, w)
      OBVIOUS
    <3>3. Sound(b) /\ Near(memory, b)
      BY <3>1, <3>2, AddedVectorKeeps
    <3>4. Remember(b)
      BY <2>1, <3>2, Zenon DEF AddVector
    <3> QED BY <3>3, <3>4 DEF Calls
  <2>2. CASE CopyAssign(v, w)
    <3>1. Callable(memory, v) /\ Callable(memory, w)
      BY <1>3, <1>4, <2>2 DEF CopyAssign
    <3>2. PICK b : b = CopyAssigned(memory, v, w)
      OBVIOUS
    <3>3. Sound(b) /\ Near(memory, b)
      BY <3>1, <3>2, CopyAssignedKeeps
    <3>4. Remember(b)
      BY <2>2, <3>2, Zenon DEF CopyAssign
    <3> QED BY <3>3, <3>4 DEF Calls
  <2>3. CASE MoveAssign(v, w)
    <3>1. PICK b : b = MoveAssigned(memory, v, w)
      OBVIOUS
    <3>2. Sound(b) /\ Near(memory, b)
      BY <1>3, <3>1, MoveAssignedKeeps
    <3>3. Remember(b)
      BY <2>3, <3>1, Zenon DEF MoveAssign
    <3> QED BY <3>2, <3>3 DEF Calls
  <2> QED BY <1>10, <2>1, <2>2, <2>3
<1>11. ASSUME NEW n \in Nat,
              Insert(v, n) \/ RemoveIndex(v, n) \/ Resize(v, n) \/ Expand(v, n) \/ ExpandTo(v, n) \/ Reserve(v, n)
       PROVE  \E b : Calls(b)
  <2>1. Callable(memory, v)
    BY <1>4, <1>11 DEF Insert, RemoveIndex, Resize, Expand, ExpandTo, Reserve
  <2>2. Size(memory, v) \in Nat
    BY <2>1, CallableIs
  <2>3. CASE Insert(v, n)
    <3>1. PICK a : a = Opened(memory, v, n)
      OBVIOUS
    <3>2. \E k \in Nat : n < k /\ Result(memory, a, v, k)
      BY <2>1, <3>1, OpenedKeeps
    <3>3. PICK k \in Nat : n < k /\ Result(memory, a, v, k)
      BY <3>2
    <3>4. Put(v, a, n)
      BY <2>3, <3>1, Zenon DEF Insert
    <3> HIDE <3>1
    <3> QED BY <1>2, <3>3, <3>4, PutKeeps
  <2>4. CASE RemoveIndex(v, n)
    <3>1. PICK b : b = RemovedIndex(memory, v, n)
      OBVIOUS
    <3>2. Sound(b) /\ Near(memory, b)
      BY <2>1, <3>1, RemovedIndexKeeps
    <3>3. Remember(b)
      BY <2>4, <3>1, Zenon DEF RemoveIndex
    <3> QED BY <3>2, <3>3 DEF Calls
  <2>5. CASE Resize(v, n)
    <3>1. PICK a : a = Resized(memory, v, n)
      OBVIOUS
    <3>2. a = Sized(Reserved(memory, v, n, FALSE), v, n)
      BY <3>1, Zenon DEF Resized
    <3>3. Result(memory, a, v, n)
      BY <2>1, <3>2, ReservedSized
    <3>4. CASE Remember(Resized(memory, v, n))
      BY <3>1, <3>3, <3>4 DEF Calls, Result
    <3>5. CASE \E x \in Values : Remember(Filled(Resized(memory, v, n), v, 0, x))
      <4>1. PICK x \in Values : Remember(Filled(Resized(memory, v, n), v, 0, x))
        BY <3>5
      <4>2. PICK b : b = Filled(a, v, 0, x)
        OBVIOUS
      <4>3. x \in Elem /\ 0 \in Nat
        BY DEF Elem
      <4>4. Sound(b) /\ Near(memory, b)
        BY <1>3, <3>3, <4>2, <4>3, FilledKeeps
      <4>5. Remember(b)
        BY <3>1, <4>1, <4>2, Zenon
      <4> QED BY <4>4, <4>5 DEF Calls
    <3> QED BY <2>5, <3>4, <3>5 DEF Resize
  <2>6. CASE Expand(v, n)
    <3>1. PICK k \in Nat : k = Size(memory, v) + n
      BY <2>2
    <3>2. PICK b : b = Expanded(memory, v, n)
      OBVIOUS
    <3>3. b = Sized(Grown(memory, v, k), v, k)
      BY <3>1, <3>2, Zenon DEF Expanded
    <3>4. Result(memory, b, v, k)
      BY <2>1, <3>3, GrownSized
    <3>5. Remember(b)
      BY <2>6, <3>2, Zenon DEF Expand
    <3> QED BY <3>4, <3>5 DEF Calls, Result
  <2>7. CASE ExpandTo(v, n)
    <3>1. PICK a : a = ExpandedTo(memory, v, n)
      OBVIOUS
    <3>2. PICK k \in Nat : k = IF Size(memory, v) <= n THEN n + 1 ELSE Size(memory, v)
      BY <2>2
    <3>3. Result(memory, a, v, k)
      BY <2>1, <3>1, <3>2, ExpandedToKeeps
    <3>4. CASE Remember(ExpandedTo(memory, v, n))
      BY <3>1, <3>3, <3>4 DEF Calls, Result
    <3>5. CASE \E x \in Values : Remember(Filled(ExpandedTo(memory, v, n), v, Size(memory, v), x))
      <4>1. PICK x \in Values : Remember(Filled(ExpandedTo(memory, v, n), v, Size(memory, v), x))
        BY <3>5
      <4>2. PICK b : b = Filled(a, v, Size(memory, v), x)
        OBVIOUS
      <4>3. x \in Elem
        BY DEF Elem
      <4>4. Sound(b) /\ Near(memory, b)
        BY <1>3, <2>2, <3>3, <4>2, <4>3, FilledKeeps
      <4>5. Remember(b)
        BY <3>1, <4>1, <4>2, Zenon
      <4> QED BY <4>4, <4>5 DEF Calls
    <3> QED BY <2>7, <3>4, <3>5 DEF ExpandTo
  <2>8. CASE Reserve(v, n)
    <3>1. PICK b : b = Reserved(memory, v, n, TRUE)
      OBVIOUS
    <3>2. Sound(b) /\ Roomy(memory, b, v, n)
      BY <2>1, <3>1, SoundReserved DEF Callable
    <3>3. Remember(b)
      BY <2>8, <3>1, Zenon DEF Reserve
    <3> QED BY <3>2, <3>3 DEF Calls, Roomy
  <2> QED BY <1>11, <2>3, <2>4, <2>5, <2>6, <2>7, <2>8
<1>12. 0 .. MaxSize \subseteq Nat
  BY VectorOK
<1> QED BY <1>1, <1>2, <1>5, <1>6, <1>7, <1>8, <1>9, <1>10, <1>11, <1>12

LEMMA VectorKeeps ==
    ASSUME Typed, client = "vectors", VectorNext, UNCHANGED mapVars
    PROVE  Typed'
<1>1. ~undefined /\ calls < MaxCalls /\ calls' = calls + 1 /\ \E b : Calls(b)
  BY VectorCalls
<1>2. PICK b : Calls(b)
  BY <1>1
<1> QED BY <1>1, <1>2, CallKeeps DEF Calls

-----------------------------------------------------------------------------
(* Powers of two, and the bits of a key *)

IsPower(f, n) == f = [i \in 0 .. n |-> IF i = 0 THEN 1 ELSE 2 * f[i - 1]]

\* The recursion of Power has a solution as far as to any n.
LEMMA PowerExists ==
    ASSUME NEW n \in Nat
    PROVE  \E f : IsPower(f, n)
<1>1. PICK bad : bad = {k \in 0 .. n : ~ \E f : IsPower(f, k)}
  OBVIOUS
<1>2. CASE bad = {}
  BY <1>1, <1>2
<1>3. CASE bad # {}
  <2>1. PICK k \in bad : \A m \in bad : k <= m
    <3>1. bad \subseteq 0 .. n
      BY <1>1
    <3> HIDE <1>1
    <3> QED BY <1>3, <3>1, LeastNumber
  <2>2. k \in 0 .. n /\ ~ \E f : IsPower(f, k)
    BY <1>1
  <2>3. CASE k = 0
    <3>1. PICK f : f = [i \in 0 .. 0 |-> 1]
      OBVIOUS
    <3>2. f = [i \in 0 .. 0 |-> IF i = 0 THEN 1 ELSE 2 * f[i - 1]]
      BY <3>1
    <3> QED BY <2>2, <2>3, <3>2 DEF IsPower
  <2>4. CASE k # 0
    <3>1. k - 1 \in 0 .. n /\ k - 1 \notin bad
      BY <2>1, <2>2, <2>4
    <3>2. PICK f : IsPower(f, k - 1)
      BY <1>1, <3>1
    <3>3. PICK g : g = [i \in 0 .. k |-> IF i = k THEN 2 * f[k - 1] ELSE f[i]]
      OBVIOUS
    <3>4. \A i \in 0 .. k - 1 : f[i] = IF i = 0 THEN 1 ELSE 2 * f[i - 1]
      BY <3>2 DEF IsPower
    <3>5. \A i \in 0 .. k : g[i] = IF i = 0 THEN 1 ELSE 2 * g[i - 1]
      BY <2>2, <2>4, <3>3, <3>4
    <3>6. g = [i \in 0 .. k |-> g[i]]
      BY <3>3
    <3>7. IsPower(g, k)
      BY <3>5, <3>6 DEF IsPower
    <3> QED BY <2>2, <3>7
  <2> QED BY <2>3, <2>4
<1> QED BY <1>2, <1>3

LEMMA PowerIs ==
    /\ \A n \in 0 .. KeyBits : Power[n] = IF n = 0 THEN 1 ELSE 2 * Power[n - 1]
    /\ DOMAIN Power = 0 .. KeyBits
<1>1. KeyBits \in Nat
  BY HashMapOK
<1>2. \E f : f = [i \in 0 .. KeyBits |-> IF i = 0 THEN 1 ELSE 2 * f[i - 1]]
  BY <1>1, PowerExists DEF IsPower
<1>3. Power = [i \in 0 .. KeyBits |-> IF i = 0 THEN 1 ELSE 2 * Power[i - 1]]
  BY <1>2, Zenon DEF Power
<1> QED BY <1>3

\* Powers of two are positive and ascend.
LEMMA PowerAscends ==
    /\ Power[0] = 1
    /\ \A n \in 0 .. KeyBits : Power[n] \in Nat /\ Power[n] > 0
    /\ \A n \in 0 .. KeyBits : n # 0 => Power[n] = 2 * Power[n - 1]
    /\ \A n \in 0 .. KeyBits : Power[n] <= Power[KeyBits]
<1>1. KeyBits \in Nat
  BY HashMapOK
<1>2. \A n \in 0 .. KeyBits : Power[n] \in Nat /\ Power[n] > 0
  <2>1. PICK bad : bad = {k \in 0 .. KeyBits : ~ (Power[k] \in Nat /\ Power[k] > 0)}
    OBVIOUS
  <2> SUFFICES ASSUME bad # {} PROVE FALSE
    BY <2>1
  <2>2. PICK k \in bad : \A m \in bad : k <= m
    <3>1. bad \subseteq 0 .. KeyBits
      BY <2>1
    <3> HIDE <2>1
    <3> QED BY <1>1, <3>1, LeastNumber
  <2>3. k \in 0 .. KeyBits /\ ~ (Power[k] \in Nat /\ Power[k] > 0)
    BY <2>1
  <2>4. k # 0
    BY <2>3, PowerIs
  <2>5. Power[k - 1] \in Nat /\ Power[k - 1] > 0
    BY <1>1, <2>1, <2>2, <2>3, <2>4
  <2> QED BY <1>1, <2>3, <2>4, <2>5, PowerIs
<1>3. \A n \in 0 .. KeyBits : Power[n] <= Power[KeyBits]
  <2>1. PICK bad : bad = {k \in 0 .. KeyBits : ~ (Power[KeyBits - k] <= Power[KeyBits])}
    OBVIOUS
  <2>2. bad = {}
    <3> SUFFICES ASSUME bad # {} PROVE FALSE
      OBVIOUS
    <3>1. PICK k \in bad : \A m \in bad : k <= m
      <4>1. bad \subseteq 0 .. KeyBits
        BY <2>1
      <4> HIDE <2>1
      <4> QED BY <1>1, <4>1, LeastNumber
    <3>2. k \in 0 .. KeyBits /\ ~ (Power[KeyBits - k] <= Power[KeyBits])
      BY <2>1
    <3>3. k # 0
      BY <1>1, <1>2, <3>2
    <3>4. Power[KeyBits - (k - 1)] <= Power[KeyBits]
      BY <1>1, <2>1, <3>1, <3>2, <3>3
    <3>5. PICK n : n = KeyBits - (k - 1)
      OBVIOUS
    <3>6. n \in 0 .. KeyBits /\ n # 0 /\ n - 1 = KeyBits - k /\ n - 1 \in 0 .. KeyBits
      BY <1>1, <3>2, <3>3, <3>5
    <3>7. Power[n] = 2 * Power[n - 1] /\ Power[n - 1] \in Nat /\ Power[n] <= Power[KeyBits]
      BY <1>2, <3>4, <3>5, <3>6, PowerIs
    <3> QED BY <1>1, <1>2, <3>2, <3>6, <3>7
  <2> SUFFICES ASSUME NEW n \in 0 .. KeyBits PROVE Power[n] <= Power[KeyBits]
    OBVIOUS
  <2>3. KeyBits - n \in 0 .. KeyBits /\ KeyBits - (KeyBits - n) = n
    BY <1>1
  <2> QED BY <2>1, <2>2, <2>3
<1> QED BY <1>1, <1>2, <1>3, PowerIs

\* The lowest bits of both
Bit(a, b) == (a % 2) * (b % 2)

IsMasked(f, n) ==
    f = [a \in 0 .. n |->
            [b \in 0 .. AllOnes |-> IF a = 0 THEN 0 ELSE Bit(a, b) + 2 * f[a \div 2][b \div 2]]]

LEMMA HalfIs ==
    /\ \A a \in Nat : a \div 2 \in Nat /\ a % 2 \in {0, 1} /\ a = 2 * (a \div 2) + (a % 2)
    /\ \A a \in Nat : a \div 2 <= a /\ (a # 0 => a \div 2 < a)
OBVIOUS

LEMMA AllOnesIs == AllOnes \in Nat /\ AllOnes = Power[KeyBits] - 1 /\ KeyBits \in Nat /\ KeyBits \in 0 .. KeyBits
<1>1. KeyBits \in Nat /\ KeyBits \in 0 .. KeyBits
  BY HashMapOK
<1> QED BY <1>1, PowerAscends DEF AllOnes

\* The recursion of Masked has a solution as far as to any n.
LEMMA MaskedExists ==
    ASSUME NEW n \in Nat
    PROVE  \E f : IsMasked(f, n)
<1>1. PICK bad : bad = {k \in 0 .. n : ~ \E f : IsMasked(f, k)}
  OBVIOUS
<1>2. CASE bad = {}
  BY <1>1, <1>2
<1>3. CASE bad # {}
  <2>1. PICK k \in bad : \A m \in bad : k <= m
    <3>1. bad \subseteq 0 .. n
      BY <1>1
    <3> HIDE <1>1
    <3> QED BY <1>3, <3>1, LeastNumber
  <2>2. k \in 0 .. n /\ ~ \E f : IsMasked(f, k)
    BY <1>1
  <2>3. CASE k = 0
    <3>1. PICK f : f = [a \in 0 .. 0 |-> [b \in 0 .. AllOnes |-> 0]]
      OBVIOUS
    <3>2. \A a \in 0 .. 0 : a = 0
      OBVIOUS
    <3>3. f = [a \in 0 .. 0 |->
                  [b \in 0 .. AllOnes |-> IF a = 0 THEN 0 ELSE Bit(a, b) + 2 * f[a \div 2][b \div 2]]]
      BY <3>1, <3>2
    <3> QED BY <2>2, <2>3, <3>3 DEF IsMasked
  <2>4. CASE k # 0
    <3>1. k - 1 \in 0 .. n /\ k - 1 \notin bad /\ k \in Nat /\ k \div 2 \in 0 .. k - 1
      BY <2>1, <2>2, <2>4, HalfIs
    <3>2. PICK f : IsMasked(f, k - 1)
      BY <1>1, <3>1
    <3>3. PICK row : row = [b \in 0 .. AllOnes |-> Bit(k, b) + 2 * f[k \div 2][b \div 2]]
      OBVIOUS
    <3>4. PICK g : g = [a \in 0 .. k |-> IF a = k THEN row ELSE f[a]]
      OBVIOUS
    <3>5. \A a \in 0 .. k - 1 : a \in Nat /\ a \div 2 \in 0 .. k - 1
      BY <3>1, HalfIs
    <3>6. \A a \in 0 .. k - 1 : g[a] = f[a]
      BY <3>1, <3>4
    <3>7. \A a \in 0 .. k : a = k \/ a \in 0 .. k - 1
      BY <3>1
    <3>8. \A a \in 0 .. k : g[a] =
              [b \in 0 .. AllOnes |-> IF a = 0 THEN 0 ELSE Bit(a, b) + 2 * g[a \div 2][b \div 2]]
      <4> SUFFICES ASSUME NEW a \in 0 .. k
                   PROVE  g[a] = [b \in 0 .. AllOnes |-> IF a = 0 THEN 0 ELSE Bit(a, b) + 2 * g[a \div 2][b \div 2]]
        OBVIOUS
      <4>1. CASE a = k
        <5>1. g[a] = row /\ g[k \div 2] = f[k \div 2]
          BY <3>1, <3>4, <3>6, <4>1
        <5>2. row = [b \in 0 .. AllOnes |-> IF k = 0 THEN 0 ELSE Bit(k, b) + 2 * g[k \div 2][b \div 2]]
          BY <2>4, <3>3, <5>1
        <5> QED BY <4>1, <5>1, <5>2
      <4>2. CASE a \in 0 .. k - 1
        <5>1. g[a] = f[a] /\ g[a \div 2] = f[a \div 2]
          BY <3>5, <3>6, <4>2
        <5>2. f[a] = [b \in 0 .. AllOnes |-> IF a = 0 THEN 0 ELSE Bit(a, b) + 2 * f[a \div 2][b \div 2]]
          BY <3>2, <4>2 DEF IsMasked
        <5> QED BY <5>1, <5>2
      <4> QED BY <3>7, <4>1, <4>2
    <3>9. g = [a \in 0 .. k |-> g[a]]
      BY <3>4
    <3>10. IsMasked(g, k)
      BY <3>8, <3>9 DEF IsMasked
    <3> QED BY <2>2, <3>10
  <2> QED BY <2>3, <2>4
<1> QED BY <1>2, <1>3

LEMMA MaskedIs ==
    ASSUME NEW a \in 0 .. AllOnes, NEW b \in 0 .. AllOnes
    PROVE  Masked[a][b] = IF a = 0 THEN 0 ELSE Bit(a, b) + 2 * Masked[a \div 2][b \div 2]
<1>1. \E f : f = [c \in 0 .. AllOnes |->
                     [d \in 0 .. AllOnes |-> IF c = 0 THEN 0 ELSE (c % 2) * (d % 2) + 2 * f[c \div 2][d \div 2]]]
  BY AllOnesIs, MaskedExists DEF IsMasked, Bit
<1>2. Masked = [c \in 0 .. AllOnes |->
                   [d \in 0 .. AllOnes |-> IF c = 0 THEN 0 ELSE (c % 2) * (d % 2) + 2 * Masked[c \div 2][d \div 2]]]
  BY <1>1, Zenon DEF Masked
<1>3. Masked[a] = [d \in 0 .. AllOnes |-> IF a = 0 THEN 0 ELSE (a % 2) * (d % 2) + 2 * Masked[a \div 2][d \div 2]]
  BY <1>2, Zenon
<1>4. Masked[a][b] = IF a = 0 THEN 0 ELSE (a % 2) * (b % 2) + 2 * Masked[a \div 2][b \div 2]
  BY <1>3, Zenon
<1> QED BY <1>4, Zenon DEF Bit

LEMMA BitIs ==
    /\ \A a \in Nat : Bit(a, 0) = 0
    /\ \A a, n \in Nat : n > 0 => Bit(a, 2 * n - 1) = a % 2
<1>1. \A a \in Nat : a % 2 \in {0, 1}
  OBVIOUS
<1>2. 0 % 2 = 0 /\ \A n \in Nat : n > 0 => (2 * n - 1) % 2 = 1
  OBVIOUS
<1> QED BY <1>1, <1>2 DEF Bit

\* Nothing is left of a key without its bits.
LEMMA MaskedNone ==
    ASSUME NEW a \in 0 .. AllOnes
    PROVE  Masked[a][0] = 0
<1>1. PICK bad : bad = {c \in 0 .. AllOnes : Masked[c][0] # 0}
  OBVIOUS
<1> SUFFICES ASSUME bad # {} PROVE FALSE
  BY <1>1
<1>2. PICK c \in bad : \A m \in bad : c <= m
  <2>1. bad \subseteq 0 .. AllOnes
    BY <1>1
  <2> HIDE <1>1
  <2> QED BY <2>1, LeastNumber, AllOnesIs
<1>3. c \in 0 .. AllOnes /\ c \in Nat /\ Masked[c][0] # 0 /\ 0 \in 0 .. AllOnes
  BY <1>1, AllOnesIs
<1>4. Masked[c][0] = IF c = 0 THEN 0 ELSE Bit(c, 0) + 2 * Masked[c \div 2][0 \div 2]
  BY <1>3, MaskedIs
<1>5. c # 0
  BY <1>3, <1>4
<1>6. c \div 2 \in 0 .. AllOnes /\ c \div 2 < c
  BY <1>3, <1>5, HalfIs, AllOnesIs
<1>7. Masked[c \div 2][0] = 0
  BY <1>1, <1>2, <1>3, <1>6
<1>8. 0 \div 2 = 0
  OBVIOUS
<1>9. Masked[c][0] = Bit(c, 0) + 2 * Masked[c \div 2][0]
  BY <1>4, <1>5, <1>8
<1> QED BY <1>3, <1>7, <1>9, BitIs

\* The n lowest bits of a key
Low(k, n) == Masked[k][Power[n] - 1]

LEMMA LowStep ==
    ASSUME NEW k \in 0 .. AllOnes, NEW n \in 0 .. KeyBits, n # 0
    PROVE  k \div 2 \in 0 .. AllOnes /\ n - 1 \in 0 .. KeyBits /\ Low(k, n) = (k % 2) + 2 * Low(k \div 2, n - 1)
<1>1. n - 1 \in 0 .. KeyBits /\ k \in Nat /\ n \in Nat
  BY AllOnesIs
<1>2. PICK p \in Nat : p = Power[n - 1] /\ p > 0 /\ Power[n] = 2 * p
  BY <1>1, PowerAscends
<1>3. k \div 2 \in 0 .. AllOnes
  BY <1>1, HalfIs, AllOnesIs
<1>4. Power[n] <= Power[KeyBits] /\ Power[KeyBits] \in Nat
  BY PowerAscends, AllOnesIs
<1>5. 2 * p - 1 \in 0 .. AllOnes /\ p - 1 \in 0 .. AllOnes
  BY <1>2, <1>4, AllOnesIs
<1>6. (2 * p - 1) \div 2 = p - 1
  BY <1>2
<1>7. Masked[k][2 * p - 1] = IF k = 0 THEN 0 ELSE Bit(k, 2 * p - 1) + 2 * Masked[k \div 2][p - 1]
  BY <1>5, <1>6, MaskedIs
<1>8. CASE k # 0
  BY <1>1, <1>2, <1>3, <1>7, <1>8, BitIs DEF Low
<1>9. CASE k = 0
  <2>1. Masked[0][2 * p - 1] = 0
    BY <1>7, <1>9
  <2>2. Masked[0][p - 1] = 0
    BY <1>5, <1>9, MaskedIs
  <2>3. 0 \div 2 = 0 /\ 0 % 2 = 0
    OBVIOUS
  <2> QED BY <1>1, <1>2, <1>3, <1>9, <2>1, <2>2, <2>3 DEF Low
<1> QED BY <1>8, <1>9

LEMMA LowNone ==
    ASSUME NEW k \in 0 .. AllOnes
    PROVE  Low(k, 0) = 0
BY MaskedNone, PowerAscends DEF Low

\* Less than the power of two, and the key itself when the key is less.
LEMMA LowBound ==
    ASSUME NEW n \in 0 .. KeyBits
    PROVE  \A k \in 0 .. AllOnes : Low(k, n) \in 0 .. Power[n] - 1 /\ (k < Power[n] => Low(k, n) = k)
<1> DEFINE Holds(i) == \A k \in 0 .. AllOnes : Low(k, i) \in 0 .. Power[i] - 1 /\ (k < Power[i] => Low(k, i) = k)
<1>1. PICK bad : bad = {i \in 0 .. KeyBits : ~ Holds(i)}
  OBVIOUS
<1>2. bad = {}
  <2> SUFFICES ASSUME bad # {} PROVE FALSE
    OBVIOUS
  <2>1. PICK i \in bad : \A m \in bad : i <= m
    <3>1. bad \subseteq 0 .. KeyBits
      BY <1>1
    <3> HIDE <1>1
    <3> QED BY <3>1, LeastNumber, AllOnesIs
  <2>2. i \in 0 .. KeyBits /\ ~ Holds(i)
    BY <1>1
  <2>3. i # 0
    <3>1. Holds(0)
      BY LowNone, PowerAscends, AllOnesIs
    <3> QED BY <2>2, <3>1
  <2>4. i - 1 \in 0 .. KeyBits /\ Holds(i - 1)
    BY <1>1, <2>1, <2>2, <2>3, AllOnesIs
  <2>5. PICK p \in Nat : p = Power[i - 1] /\ p > 0 /\ Power[i] = 2 * p
    BY <2>2, <2>3, <2>4, PowerAscends
  <2>6. ASSUME NEW k \in 0 .. AllOnes
        PROVE  Low(k, i) \in 0 .. Power[i] - 1 /\ (k < Power[i] => Low(k, i) = k)
    <3>1. PICK h : h = k \div 2
      OBVIOUS
    <3>2. h \in 0 .. AllOnes /\ Low(k, i) = (k % 2) + 2 * Low(h, i - 1)
      BY <2>2, <2>3, <3>1, LowStep
    <3>3. Low(h, i - 1) \in 0 .. p - 1 /\ (h < p => Low(h, i - 1) = h)
      BY <2>4, <2>5, <3>2
    <3>4. k \in Nat /\ k % 2 \in {0, 1} /\ k = 2 * h + (k % 2) /\ h \in Nat
      BY <3>1, HalfIs, AllOnesIs
    <3> HIDE <3>1
    <3> QED BY <2>5, <3>2, <3>3, <3>4
  <2> QED BY <2>2, <2>6
<1>3. Holds(n)
  BY <1>1, <1>2
<1> QED BY <1>3

\* One more bit leaves the lowest bits as they are.
LEMMA LowMore ==
    ASSUME NEW n \in 0 .. KeyBits, n # KeyBits
    PROVE  \A k \in 0 .. AllOnes : Low(k, n + 1) \in {Low(k, n), Power[n] + Low(k, n)}
<1> DEFINE Holds(i) == \A k \in 0 .. AllOnes : Low(k, i + 1) \in {Low(k, i), Power[i] + Low(k, i)}
<1>1. PICK bad : bad = {i \in 0 .. KeyBits - 1 : ~ Holds(i)}
  OBVIOUS
<1>2. bad = {}
  <2> SUFFICES ASSUME bad # {} PROVE FALSE
    OBVIOUS
  <2>1. PICK i \in bad : \A m \in bad : i <= m
    <3>1. bad \subseteq 0 .. KeyBits
      BY <1>1, AllOnesIs
    <3> HIDE <1>1
    <3> QED BY <3>1, LeastNumber, AllOnesIs
  <2>2. i \in 0 .. KeyBits - 1 /\ i \in 0 .. KeyBits /\ i + 1 \in 0 .. KeyBits /\ i + 1 # 0 /\ ~ Holds(i)
    BY <1>1, AllOnesIs
  <2>3. i # 0
    <3>1. ASSUME NEW k \in 0 .. AllOnes, i = 0 PROVE Low(k, 1) \in {Low(k, 0), Power[0] + Low(k, 0)}
      <4>1. Low(k, 1) = (k % 2) + 2 * Low(k \div 2, 1 - 1) /\ k \div 2 \in 0 .. AllOnes
        BY <2>2, <3>1, LowStep
      <4>2. Low(k \div 2, 0) = 0 /\ Low(k, 0) = 0
        BY <4>1, LowNone
      <4>3. k % 2 \in {0, 1}
        BY HalfIs, AllOnesIs
      <4> QED BY <4>1, <4>2, <4>3, PowerAscends
    <3> QED BY <2>2, <3>1
  <2>4. i - 1 \in 0 .. KeyBits - 1 /\ Holds(i - 1)
    BY <1>1, <2>1, <2>2, <2>3, AllOnesIs
  <2>5. ASSUME NEW k \in 0 .. AllOnes
        PROVE  Low(k, i + 1) \in {Low(k, i), Power[i] + Low(k, i)}
    <3>1. PICK h : h = k \div 2
      OBVIOUS
    <3>2. h \in 0 .. AllOnes /\ Low(k, i) = (k % 2) + 2 * Low(h, i - 1)
      BY <2>2, <2>3, <3>1, LowStep
    <3>3. Low(k, i + 1) = (k % 2) + 2 * Low(h, i + 1 - 1)
      BY <2>2, <3>1, LowStep
    <3>4. i + 1 - 1 = i /\ i - 1 + 1 = i /\ i - 1 \in 0 .. KeyBits
      BY <2>2, <2>4, AllOnesIs
    <3>5. Low(h, i) \in {Low(h, i - 1), Power[i - 1] + Low(h, i - 1)}
      BY <2>4, <3>2, <3>4
    <3>6. Low(h, i - 1) \in 0 .. Power[i - 1] - 1 /\ Low(k, i) \in 0 .. Power[i] - 1
      BY <2>2, <3>2, <3>4, LowBound
    <3>7. Power[i] = 2 * Power[i - 1] /\ Power[i - 1] \in Nat /\ Power[i] \in Nat
      BY <2>2, <2>3, <3>4, PowerAscends
    <3>8. k % 2 \in {0, 1}
      BY HalfIs, AllOnesIs
    <3>9. Low(h, i - 1) \in Nat
      BY <3>6, <3>7
    <3> HIDE <3>1
    <3> QED BY <3>2, <3>3, <3>4, <3>5, <3>7, <3>8, <3>9
  <2> QED BY <2>2, <2>5
<1>3. n \in 0 .. KeyBits - 1
  BY AllOnesIs
<1>4. Holds(n)
  BY <1>1, <1>2, <1>3
<1> QED BY <1>4

\* Of a key of ones only
LEMMA LowOnes ==
    ASSUME NEW n \in 0 .. KeyBits
    PROVE  \A j \in n .. KeyBits : Low(Power[j] - 1, n) = Power[n] - 1
<1> DEFINE Holds(i) == \A j \in i .. KeyBits : Low(Power[j] - 1, i) = Power[i] - 1
<1>1. PICK bad : bad = {i \in 0 .. KeyBits : ~ Holds(i)}
  OBVIOUS
<1>2. bad = {}
  <2> SUFFICES ASSUME bad # {} PROVE FALSE
    OBVIOUS
  <2>1. PICK i \in bad : \A m \in bad : i <= m
    <3>1. bad \subseteq 0 .. KeyBits
      BY <1>1
    <3> HIDE <1>1
    <3> QED BY <3>1, LeastNumber, AllOnesIs
  <2>2. i \in 0 .. KeyBits /\ ~ Holds(i)
    BY <1>1
  <2>3. \A j \in 0 .. KeyBits : Power[j] - 1 \in 0 .. AllOnes
    BY PowerAscends, AllOnesIs
  <2>4. i # 0
    <3>1. Holds(0)
      BY <2>3, LowNone, PowerAscends
    <3> QED BY <2>2, <3>1
  <2>5. i - 1 \in 0 .. KeyBits /\ Holds(i - 1)
    BY <1>1, <2>1, <2>2, <2>4, AllOnesIs
  <2>6. ASSUME NEW j \in i .. KeyBits
        PROVE  Low(Power[j] - 1, i) = Power[i] - 1
    <3>1. j \in 0 .. KeyBits /\ j # 0 /\ j - 1 \in 0 .. KeyBits /\ j - 1 \in i - 1 .. KeyBits
      BY <2>2, <2>4, AllOnesIs
    <3>2. PICK p \in Nat : p = Power[j - 1] /\ p > 0 /\ Power[j] = 2 * p
      BY <3>1, PowerAscends
    <3>3. PICK k : k = 2 * p - 1
      OBVIOUS
    <3>4. k \in 0 .. AllOnes /\ k \div 2 = p - 1 /\ k % 2 = 1
      BY <2>3, <3>1, <3>2, <3>3
    <3>5. Low(k, i) = (k % 2) + 2 * Low(k \div 2, i - 1)
      BY <2>2, <2>4, <3>4, LowStep
    <3>6. Low(p - 1, i - 1) = Power[i - 1] - 1
      BY <2>5, <3>1, <3>2
    <3>7. Power[i] = 2 * Power[i - 1] /\ Power[i - 1] \in Nat
      BY <2>2, <2>4, <2>5, PowerAscends
    <3>8. Low(k, i) = 1 + 2 * (Power[i - 1] - 1)
      BY <3>4, <3>5, <3>6
    <3>9. Low(k, i) = Power[i] - 1
      BY <3>7, <3>8
    <3> QED BY <3>2, <3>3, <3>9
  <2> QED BY <2>2, <2>6
<1>3. Holds(n)
  BY <1>1, <1>2
<1> QED BY <1>3

LEMMA HomeIs ==
    ASSUME NEW n \in 0 .. KeyBits, NEW k \in 0 .. AllOnes
    PROVE  Home(k, Power[n]) = Low(k, n)
<1>1. PICK p \in Nat : p = Power[n] /\ p > 0
  BY PowerAscends
<1>2. PICK q \in Nat : q = Power[KeyBits] /\ p <= q
  BY <1>1, PowerAscends, AllOnesIs
<1>3. (p - 1) % q = p - 1
  BY <1>1, <1>2
<1> QED BY <1>1, <1>2, <1>3 DEF Home, Low

-----------------------------------------------------------------------------
(* Probing *)

LEMMA ProbeGrows ==
    ASSUME NEW first \in Nat
    PROVE  /\ Probe(first, 0) = first
           /\ \A t \in Nat : Probe(first, t) \in Nat
           /\ \A s, t \in Nat : s < t => Probe(first, s) < Probe(first, t)
<1>1. \A t \in Nat : t * (t + 1) \in Nat
  OBVIOUS
<1>2. \A x, y \in Nat : x + 2 <= y => x \div 2 < y \div 2
  OBVIOUS
<1>3. \A s, t \in Nat : s < t => s * (s + 1) + 2 <= t * (t + 1)
  <2> SUFFICES ASSUME NEW s \in Nat, NEW t \in Nat, s < t
               PROVE  s * (s + 1) + 2 <= t * (t + 1)
    OBVIOUS
  <2>1. PICK d \in Nat : t = s + 1 + d
    <3>1. t - s - 1 \in Nat /\ t = s + 1 + (t - s - 1)
      OBVIOUS
    <3> QED BY <3>1
  <2>2. t * (t + 1) = s * (s + 1) + 2 * (s + 1) + d * (2 * s + 3 + d)
    BY <2>1
  <2>3. d * (2 * s + 3 + d) \in Nat
    BY <2>1
  <2>4. s * (s + 1) \in Nat
    BY <1>1
  <2> QED BY <2>2, <2>3, <2>4
<1>4. Probe(first, 0) = first
  BY DEF Probe
<1>5. \A t \in Nat : Probe(first, t) \in Nat
  <2> SUFFICES ASSUME NEW t \in Nat PROVE Probe(first, t) \in Nat
    OBVIOUS
  <2>1. PICK x \in Nat : x = t * (t + 1)
    BY <1>1
  <2>2. first + x \div 2 \in Nat
    OBVIOUS
  <2> QED BY <2>1, <2>2 DEF Probe
<1>6. \A s, t \in Nat : s < t => Probe(first, s) < Probe(first, t)
  <2> SUFFICES ASSUME NEW s \in Nat, NEW t \in Nat, s < t
               PROVE  Probe(first, s) < Probe(first, t)
    OBVIOUS
  <2>1. PICK x \in Nat : x = s * (s + 1)
    BY <1>1
  <2>2. PICK y \in Nat : y = t * (t + 1)
    BY <1>1
  <2>3. x \div 2 < y \div 2 /\ x \div 2 \in Nat /\ y \div 2 \in Nat
    BY <1>2, <1>3, <2>1, <2>2
  <2> QED BY <2>1, <2>2, <2>3 DEF Probe
<1> QED BY <1>4, <1>5, <1>6

\* Whether a node ends the search for a key
Ends(node, key) == IsAvailable(node) \/ node.key = key

LEMMA HitsAre ==
    ASSUME NEW c \in Nat, NEW s, DOMAIN s = 0 .. c - 1, NEW first, NEW key
    PROVE  /\ Hits(s, first, key) \subseteq 0 .. c
           /\ \A t : t \in Hits(s, first, key) <=>
                  t \in 0 .. c /\ Probe(first, t) \in 0 .. c - 1 /\ Ends(s[Probe(first, t)], key)
<1>1. Cardinality(DOMAIN s) = c
  <2>1. Cardinality(0 .. c - 1) = c
    BY FS_Interval
  <2> QED BY <2>1
<1>2. Hits(s, first, key) =
          {t \in 0 .. c : Probe(first, t) \in 0 .. c - 1 /\ Ends(s[Probe(first, t)], key)}
  BY <1>1 DEF Hits, Ends
<1> QED BY <1>2

\* The search ends at the first hit.
LEMMA SearchedAt ==
    ASSUME NEW c \in Nat, NEW s, DOMAIN s = 0 .. c - 1, NEW first, NEW key,
           NEW t \in Hits(s, first, key), \A u \in Hits(s, first, key) : t <= u
    PROVE  Searched(s, first, key) = {Probe(first, t)}
<1>1. PICK H : H = Hits(s, first, key)
  OBVIOUS
<1>2. H \subseteq 0 .. c /\ H # {}
  BY <1>1, HitsAre
<1>3. Min(H) \in H /\ \A y \in H : Min(H) <= y
  BY <1>2, MinIn
<1>4. Min(H) = t
  BY <1>1, <1>2, <1>3
<1> QED BY <1>1, <1>2, <1>4, Zenon DEF Searched, FirstHit

LEMMA SearchedIs ==
    ASSUME NEW c \in Nat, NEW s, DOMAIN s = 0 .. c - 1, NEW first, NEW key
    PROVE  /\ Hits(s, first, key) = {} => Searched(s, first, key) = {}
           /\ Hits(s, first, key) # {} =>
                  \E t \in Hits(s, first, key) : /\ \A u \in Hits(s, first, key) : t <= u
                                                 /\ Searched(s, first, key) = {Probe(first, t)}
<1>1. PICK H : H = Hits(s, first, key)
  OBVIOUS
<1>2. Searched(s, first, key) = IF H = {} THEN {} ELSE {Probe(first, Min(H))}
  BY <1>1, Zenon DEF Searched, FirstHit
<1>3. H \subseteq 0 .. c
  BY <1>1, HitsAre
<1>4. H # {} => Min(H) \in H /\ \A y \in H : Min(H) <= y
  BY <1>3, MinIn
<1> QED BY <1>1, <1>2, <1>4

\* The step at which a search ended in a slot
LEMMA SearchedStep ==
    ASSUME NEW c \in Nat, NEW s, DOMAIN s = 0 .. c - 1, NEW first, NEW key, NEW i, Searched(s, first, key) = {i}
    PROVE  \E t \in Hits(s, first, key) : Probe(first, t) = i /\ \A u \in Hits(s, first, key) : t <= u
<1>1. Hits(s, first, key) # {}
  BY SearchedIs
<1>2. PICK t \in Hits(s, first, key) : /\ \A u \in Hits(s, first, key) : t <= u
                                       /\ Searched(s, first, key) = {Probe(first, t)}
  BY <1>1, SearchedIs
<1>3. Probe(first, t) = i
  BY <1>2
<1> QED BY <1>2, <1>3

\* A search that ends, ends within the table, at an available node or at the one of the key.
LEMMA SearchedIn ==
    ASSUME NEW c \in Nat, NEW s, DOMAIN s = 0 .. c - 1, NEW first, NEW key
    PROVE  \A i \in Searched(s, first, key) :
               Searched(s, first, key) = {i} /\ i \in 0 .. c - 1 /\ Ends(s[i], key)
<1> SUFFICES ASSUME NEW i \in Searched(s, first, key)
             PROVE  Searched(s, first, key) = {i} /\ i \in 0 .. c - 1 /\ Ends(s[i], key)
  OBVIOUS
<1>1. Hits(s, first, key) # {}
  BY SearchedIs
<1>2. PICK t \in Hits(s, first, key) : Searched(s, first, key) = {Probe(first, t)}
  BY <1>1, SearchedIs
<1>3. i = Probe(first, t)
  BY <1>2
<1>4. Probe(first, t) \in 0 .. c - 1 /\ Ends(s[Probe(first, t)], key)
  BY <1>2, HitsAre
<1> QED BY <1>2, <1>3, <1>4

-----------------------------------------------------------------------------
(* Tables in which every entry is found *)

UsedOf(s) == {i \in DOMAIN s : s[i].state = "USED"}

IsTable(s, c) == c \in Nat /\ s \in [0 .. c - 1 -> Nodes] /\ \E n \in 0 .. KeyBits : c = Power[n]

\* Each key is found in its own slot; in a table with a slot for every key that is its home.
Placed(s, c) ==
    \A i \in UsedOf(s) : /\ Searched(s, Home(s[i].key, c), s[i].key) = {i}
                         /\ c = Power[KeyBits] => s[i].key = i

LEMMA NodeIs ==
    /\ \A node \in Nodes : /\ node.state = "USED" => node.key \in Keys /\ node.key \in 0 .. AllOnes
                           /\ node.state # "USED" <=> IsAvailable(node)
                           /\ node.state \notin {"UNUSED", "USED"} => node = RemovedNode
                           /\ node.state \in {"UNUSED", "USED", "REMOVED"}
    /\ UnusedNode \in Nodes /\ UnusedNode.state = "UNUSED"
    /\ RemovedNode \in Nodes /\ RemovedNode.state = "REMOVED" /\ RemovedNode.key = AllOnes
    /\ \A k \in Keys, x \in Values :
           /\ [key |-> k, value |-> x, state |-> "USED"] \in Nodes
           /\ [key |-> k, value |-> x, state |-> "USED"].key = k
           /\ [key |-> k, value |-> x, state |-> "USED"].state = "USED"
<1>1. /\ UnusedNode \in Nodes /\ UnusedNode.state = "UNUSED"
      /\ RemovedNode \in Nodes /\ RemovedNode.state = "REMOVED" /\ RemovedNode.key = AllOnes
  BY DEF Nodes, UnusedNode, RemovedNode
<1>2. Keys \subseteq 0 .. AllOnes
  BY HashMapOK
<1>3. \A k \in Keys, x \in Values :
          /\ [key |-> k, value |-> x, state |-> "USED"] \in Nodes
          /\ [key |-> k, value |-> x, state |-> "USED"].key = k
          /\ [key |-> k, value |-> x, state |-> "USED"].state = "USED"
  BY DEF Nodes
<1>4. ASSUME NEW node \in Nodes
      PROVE  /\ node.state = "USED" => node.key \in Keys /\ node.key \in 0 .. AllOnes
             /\ node.state # "USED" <=> IsAvailable(node)
             /\ node.state \notin {"UNUSED", "USED"} => node = RemovedNode
             /\ node.state \in {"UNUSED", "USED", "REMOVED"}
  <2>1. CASE node = UnusedNode
    BY <1>1, <2>1 DEF IsAvailable
  <2>2. CASE node = RemovedNode
    BY <1>1, <2>2 DEF IsAvailable
  <2>3. CASE node \in [key : Keys, value : Values, state : {"USED"}]
    <3>1. node.state = "USED" /\ node.key \in Keys
      BY <2>3
    <3> QED BY <1>2, <3>1 DEF IsAvailable
  <2> QED BY <2>1, <2>2, <2>3 DEF Nodes
<1> QED BY <1>1, <1>3, <1>4

LEMMA HomeIn ==
    ASSUME NEW s, NEW c, IsTable(s, c), NEW k \in 0 .. AllOnes
    PROVE  /\ Home(k, c) \in 0 .. c - 1 /\ Home(k, c) \in Nat /\ c > 0
           /\ c = Power[KeyBits] => Home(k, c) = k
           /\ k = AllOnes => Home(k, c) = c - 1
<1>1. PICK n \in 0 .. KeyBits : c = Power[n]
  BY DEF IsTable
<1>2. Home(k, c) = Low(k, n)
  BY <1>1, HomeIs
<1>3. c \in Nat /\ c > 0 /\ Power[KeyBits] \in Nat
  BY <1>1, PowerAscends, AllOnesIs
<1>4. Home(k, c) \in 0 .. c - 1
  BY <1>1, <1>2, LowBound
<1>5. c = Power[KeyBits] => Home(k, c) = k
  <2> SUFFICES ASSUME c = Power[KeyBits] PROVE Home(k, c) = k
    OBVIOUS
  <2>1. k < Power[n]
    <3>1. PICK q \in Nat : q = Power[KeyBits]
      BY <1>3
    <3>2. k < q
      BY <3>1, AllOnesIs
    <3> QED BY <1>1, <3>1, <3>2
  <2> QED BY <1>2, <2>1, LowBound
<1>6. k = AllOnes => Home(k, c) = c - 1
  <2>1. KeyBits \in n .. KeyBits
    BY AllOnesIs
  <2>2. Low(Power[KeyBits] - 1, n) = Power[n] - 1
    BY <2>1, LowOnes
  <2> QED BY <1>1, <1>2, <2>2, AllOnesIs
<1> QED BY <1>3, <1>4, <1>5, <1>6

\* t is the table s of c slots with another node in slot i.
With(s, c, t, i, node) ==
    t = [j \in 0 .. c - 1 |-> t[j]] /\ t[i] = node /\ \A j \in 0 .. c - 1 : j # i => t[j] = s[j]

\* A used node is put where the search for its key ends.
LEMMA StorePlaced ==
    ASSUME NEW s, NEW c, IsTable(s, c), Placed(s, c),
           NEW node \in Nodes, node.state = "USED", NEW i, Searched(s, Home(node.key, c), node.key) = {i},
           c = Power[KeyBits] => i = node.key,
           NEW t, With(s, c, t, i, node)
    PROVE  /\ IsTable(t, c) /\ Placed(t, c) /\ i \in 0 .. c - 1
           /\ UsedOf(t) = UsedOf(s) \cup {i}
           /\ s[i].state = "USED" => s[i].key = node.key
<1> USE DEF With
<1>1. c \in Nat /\ s \in [0 .. c - 1 -> Nodes] /\ DOMAIN s = 0 .. c - 1
  BY DEF IsTable
<1>2. PICK k : k = node.key
  OBVIOUS
<1>3. k \in 0 .. AllOnes
  BY <1>2, NodeIs
<1>4. PICK h : h = Home(k, c)
  OBVIOUS
<1>5. h \in Nat
  BY <1>3, <1>4, HomeIn
<1>6. Searched(s, h, k) = {i}
  BY <1>2, <1>4
<1>7. i \in 0 .. c - 1 /\ Ends(s[i], k)
  BY <1>1, <1>6, SearchedIn
<1>8. s[i].state = "USED" => s[i].key = k
  BY <1>7 DEF Ends, IsAvailable
<1>9. t \in [0 .. c - 1 -> Nodes]
  <2>1. \A j \in 0 .. c - 1 : t[j] \in Nodes
    BY <1>1
  <2> QED BY <2>1
<1>10. IsTable(t, c) /\ DOMAIN t = 0 .. c - 1
  BY <1>9 DEF IsTable
<1>11. UsedOf(t) = UsedOf(s) \cup {i}
  BY <1>1, <1>7, <1>9 DEF UsedOf
<1>12. Searched(t, h, k) = {i}
  <2>1. PICK u \in Hits(s, h, k) : Probe(h, u) = i /\ \A v \in Hits(s, h, k) : u <= v
    BY <1>1, <1>6, SearchedStep
  <2>2. u \in 0 .. c
    BY <1>1, <2>1, HitsAre
  <2>3. u \in Hits(t, h, k)
    <3>1. Ends(t[i], k)
      BY <1>2 DEF Ends
    <3> QED BY <1>1, <1>10, <1>7, <2>1, <2>2, <3>1, HitsAre
  <2>4. ASSUME NEW v \in Hits(t, h, k), v < u PROVE FALSE
    <3>1. v \in 0 .. c /\ Probe(h, v) \in 0 .. c - 1 /\ Ends(t[Probe(h, v)], k)
      BY <1>1, <1>10, HitsAre
    <3>2. Probe(h, v) # i
      BY <1>5, <2>1, <2>2, <2>4, <3>1, ProbeGrows
    <3>3. v \in Hits(s, h, k)
      BY <1>1, <3>1, <3>2, HitsAre
    <3> QED BY <1>1, <2>1, <2>2, <2>4, <3>1, <3>3
  <2>5. \A v \in Hits(t, h, k) : u <= v
    <3>1. \A v \in Hits(t, h, k) : v \in 0 .. c
      BY <1>1, <1>10, HitsAre
    <3> QED BY <1>1, <2>2, <2>4, <3>1
  <2>6. c \in Nat /\ DOMAIN t = 0 .. c - 1
    BY <1>1, <1>10
  <2>7. Searched(t, h, k) = {Probe(h, u)}
    BY <2>3, <2>5, <2>6, SearchedAt
  <2> QED BY <2>1, <2>7
<1>13. ASSUME NEW j \in UsedOf(s), j # i
       PROVE  Searched(t, Home(s[j].key, c), s[j].key) = {j}
  <2>1. PICK l : l = s[j].key
    OBVIOUS
  <2>2. l \in 0 .. AllOnes
    BY <1>1, <2>1, NodeIs DEF UsedOf
  <2>3. PICK g : g = Home(l, c)
    OBVIOUS
  <2>4. g \in Nat
    BY <2>2, <2>3, HomeIn
  <2>5. Searched(s, g, l) = {j}
    BY <2>1, <2>3 DEF Placed
  <2>6. l # k
    BY <1>4, <1>6, <1>13, <2>3, <2>5
  <2>7. PICK u \in Hits(s, g, l) : Probe(g, u) = j /\ \A v \in Hits(s, g, l) : u <= v
    BY <1>1, <2>5, SearchedStep
  <2>8. u \in 0 .. c /\ j \in 0 .. c - 1 /\ Ends(s[j], l)
    BY <1>1, <2>7, HitsAre
  <2>9. u \in Hits(t, g, l)
    BY <1>1, <1>10, <1>13, <2>7, <2>8, HitsAre
  <2>10. \A v \in Hits(t, g, l) : u <= v
    <3> SUFFICES ASSUME NEW v \in Hits(t, g, l) PROVE u <= v
      OBVIOUS
    <3>1. v \in 0 .. c /\ Probe(g, v) \in 0 .. c - 1 /\ Ends(t[Probe(g, v)], l)
      BY <1>1, <1>10, HitsAre
    <3>2. Probe(g, v) # i
      BY <1>2, <2>6, <3>1 DEF Ends, IsAvailable
    <3>3. v \in Hits(s, g, l)
      BY <1>1, <3>1, <3>2, HitsAre
    <3> QED BY <2>7, <3>3
  <2>11. Searched(t, g, l) = {j}
    BY <1>1, <1>10, <2>7, <2>9, <2>10, SearchedAt
  <2> QED BY <2>1, <2>3, <2>11
<1>14. Placed(t, c)
  <2> SUFFICES ASSUME NEW j \in UsedOf(t)
               PROVE  /\ Searched(t, Home(t[j].key, c), t[j].key) = {j}
                      /\ c = Power[KeyBits] => t[j].key = j
    BY DEF Placed
  <2>1. CASE j = i
    <3>1. t[j].key = k /\ j = i
      BY <1>2, <2>1
    <3> QED BY <1>2, <1>4, <1>12, <3>1
  <2>2. CASE j # i
    <3>1. j \in UsedOf(s) /\ j \in 0 .. c - 1 /\ t[j] = s[j]
      BY <1>1, <1>11, <2>2 DEF UsedOf
    <3> QED BY <1>13, <2>2, <3>1 DEF Placed
  <2> QED BY <2>1, <2>2
<1> QED BY <1>2, <1>7, <1>8, <1>10, <1>11, <1>14

\* A node that was cleared is put where none is used.
LEMMA RemovedPlaced ==
    ASSUME NEW s, NEW c, IsTable(s, c), Placed(s, c), NEW i \in 0 .. c - 1, s[i].state # "USED",
           NEW t, With(s, c, t, i, RemovedNode)
    PROVE  IsTable(t, c) /\ Placed(t, c) /\ UsedOf(t) = UsedOf(s)
<1> USE DEF With
<1>1. c \in Nat /\ s \in [0 .. c - 1 -> Nodes] /\ DOMAIN s = 0 .. c - 1
  BY DEF IsTable
<1>2. t \in [0 .. c - 1 -> Nodes] /\ DOMAIN t = 0 .. c - 1
  <2>1. \A j \in 0 .. c - 1 : t[j] \in Nodes
    BY <1>1, NodeIs
  <2> QED BY <2>1
<1>3. UsedOf(t) = UsedOf(s)
  <2>1. t[i].state # "USED"
    BY NodeIs
  <2> QED BY <1>1, <1>2, <2>1 DEF UsedOf
<1>4. \A j \in 0 .. c - 1 : \A l : Ends(t[j], l) <=> Ends(s[j], l)
  <2>1. t[i].state # "USED"
    BY NodeIs
  <2> QED BY <2>1 DEF Ends, IsAvailable
<1>5. ASSUME NEW j \in UsedOf(s)
      PROVE  Searched(t, Home(s[j].key, c), s[j].key) = {j}
  <2>1. PICK l : l = s[j].key
    OBVIOUS
  <2>2. PICK g : g = Home(l, c)
    OBVIOUS
  <2>3. Searched(s, g, l) = {j}
    BY <2>1, <2>2 DEF Placed
  <2>4. PICK u \in Hits(s, g, l) : Probe(g, u) = j /\ \A v \in Hits(s, g, l) : u <= v
    BY <1>1, <2>3, SearchedStep
  <2>5. \A v : v \in Hits(t, g, l) <=> v \in Hits(s, g, l)
    BY <1>1, <1>2, <1>4, HitsAre
  <2>6. Searched(t, g, l) = {Probe(g, u)}
    <3>1. u \in Hits(t, g, l) /\ \A v \in Hits(t, g, l) : u <= v
      BY <2>4, <2>5
    <3> QED BY <1>1, <1>2, <3>1, SearchedAt
  <2> QED BY <2>1, <2>2, <2>4, <2>6
<1>6. Placed(t, c)
  <2> SUFFICES ASSUME NEW j \in UsedOf(s)
               PROVE  /\ Searched(t, Home(t[j].key, c), t[j].key) = {j}
                      /\ c = Power[KeyBits] => t[j].key = j
    BY <1>3 DEF Placed
  <2>1. t[j] = s[j]
    BY <1>1 DEF UsedOf
  <2> QED BY <1>5, <2>1 DEF Placed
<1> QED BY <1>2, <1>3, <1>6 DEF IsTable

\* In a table without entries every entry is found.
LEMMA BarePlaced ==
    ASSUME NEW c, NEW n \in 0 .. KeyBits, c = Power[n], NEW s, s \in [0 .. c - 1 -> {UnusedNode, RemovedNode}]
    PROVE  IsTable(s, c) /\ Placed(s, c) /\ UsedOf(s) = {} /\ Cardinality(UsedOf(s)) = 0
<1>1. c \in Nat
  BY PowerAscends
<1>2. UsedOf(s) = {}
  BY NodeIs DEF UsedOf
<1>3. s \in [0 .. c - 1 -> Nodes]
  BY NodeIs
<1> QED BY <1>1, <1>2, <1>3, FS_EmptySet DEF IsTable, Placed

LEMMA UsedFinite ==
    ASSUME NEW s, NEW c, IsTable(s, c)
    PROVE  /\ IsFiniteSet(UsedOf(s)) /\ Cardinality(UsedOf(s)) \in Nat /\ Cardinality(UsedOf(s)) <= c
           /\ UsedOf(s) \subseteq 0 .. c - 1
<1>1. c \in Nat /\ DOMAIN s = 0 .. c - 1
  BY DEF IsTable
<1>2. UsedOf(s) \in SUBSET (0 .. c - 1)
  BY <1>1 DEF UsedOf
<1>3. IsFiniteSet(0 .. c - 1) /\ Cardinality(0 .. c - 1) = c
  BY <1>1, FS_Interval
<1> QED BY <1>2, <1>3, FS_Subset, FS_CardinalityType

\* In a table with a slot for every key the search for one ends at once.
LEMMA SearchEnds ==
    ASSUME NEW s, NEW c, IsTable(s, c), Placed(s, c), NEW k \in 0 .. AllOnes, c = Power[KeyBits]
    PROVE  Searched(s, Home(k, c), k) = {k}
<1>1. c \in Nat /\ s \in [0 .. c - 1 -> Nodes] /\ DOMAIN s = 0 .. c - 1
  BY DEF IsTable
<1>2. Home(k, c) = k /\ k \in Nat /\ k \in 0 .. c - 1
  <2>1. PICK q \in Nat : q = Power[KeyBits]
    BY <1>1
  <2>2. k \in 0 .. q - 1
    BY <2>1, AllOnesIs
  <2> QED BY <2>1, <2>2, HomeIn
<1>3. Probe(k, 0) = k
  BY <1>2, ProbeGrows
<1>4. Ends(s[k], k)
  <2>1. CASE s[k].state = "USED"
    BY <1>1, <1>2, <2>1 DEF UsedOf, Placed, Ends
  <2>2. CASE s[k].state # "USED"
    BY <2>2 DEF Ends, IsAvailable
  <2> QED BY <2>1, <2>2
<1>5. 0 \in Hits(s, k, k)
  <2>1. 0 \in 0 .. c
    BY <1>1
  <2> QED BY <1>1, <1>2, <1>3, <1>4, <2>1, HitsAre
<1>6. \A v \in Hits(s, k, k) : 0 <= v
  <2>1. Hits(s, k, k) \subseteq 0 .. c
    BY <1>1, HitsAre
  <2> QED BY <2>1
<1> QED BY <1>1, <1>2, <1>3, <1>5, <1>6, SearchedAt

-----------------------------------------------------------------------------
(* Doubling a table *)

\* The entries of t are from the first e slots of s, none is further right in its half.
CarriedFrom(s, c, t, e) ==
    \A i \in UsedOf(t) : \E j \in 0 .. e - 1 : t[i] = s[j] /\ (i <= j \/ (c <= i /\ i <= c + j))

\* There is an entry in t for each of those.
AsMany(s, t, e) == Cardinality(UsedOf(t)) = Cardinality(UsedOf(s) \cap (0 .. e - 1))

Partial(s, c, t, e) ==
    /\ IsTable(t, 2 * c) /\ Placed(t, 2 * c)
    /\ CarriedFrom(s, c, t, e) /\ AsMany(s, t, e)

\* There is a slot for every node, and it is free.
LEMMA CarryFinds ==
    ASSUME NEW n \in 0 .. KeyBits, n # KeyBits, NEW c, c = Power[n], NEW s, IsTable(s, c), Placed(s, c),
           NEW e \in 0 .. c - 1, NEW t, Partial(s, c, t, e), s[e].state = "USED",
           NEW k, k = s[e].key
    PROVE  \E i \in 0 .. 2 * c - 1 : /\ Searched(t, Home(k, 2 * c), k) = {i} /\ t[i].state # "USED"
                                     /\ i <= e \/ (c <= i /\ i <= c + e)
<1>1. c \in Nat /\ s \in [0 .. c - 1 -> Nodes] /\ DOMAIN s = 0 .. c - 1
  BY DEF IsTable
<1>2. PICK d : d = 2 * c
  OBVIOUS
<1>3. d \in Nat /\ t \in [0 .. d - 1 -> Nodes] /\ DOMAIN t = 0 .. d - 1 /\ IsTable(t, d)
  BY <1>2 DEF Partial, IsTable
<1>4. n + 1 \in 0 .. KeyBits /\ d = Power[n + 1]
  <2>1. n + 1 \in 0 .. KeyBits /\ n + 1 # 0 /\ n + 1 - 1 = n
    BY AllOnesIs
  <2> QED BY <1>2, <2>1, PowerAscends
<1>5. k \in 0 .. AllOnes
  BY <1>1, NodeIs
<1>6. PICK h : h = Home(k, c)
  OBVIOUS
<1>7. PICK g : g = Home(k, d)
  OBVIOUS
<1>8. h \in 0 .. c - 1 /\ h \in Nat /\ g \in Nat /\ g \in {h, c + h}
  <2>1. h = Low(k, n) /\ g = Low(k, n + 1)
    BY <1>4, <1>5, <1>6, <1>7, HomeIs
  <2>2. Low(k, n + 1) \in {Low(k, n), c + Low(k, n)}
    BY <1>5, LowMore
  <2>3. h \in 0 .. c - 1
    BY <1>5, <1>6, HomeIn
  <2> QED BY <1>1, <2>1, <2>2, <2>3
<1>9. Searched(s, h, k) = {e}
  BY <1>1, <1>6 DEF Placed, UsedOf
<1>10. PICK u \in Hits(s, h, k) : Probe(h, u) = e /\ \A v \in Hits(s, h, k) : u <= v
  BY <1>1, <1>9, SearchedStep
<1>11. u \in 0 .. c /\ u \in Nat
  BY <1>1, <1>10, HitsAre
<1>12. PICK f : f = Probe(g, u)
  OBVIOUS
<1>13. f = IF g = h THEN e ELSE c + e
  <2>1. PICK x \in Nat : x = (u * (u + 1)) \div 2
    <3>1. PICK y \in Nat : y = u * (u + 1)
      BY <1>11
    <3> QED BY <3>1
  <2>2. h + x = e /\ f = g + x
    BY <1>10, <1>12, <2>1 DEF Probe
  <2> QED BY <1>1, <1>8, <2>1, <2>2
<1>14. f \in 0 .. d - 1
  <2>1. e \in Nat /\ e < c
    BY <1>1
  <2>2. f = e \/ f = c + e
    BY <1>13
  <2> QED BY <1>1, <1>2, <2>1, <2>2
<1>15. \A i \in UsedOf(t) : \E j \in 0 .. e - 1 : t[i] = s[j] /\ (i <= j \/ (c <= i /\ i <= c + j))
  BY DEF Partial, CarriedFrom
<1>16. f \notin UsedOf(t)
  <2> SUFFICES ASSUME f \in UsedOf(t) PROVE FALSE
    OBVIOUS
  <2>1. PICK j \in 0 .. e - 1 : f <= j \/ (c <= f /\ f <= c + j)
    BY <1>15
  <2> QED BY <1>1, <1>13, <2>1
<1>17. u \in Hits(t, g, k)
  <2>1. Ends(t[f], k)
    BY <1>3, <1>14, <1>16 DEF UsedOf, Ends, IsAvailable
  <2>2. u \in 0 .. d
    BY <1>1, <1>2, <1>11
  <2> QED BY <1>3, <1>12, <1>14, <2>1, <2>2, HitsAre
<1>18. PICK w \in Hits(t, g, k) : /\ \A v \in Hits(t, g, k) : w <= v
                                  /\ Searched(t, g, k) = {Probe(g, w)}
  BY <1>3, <1>17, SearchedIs
<1>19. PICK i : i = Probe(g, w)
  OBVIOUS
<1>20. w \in Nat /\ w <= u /\ i \in 0 .. d - 1 /\ Ends(t[i], k)
  <2>1. w \in 0 .. d /\ Probe(g, w) \in 0 .. d - 1 /\ Ends(t[Probe(g, w)], k)
    BY <1>3, <1>18, HitsAre
  <2>2. i \in 0 .. d - 1 /\ Ends(t[i], k)
    BY <1>19, <2>1, Zenon
  <2>3. w <= u
    BY <1>17, <1>18
  <2>4. w \in Nat
    BY <1>3, <2>1
  <2> QED BY <2>2, <2>3, <2>4
<1>21. g <= i /\ i <= f
  <2>1. w = 0 \/ 0 < w
    BY <1>20
  <2>2. w = u \/ w < u
    BY <1>11, <1>20
  <2>3. Probe(g, 0) = g /\ \A x, y \in Nat : x < y => Probe(g, x) < Probe(g, y)
    BY <1>8, ProbeGrows
  <2>4. i \in Nat /\ f \in Nat
    BY <1>3, <1>14, <1>20
  <2>5. g <= i
    BY <1>8, <1>19, <1>20, <2>1, <2>3, <2>4
  <2>6. i <= f
    BY <1>11, <1>12, <1>19, <1>20, <2>2, <2>3, <2>4
  <2> QED BY <2>5, <2>6
<1>22. i <= e \/ (c <= i /\ i <= c + e)
  BY <1>1, <1>8, <1>13, <1>20, <1>21, <1>3
<1>23. t[i].state # "USED"
  <2> SUFFICES ASSUME t[i].state = "USED" PROVE FALSE
    OBVIOUS
  <2>1. i \in UsedOf(t) /\ t[i].key = k
    BY <1>3, <1>20 DEF UsedOf, Ends, IsAvailable
  <2>2. PICK j \in 0 .. e - 1 : t[i] = s[j]
    BY <1>15, <2>1
  <2>3. j \in UsedOf(s) /\ s[j].key = k /\ j # e
    BY <1>1, <2>1, <2>2 DEF UsedOf
  <2>4. Searched(s, h, k) = {j}
    BY <1>6, <2>3 DEF Placed
  <2> QED BY <1>9, <2>3, <2>4
<1> QED BY <1>2, <1>7, <1>18, <1>19, <1>20, <1>22, <1>23

LEMMA CarryUsed ==
    ASSUME NEW n \in 0 .. KeyBits, n # KeyBits, NEW c, c = Power[n], NEW s, IsTable(s, c), Placed(s, c),
           NEW e \in 0 .. c - 1, NEW t, Partial(s, c, t, e), s[e].state = "USED",
           NEW i \in 0 .. 2 * c - 1, Searched(t, Home(s[e].key, 2 * c), s[e].key) = {i}, t[i].state # "USED",
           i <= e \/ (c <= i /\ i <= c + e),
           NEW r, With(t, 2 * c, r, i, s[e])
    PROVE  Partial(s, c, r, e + 1)
<1>1. c \in Nat /\ s \in [0 .. c - 1 -> Nodes] /\ DOMAIN s = 0 .. c - 1
  BY DEF IsTable
<1>2. PICK d : d = 2 * c
  OBVIOUS
<1>3. d \in Nat /\ DOMAIN t = 0 .. d - 1 /\ IsTable(t, d) /\ Placed(t, d)
  BY <1>2 DEF Partial, IsTable
<1>4. PICK node \in Nodes : node = s[e]
  BY <1>1
<1>5. node.state = "USED" /\ node.key \in 0 .. AllOnes
  BY <1>4, NodeIs
<1>6. Searched(t, Home(node.key, d), node.key) = {i}
  BY <1>2, <1>4
<1>7. d = Power[KeyBits] => i = node.key
  <2> SUFFICES ASSUME d = Power[KeyBits] PROVE i = node.key
    OBVIOUS
  <2>1. Searched(t, Home(node.key, d), node.key) = {node.key}
    BY <1>3, <1>5, SearchEnds
  <2> QED BY <1>6, <2>1
<1>8. With(t, d, r, i, node)
  BY <1>2, <1>4, Zenon
<1>9. IsTable(r, d) /\ Placed(r, d) /\ UsedOf(r) = UsedOf(t) \cup {i}
  BY <1>3, <1>5, <1>6, <1>7, <1>8, StorePlaced
<1>10. CarriedFrom(s, c, r, e + 1)
  <2> SUFFICES ASSUME NEW x \in UsedOf(r)
               PROVE  \E j \in 0 .. e + 1 - 1 : r[x] = s[j] /\ (x <= j \/ (c <= x /\ x <= c + j))
    BY DEF CarriedFrom
  <2>1. CASE x = i
    <3>1. e \in 0 .. e + 1 - 1
      BY <1>1
    <3> QED BY <2>1, <3>1 DEF With
  <2>2. CASE x # i
    <3>1. x \in UsedOf(t) /\ r[x] = t[x]
      BY <1>3, <1>8, <1>9, <2>2 DEF UsedOf, With
    <3>2. PICK j \in 0 .. e - 1 : t[x] = s[j] /\ (x <= j \/ (c <= x /\ x <= c + j))
      BY <3>1 DEF Partial, CarriedFrom
    <3>3. j \in 0 .. e + 1 - 1
      BY <1>1
    <3> QED BY <3>1, <3>2, <3>3
  <2> QED BY <2>1, <2>2
<1>11. AsMany(s, r, e + 1)
  <2>1. PICK A : A = UsedOf(s) \cap (0 .. e - 1)
    OBVIOUS
  <2>2. IsFiniteSet(UsedOf(s)) /\ IsFiniteSet(UsedOf(t)) /\ UsedOf(t) \subseteq 0 .. d - 1
    BY <1>3, UsedFinite
  <2>3. IsFiniteSet(A)
    <3>1. A \in SUBSET UsedOf(s)
      BY <2>1
    <3> QED BY <2>2, <3>1, FS_Subset
  <2>4. PICK f : f = e + 1
    OBVIOUS
  <2>5. UsedOf(s) \cap (0 .. f - 1) = A \cup {e}
    <3>1. e \in UsedOf(s)
      BY <1>1 DEF UsedOf
    <3>2. 0 .. f - 1 = (0 .. e - 1) \cup {e}
      BY <1>1, <2>4
    <3> QED BY <2>1, <3>1, <3>2
  <2>6. e \notin A /\ i \notin UsedOf(t)
    BY <1>1, <2>1 DEF UsedOf
  <2>7. Cardinality(A \cup {e}) = Cardinality(A) + 1
    BY <2>3, <2>6, FS_AddElement
  <2>8. Cardinality(UsedOf(t) \cup {i}) = Cardinality(UsedOf(t)) + 1
    BY <2>2, <2>6, FS_AddElement
  <2>9. Cardinality(UsedOf(t)) = Cardinality(A)
    BY <2>1 DEF Partial, AsMany
  <2>10. Cardinality(UsedOf(r)) = Cardinality(UsedOf(s) \cap (0 .. f - 1))
    BY <1>9, <2>5, <2>7, <2>8, <2>9, Zenon
  <2>11. AsMany(s, r, f)
    BY <2>10, Zenon DEF AsMany
  <2> QED BY <2>4, <2>11, Zenon
<1>12. IsTable(r, 2 * c) /\ Placed(r, 2 * c)
  BY <1>2, <1>9, Zenon
<1> QED BY <1>10, <1>11, <1>12 DEF Partial

\* A slot that is not used is passed, or carried as a cleared one.
LEMMA CarryOther ==
    ASSUME NEW c, NEW s, IsTable(s, c), NEW e \in 0 .. c - 1, NEW t, Partial(s, c, t, e), s[e].state # "USED",
           NEW r, IsTable(r, 2 * c), Placed(r, 2 * c), UsedOf(r) = UsedOf(t), \A i \in UsedOf(t) : r[i] = t[i]
    PROVE  Partial(s, c, r, e + 1)
<1>1. c \in Nat /\ s \in [0 .. c - 1 -> Nodes] /\ DOMAIN s = 0 .. c - 1
  BY DEF IsTable
<1>2. PICK f : f = e + 1
  OBVIOUS
<1>3. 0 .. f - 1 = (0 .. e - 1) \cup {e}
  BY <1>1, <1>2
<1>4. UsedOf(s) \cap (0 .. f - 1) = UsedOf(s) \cap (0 .. e - 1)
  BY <1>3 DEF UsedOf
<1>5. CarriedFrom(s, c, r, f)
  BY <1>3 DEF Partial, CarriedFrom
<1>6. AsMany(s, r, f)
  <2>1. AsMany(s, t, e)
    BY DEF Partial
  <2> QED BY <1>4, <2>1, Zenon DEF AsMany
<1> QED BY <1>2, <1>5, <1>6 DEF Partial

\* Where a cleared node belongs no entry stands before that slot is passed.
LEMMA CarryRemoved ==
    ASSUME NEW n \in 0 .. KeyBits, n # KeyBits, NEW c, c = Power[n], NEW s, IsTable(s, c),
           NEW e \in 0 .. c - 1, NEW t, Partial(s, c, t, e), s[e].state # "USED"
    PROVE  /\ Searched(t, Home(AllOnes, 2 * c), AllOnes) = {2 * c - 1} /\ 2 * c - 1 \in 0 .. 2 * c - 1
           /\ t[2 * c - 1].state # "USED"
           /\ \A r : With(t, 2 * c, r, 2 * c - 1, RemovedNode) => Partial(s, c, r, e + 1)
<1>1. c \in Nat /\ c > 0
  BY PowerAscends
<1>2. PICK d : d = 2 * c
  OBVIOUS
<1>3. PICK l : l = d - 1
  OBVIOUS
<1>4. d \in Nat /\ DOMAIN t = 0 .. d - 1 /\ IsTable(t, d) /\ Placed(t, d) /\ t \in [0 .. d - 1 -> Nodes]
  BY <1>2 DEF Partial, IsTable
<1>5. l \in 0 .. d - 1 /\ l \in Nat
  BY <1>1, <1>2, <1>3
<1>6. t[l].state # "USED"
  <2> SUFFICES ASSUME t[l].state = "USED" PROVE FALSE
    OBVIOUS
  <2>1. l \in UsedOf(t)
    BY <1>4, <1>5 DEF UsedOf
  <2>2. PICK j \in 0 .. e - 1 : t[l] = s[j] /\ (l <= j \/ (c <= l /\ l <= c + j))
    BY <2>1 DEF Partial, CarriedFrom
  <2> QED BY <1>1, <1>2, <1>3, <2>2
<1>7. Home(AllOnes, d) = l
  BY <1>3, <1>4, HomeIn, AllOnesIs
<1>8. Searched(t, l, AllOnes) = {l}
  <2>1. Probe(l, 0) = l
    BY <1>5, ProbeGrows
  <2>2. 0 \in Hits(t, l, AllOnes)
    <3>1. Ends(t[l], AllOnes) /\ 0 \in 0 .. d
      BY <1>4, <1>6 DEF Ends, IsAvailable
    <3> QED BY <1>4, <1>5, <2>1, <3>1, HitsAre
  <2>3. \A v \in Hits(t, l, AllOnes) : 0 <= v
    <3>1. Hits(t, l, AllOnes) \subseteq 0 .. d
      BY <1>4, HitsAre
    <3> QED BY <3>1
  <2> QED BY <1>4, <2>1, <2>2, <2>3, SearchedAt
<1>9. ASSUME NEW r, With(t, d, r, l, RemovedNode)
      PROVE  Partial(s, c, r, e + 1)
  <2>1. IsTable(r, d) /\ Placed(r, d) /\ UsedOf(r) = UsedOf(t)
    BY <1>4, <1>5, <1>6, <1>9, RemovedPlaced
  <2>2. \A i \in UsedOf(t) : r[i] = t[i]
    BY <1>4, <1>6, <1>9 DEF UsedOf, With
  <2> QED BY <1>2, <2>1, <2>2, CarryOther
<1> QED BY <1>2, <1>3, <1>5, <1>6, <1>7, <1>8, <1>9

-----------------------------------------------------------------------------
(* The calls of maps *)

\* The slots s of a map, its capacity and its size.
Entry(s, c, size) == IsTable(s, c) /\ Placed(s, c) /\ size = Cardinality(UsedOf(s))

\* What add() has carried to the larger table, while it runs.
Carrying(b, m, j) ==
    j.at = "rehash" /\ j.map = m =>
        \E n \in 0 .. KeyBits : /\ n # KeyBits /\ b.vectors[m].capacity = Power[n]
                                /\ Partial(Slots(b, m), b.vectors[m].capacity, b.arrays[j.array], j.element)

Tabled(b, m, j) == Entry(Slots(b, m), b.vectors[m].capacity, b.vectors[m].size) /\ Carrying(b, m, j)

Entries == client = "maps" => \A m \in Maps \ copied : Tabled(memory, m, job)

IInv == Typed /\ Entries

LEMMA EntriesNext ==
    ASSUME Entries, client = "maps", client' = client, NEW o \in Maps, NEW b, Others(memory, b, o), memory' = b,
           NEW j, job' = j, j.at = "rehash" => j.map = o, copied \ {o} \subseteq copied',
           o \notin copied' => Tabled(b, o, j)
    PROVE  Entries'
<1> SUFFICES ASSUME NEW p \in Maps \ copied' PROVE Tabled(b, p, j)
  BY Zenon DEF Entries
<1>1. CASE p = o
  BY <1>1
<1>2. CASE p # o
  <2>1. p \in Maps \ copied /\ p \in Objects \ {o}
    BY <1>2, ConstantsApart
  <2>2. Entry(Slots(memory, p), memory.vectors[p].capacity, memory.vectors[p].size)
    BY <2>1 DEF Entries, Tabled
  <2>3. b.vectors[p] = memory.vectors[p] /\ Slots(b, p) = Slots(memory, p)
    BY <2>1 DEF Others, Slots
  <2>4. Carrying(b, p, j)
    BY <1>2 DEF Carrying
  <2> QED BY <2>2, <2>3, <2>4 DEF Tabled
<1> QED BY <1>1, <1>2

LEMMA MapIs ==
    ASSUME Typed, client = "maps", NEW m \in Maps
    PROVE  /\ Suits(m) /\ m \in Objects /\ Elem = Nodes
           /\ memory.vectors[m] = vectors[m] /\ ~Gone(memory.vectors[m])
           /\ vectors[m].capacity \in Nat /\ vectors[m].capacity > 0 /\ Capacity(m) = vectors[m].capacity
           /\ vectors[m].size \in Nat /\ vectors[m].size <= vectors[m].capacity
           /\ Size(memory, m) = vectors[m].size
           /\ vectors[m].array \in Addresses /\ vectors[m].array # Null
           /\ Slots(memory, m) = arrays[vectors[m].array]
           /\ DOMAIN Slots(memory, m) = 0 .. vectors[m].capacity - 1
           /\ Slots(memory, m) \in [0 .. vectors[m].capacity - 1 -> Nodes]
<1>1. PICK r : r = vectors[m]
  OBVIOUS
<1>2. Suits(m) /\ m \in Objects
  BY ConstantsApart DEF Suits
<1>3. memory.vectors[m] = r /\ memory.arrays = arrays
  BY <1>1, MemoryIs
<1>4. Shaped(memory) /\ Owned(memory, Making) /\ Fit(memory, m)
  BY <1>2 DEF Typed
<1>5. r \in Members /\ r.capacity \in Nat /\ r.size \in Nat /\ r.array \in Addresses
  <2>1. r = memory.vectors[m]
    BY <1>3
  <2> QED BY <1>2, <1>4, <2>1, ObjectIs
<1>6. r.array # Null /\ r.capacity > 0 /\ ~Gone(r)
  BY <1>2, <1>3, <1>4 DEF Owned, Owns, Gone
<1>7. r.size <= r.capacity
  BY <1>3, <1>4, <1>6 DEF Fit
<1>8. Slots(memory, m) = arrays[r.array] /\ DOMAIN Slots(memory, m) = 0 .. r.capacity - 1
  <2>1. Slots(memory, m) = arrays[r.array]
    BY <1>3 DEF Slots
  <2>2. DOMAIN memory.arrays[r.array] = 0 .. r.capacity - 1
    BY <1>2, <1>3, <1>4, <1>6 DEF Owned, Owns
  <2> QED BY <1>3, <2>1, <2>2
<1>9. Elem = Nodes /\ Contents(r.array) = Nodes
  BY DEF Elem, Contents
<1>10. Slots(memory, m) \in [0 .. r.capacity - 1 -> Nodes]
  <2>1. IsArray(r.array, memory.arrays[r.array])
    BY <1>4, <1>5 DEF Shaped
  <2>2. PICK k \in Nat : memory.arrays[r.array] \in [0 .. k - 1 -> Nodes]
    BY <1>9, <2>1 DEF IsArray
  <2> QED BY <1>3, <1>8, <2>2
<1> QED BY <1>1, <1>2, <1>3, <1>5, <1>6, <1>7, <1>8, <1>9, <1>10 DEF Capacity, Size

\* No table is being made.
LEMMA QuietIs ==
    ASSUME Typed, ~undefined, client = "maps", job.at # "rehash"
    PROVE  /\ Sound(memory) /\ Cardinality(Alive(memory)) < MaxArrays /\ Cardinality(Alive(memory)) \in Nat
           /\ job = NoJob => Cardinality(Alive(memory)) <= calls
           /\ \A m \in Maps : Callable(memory, m)
<1>1. Making = {}
  BY DEF Making
<1>2. Sound(memory)
  BY <1>1 DEF Typed, Sound
<1>3. Cardinality(Alive(memory)) <= calls
  BY DEF Typed, Counted, JobTyped, NoJob
<1>4. Cardinality(Alive(memory)) < MaxArrays /\ Cardinality(Alive(memory)) \in Nat
  BY <1>3, AliveFinite, VectorOK DEF Typed
<1> QED BY <1>2, <1>3, <1>4, MapIs DEF Callable

LEMMA IdleKeeps ==
    ASSUME Typed, client = "maps", Idle, job' = job, client' = client, copied' \subseteq Maps,
           NEW b, Sound(b), Near(memory, b), Remember(b)
    PROVE  Typed' /\ memory' = b
<1>1. memory' = b
  BY RememberSound
<1>2. job = NoJob /\ ~undefined /\ calls < MaxCalls /\ calls' = calls + 1 /\ job.at = "return"
  BY DEF Idle, NoJob
<1>3. Making' = {}
  BY <1>2 DEF Making
<1>4. Shaped(memory)' /\ Owned(memory, Making)' /\ (\A o \in Objects : Fit(memory, o))'
  BY <1>1, <1>3, ShapedThen DEF Sound
<1>5. undefined' = FALSE
  BY <1>2, MemoryIs DEF Near, Remember, Typed, Shaped
<1>6. Counted'
  <2>1. Cardinality(Alive(b)) <= Cardinality(Alive(memory)) + 1
    BY NearCount
  <2>2. Cardinality(Alive(memory)) <= calls /\ Cardinality(Alive(memory)) \in Nat
    BY <1>2, QuietIs
  <2>3. Cardinality(Alive(b)) <= calls + 1
    BY <2>1, <2>2, AliveFinite DEF Typed
  <2>4. Cardinality(Alive(memory))' <= calls'
    BY <1>1, <1>2, <2>3
  <2> QED BY <1>2, <2>4 DEF Counted
<1>7. calls' \in 0 .. MaxCalls
  BY <1>2, VectorOK DEF Typed
<1>8. JobTyped'
  BY <1>2 DEF JobTyped
<1> QED BY <1>1, <1>2, <1>4, <1>5, <1>6, <1>7, <1>8 DEF Typed

LEMMA AddEntryKeeps ==
    ASSUME IInv, client = "maps", NEW m \in Maps, NEW k \in Keys, NEW x \in Values, AddEntry(m, k, x)
    PROVE  IInv'
<1>1. /\ job = NoJob /\ ~undefined /\ calls < MaxCalls /\ calls' = calls + 1
      /\ job' = [at |-> "find", map |-> m, key |-> k, value |-> x]
      /\ UNCHANGED <<vectors, arrays, leaked, undefined, copied, client>>
  BY DEF AddEntry, Idle
<1>2. job.at = "return" /\ job'.at = "find"
  BY <1>1 DEF NoJob
<1>3. memory' = memory
  BY <1>1 DEF memory
<1>4. Making = {} /\ Making' = {}
  BY <1>2 DEF Making
<1>5. Shaped(memory)' /\ Owned(memory, Making)' /\ (\A o \in Objects : Fit(memory, o))'
  BY <1>1, <1>3, <1>4, ShapedThen DEF IInv, Typed
<1>6. Counted'
  <2>1. Cardinality(Alive(memory)) <= calls /\ Cardinality(Alive(memory)) \in Nat
    BY <1>1, <1>2, QuietIs DEF IInv
  <2>2. Cardinality(Alive(memory)) + 1 <= calls'
    BY <1>1, <2>1 DEF IInv, Typed
  <2>3. Cardinality(Alive(memory))' = Cardinality(Alive(memory))
    BY <1>3
  <2> QED BY <1>1, <1>2, <2>1, <2>2, <2>3 DEF Counted, IInv, Typed
<1>7. JobTyped'
  BY <1>1 DEF JobTyped
<1>8. calls' \in 0 .. MaxCalls
  BY <1>1, VectorOK DEF IInv, Typed
<1>9. Typed'
  BY <1>1, <1>2, <1>5, <1>6, <1>7, <1>8 DEF IInv, Typed
<1>10. Entries'
  <2>1. PICK j : j = job'
    OBVIOUS
  <2>2. j.at = "find"
    BY <1>2, <2>1
  <2>3. m \notin copied => Tabled(memory, m, j)
    BY <2>2 DEF IInv, Entries, Tabled, Carrying
  <2>4. Others(memory, memory, m)
    BY DEF Others
  <2>5. j.at = "rehash" => j.map = m
    BY <2>2
  <2> HIDE <1>1
  <2>6. client' = client /\ copied' = copied
    BY <1>1
  <2> QED BY <1>3, <2>1, <2>3, <2>4, <2>5, <2>6, EntriesNext DEF IInv
<1> QED BY <1>9, <1>10 DEF IInv

\* An entry for every map, while no table is being made, is what Entries comes to.
LEMMA IdleEntries ==
    ASSUME IInv, client = "maps", Idle, job' = job, client' = client, copied' \subseteq Maps,
           NEW b, Sound(b), Near(memory, b), Remember(b),
           NEW m \in Maps, Others(memory, b, m), copied \ {m} \subseteq copied',
           m \notin copied' => Entry(Slots(b, m), b.vectors[m].capacity, b.vectors[m].size)
    PROVE  IInv' /\ memory' = b
<1>1. Typed' /\ memory' = b
  BY IdleKeeps DEF IInv
<1>2. job.at = "return"
  BY DEF Idle, NoJob
<1>3. m \notin copied' => Tabled(b, m, job)
  BY <1>2 DEF Tabled, Carrying
<1>4. Entries'
  BY <1>1, <1>2, <1>3, EntriesNext DEF IInv
<1> QED BY <1>1, <1>4 DEF IInv

LEMMA ClearMapKeeps ==
    ASSUME IInv, client = "maps", NEW m \in Maps, ClearMap(m)
    PROVE  IInv' /\ Others(memory, memory', m) /\ (m \notin copied => UsedOf(Slots(memory', m)) = {})
<1>1. PICK c : c = vectors[m].capacity
  OBVIOUS
<1>2. PICK part : part = [i \in 0 .. c - 1 |-> RemovedNode]
  OBVIOUS
<1>3. PICK w : w = Written(memory, m, part)
  OBVIOUS
<1>4. PICK b : b = Sized(w, m, 0)
  OBVIOUS
<1>5. Idle /\ Remember(b) /\ copied' = copied /\ client' = client /\ job' = job
  <2>1. Capacity(m) = c
    BY <1>1 DEF Capacity
  <2> QED BY <1>2, <1>3, <1>4, <2>1 DEF ClearMap, mapVars
<1>6. /\ Suits(m) /\ m \in Objects /\ Elem = Nodes /\ ~Gone(memory.vectors[m])
      /\ c \in Nat /\ memory.vectors[m].capacity = c
      /\ DOMAIN Slots(memory, m) = 0 .. c - 1
  BY <1>1, MapIs DEF IInv
<1>7. Sound(memory) /\ Near(memory, memory)
  BY <1>5, QuietIs, VectorOK DEF Idle, NoJob, Near, Heap, IInv
<1>8. DOMAIN part = 0 .. c - 1 /\ \A i \in 0 .. c - 1 : part[i] = RemovedNode
  BY <1>2
<1>9. \A i \in DOMAIN part : part[i] \in Elem
  BY <1>6, <1>8, NodeIs
<1>10. /\ Sound(w) /\ Near(memory, w) /\ ~Gone(w.vectors[m]) /\ w.vectors = memory.vectors
       /\ Overwritten(memory, w, m, part)
  <2> HIDE <1>2
  <2>1. DOMAIN part \subseteq 0 .. memory.vectors[m].capacity - 1 /\ DOMAIN part \subseteq DOMAIN Slots(memory, m)
    BY <1>6, <1>8
  <2>2. Overwritten(memory, w, m, part)
    BY <1>3, <1>6, <1>7, <1>9, <2>1, SoundWritten
  <2> QED BY <1>3, <1>6, <1>7, <1>9, <2>1, <2>2, SoundPut
<1>11. /\ Sound(b) /\ Near(memory, b) /\ b.vectors[m].capacity = c /\ b.vectors[m].size = 0
       /\ Others(memory, b, m) /\ Slots(b, m) = Slots(w, m)
  <2>1. 0 \in Nat /\ 0 <= w.vectors[m].capacity
    BY <1>6, <1>10
  <2>2. /\ Sound(b) /\ Near(memory, b) /\ b.vectors[m].capacity = c /\ b.vectors[m].size = 0
        /\ Others(w, b, m)
    BY <1>4, <1>6, <1>10, <2>1, SoundCut
  <2>3. Others(memory, w, m)
    BY <1>10 DEF Overwritten
  <2>4. Slots(b, m) = Slots(w, m)
    BY <1>4, <1>6, <1>10, <2>1, SizedKeeps DEF Sound, Slots
  <2> QED BY <2>2, <2>3, <2>4, OthersChain
<1>12. m \notin copied => Entry(Slots(b, m), c, 0) /\ UsedOf(Slots(b, m)) = {}
  <2> SUFFICES ASSUME m \notin copied PROVE Entry(Slots(b, m), c, 0) /\ UsedOf(Slots(b, m)) = {}
    OBVIOUS
  <2>1. PICK n \in 0 .. KeyBits : c = Power[n]
    BY <1>6 DEF IInv, Entries, Tabled, Entry, IsTable
  <2>2. PICK s : s = Slots(w, m)
    OBVIOUS
  <2>3. DOMAIN s = 0 .. c - 1 /\ \A i \in 0 .. c - 1 : s[i] = RemovedNode
    BY <1>6, <1>8, <1>10, <2>2 DEF Overwritten
  <2>4. \E k \in Nat : s \in [0 .. k - 1 -> Contents(w.vectors[m].array)]
    <3>1. w.vectors[m].array \in Addresses
      BY <1>6, <1>10, MapIs DEF IInv
    <3>2. IsArray(w.vectors[m].array, s)
      BY <1>10, <2>2, <3>1 DEF Sound, Shaped, Slots
    <3> QED BY <3>2 DEF IsArray
  <2>5. s \in [0 .. c - 1 -> {UnusedNode, RemovedNode}]
    BY <2>3, <2>4
  <2>6. IsTable(s, c) /\ Placed(s, c) /\ Cardinality(UsedOf(s)) = 0 /\ UsedOf(s) = {}
    BY <2>1, <2>5, BarePlaced
  <2> QED BY <1>11, <2>2, <2>6 DEF Entry
<1> HIDE <1>2, <1>3, <1>4
<1>13. copied' \subseteq Maps /\ copied \ {m} \subseteq copied'
  BY <1>5 DEF IInv, Typed
<1>14. IInv' /\ memory' = b
  BY <1>5, <1>11, <1>12, <1>13, IdleEntries
<1> QED BY <1>11, <1>12, <1>14

\* A map assigned to itself keeps its nodes.
LEMMA CopySelf ==
    ASSUME Typed, client = "maps", ~undefined, job = NoJob, NEW m \in Maps, NEW b, b = CopyAssigned(memory, m, m)
    PROVE  /\ Slots(b, m) = Slots(memory, m)
           /\ b.vectors[m].capacity = vectors[m].capacity /\ b.vectors[m].size = vectors[m].size
<1>1. PICK n \in Nat : n = vectors[m].size
  BY MapIs
<1>2. PICK s : s = Sized(memory, m, n)
  OBVIOUS
<1>3. /\ Suits(m) /\ m \in Objects /\ Elem = Nodes /\ ~Gone(memory.vectors[m]) /\ memory.vectors[m] = vectors[m]
      /\ n <= vectors[m].capacity /\ Size(memory, m) = n
      /\ DOMAIN Slots(memory, m) = 0 .. vectors[m].capacity - 1 /\ vectors[m].capacity \in Nat
      /\ Slots(memory, m) \in [0 .. vectors[m].capacity - 1 -> Nodes]
  BY <1>1, MapIs
<1>4. Sound(memory)
  BY QuietIs DEF NoJob
<1>5. /\ Sound(s) /\ s.vectors[m].size = n /\ s.vectors[m].capacity = vectors[m].capacity
      /\ Slots(s, m) = Slots(memory, m)
  <2>1. Sound(s) /\ s.vectors[m].size = n /\ s.vectors[m].capacity = memory.vectors[m].capacity
    BY <1>2, <1>3, <1>4, SoundSized
  <2>2. s.vectors[m].array = memory.vectors[m].array /\ s.arrays = memory.arrays
    <3>1. Shaped(memory) /\ m \in Objects
      BY <1>3, <1>4 DEF Sound
    <3> QED BY <1>2, <3>1, SizedKeeps
  <2> QED BY <1>3, <2>1, <2>2 DEF Slots
<1>6. CASE n = 0
  <2>1. b = Sized(memory, m, 0)
    BY <1>3, <1>6, Zenon DEF CopyAssigned
  <2>2. b = s
    BY <1>2, <1>6, <2>1, Zenon
  <2> QED BY <1>1, <1>5, <2>2
<1>7. CASE n # 0
  <2>1. Reserved(s, m, n, FALSE) = s
    BY <1>3, <1>5, Zenon DEF Reserved
  <2>2. b = CopyInto(s, m, m)
    BY <1>2, <1>3, <1>7, <2>1, Zenon DEF CopyAssigned
  <2>3. PICK part : part = [i \in 0 .. n - 1 |-> Element(s, m, i)]
    OBVIOUS
  <2>4. b = Written(s, m, part)
    <3>1. Size(s, m) = n
      BY <1>5 DEF Size
    <3> QED BY <2>2, <2>3, <3>1, Zenon DEF CopyInto
  <2>5. \A i \in 0 .. n - 1 : i \in DOMAIN Slots(s, m) /\ part[i] = Slots(s, m)[i]
    BY <1>3, <1>5, <2>3 DEF Element
  <2>6. DOMAIN part = 0 .. n - 1 /\ DOMAIN part \subseteq DOMAIN Slots(s, m)
    BY <2>3, <2>5
  <2> HIDE <1>2, <2>3
  <2>7. \A i \in DOMAIN part : part[i] \in Elem
    BY <1>3, <1>5, <2>5, <2>6
  <2>8. Sound(b) /\ Overwritten(s, b, m, part)
    BY <1>3, <1>5, <2>4, <2>6, <2>7, SoundWritten
  <2>9. b.vectors = s.vectors
    BY <2>8 DEF Overwritten
  <2>10. PICK t : t = Slots(b, m)
    OBVIOUS
  <2>11. DOMAIN t = DOMAIN Slots(s, m) /\ \A i \in DOMAIN Slots(s, m) : t[i] = Slots(s, m)[i]
    BY <2>5, <2>6, <2>8, <2>10 DEF Overwritten
  <2>12. \E k \in Nat : t \in [0 .. k - 1 -> Contents(b.vectors[m].array)]
    <3>1. b.vectors[m].array \in Addresses
      BY <1>3, <2>8, MemberIs DEF Sound, Shaped
    <3>2. IsArray(b.vectors[m].array, t)
      BY <2>8, <2>10, <3>1 DEF Sound, Shaped, Slots
    <3> QED BY <3>2 DEF IsArray
  <2>13. t = Slots(s, m)
    BY <1>3, <1>5, <2>11, <2>12
  <2> QED BY <1>1, <1>5, <2>9, <2>10, <2>13
<1> QED BY <1>6, <1>7

LEMMA CopyMapKeeps ==
    ASSUME IInv, client = "maps", NEW m \in Maps, NEW n \in Maps, CopyMap(m, n)
    PROVE  /\ IInv' /\ Others(memory, memory', m)
           /\ m = n => /\ Slots(memory', m) = Slots(memory, m)
                       /\ memory'.vectors[m].capacity = memory.vectors[m].capacity
<1>1. PICK b : b = CopyAssigned(memory, m, n)
  OBVIOUS
<1>2. /\ Idle /\ Remember(b) /\ client' = client /\ job' = job
      /\ copied' = IF m = n THEN copied ELSE copied \cup {m}
  BY <1>1 DEF CopyMap
<1>3. ~undefined /\ job = NoJob /\ job.at # "rehash"
  BY <1>2 DEF Idle, NoJob
<1>4. Callable(memory, m) /\ Callable(memory, n)
  BY <1>3, QuietIs DEF IInv
<1>5. Sound(b) /\ Near(memory, b) /\ Others(memory, b, m)
  BY <1>1, <1>4, CopyAssignedKeeps
<1>6. copied' \subseteq Maps /\ copied \ {m} \subseteq copied'
  BY <1>2 DEF IInv, Typed
<1>7. m \notin copied' => Entry(Slots(b, m), b.vectors[m].capacity, b.vectors[m].size)
  <2> SUFFICES ASSUME m \notin copied'
               PROVE  Entry(Slots(b, m), b.vectors[m].capacity, b.vectors[m].size)
    OBVIOUS
  <2>1. m = n /\ m \in Maps \ copied
    BY <1>2
  <2>2. /\ Slots(b, m) = Slots(memory, m)
        /\ b.vectors[m].capacity = vectors[m].capacity /\ b.vectors[m].size = vectors[m].size
    BY <1>1, <1>3, <2>1, CopySelf DEF IInv
  <2>3. Entry(Slots(memory, m), vectors[m].capacity, vectors[m].size)
    BY <2>1, MemoryIs DEF IInv, Entries, Tabled
  <2> QED BY <2>2, <2>3
<1>8. m = n => Slots(b, m) = Slots(memory, m) /\ b.vectors[m].capacity = memory.vectors[m].capacity
  BY <1>1, <1>3, CopySelf, MemoryIs DEF IInv
<1> HIDE <1>1
<1>9. IInv' /\ memory' = b
  BY <1>2, <1>5, <1>6, <1>7, IdleEntries
<1> QED BY <1>5, <1>8, <1>9

Renewed(m, o) == [m EXCEPT !.vectors[o] = NewMap(o), !.arrays[o] = StackSlots]

LEMMA RenewedIs ==
    ASSUME NEW m, IsMemory(m), NEW o, NEW b, b = Renewed(m, o)
    PROVE  /\ IsMemory(b)
           /\ b.vectors = [m.vectors EXCEPT ![o] = NewMap(o)]
           /\ b.arrays = [m.arrays EXCEPT ![o] = StackSlots]
           /\ b.leaked = m.leaked /\ b.undefined = m.undefined
BY Zenon DEF IsMemory, Renewed

LEMMA StackIs ==
    /\ StackCapacity \in Nat /\ StackCapacity > 0 /\ \E n \in 0 .. KeyBits : StackCapacity = Power[n]
    /\ StackSlots \in [0 .. StackCapacity - 1 -> {UnusedNode, RemovedNode}]
    /\ DOMAIN StackSlots = 0 .. StackCapacity - 1
    /\ \A m \in Maps : IsArray(m, StackSlots) /\ NewMap(m) \in Members
    /\ \A m : /\ NewMap(m).array = m /\ NewMap(m).capacity = StackCapacity
              /\ NewMap(m).size = 0 /\ NewMap(m).heap = FALSE
<1>1. StackCapacity \in Nat /\ StackCapacity > 0 /\ \E n \in 0 .. KeyBits : StackCapacity = Power[n]
  BY HashMapOK, PowerAscends
<1>2. /\ StackSlots \in [0 .. StackCapacity - 1 -> {UnusedNode, RemovedNode}]
      /\ DOMAIN StackSlots = 0 .. StackCapacity - 1
  BY DEF StackSlots
<1>3. ASSUME NEW m \in Maps PROVE IsArray(m, StackSlots) /\ NewMap(m) \in Members
  <2>1. StackSlots \in [0 .. StackCapacity - 1 -> Contents(m)]
    BY <1>2, NodeIs DEF Contents
  <2>2. m \in Addresses /\ 0 \in Nat /\ FALSE \in BOOLEAN
    BY ConstantsApart
  <2>3. NewMap(m) \in Members
    BY <1>1, <2>2, MemberIs DEF NewMap
  <2> QED BY <1>1, <2>1, <2>3 DEF IsArray
<1> QED BY <1>1, <1>2, <1>3 DEF NewMap

LEMMA RenewMapKeeps ==
    ASSUME IInv, client = "maps", NEW m \in Maps, RenewMap(m)
    PROVE  IInv' /\ Others(memory, memory', m) /\ UsedOf(Slots(memory', m)) = {}
<1>1. PICK bare : bare = SetBuffer(memory, m, Null, 0, 0, TRUE)
  OBVIOUS
<1>2. PICK b : b = Renewed(bare, m)
  OBVIOUS
<1>3. Idle /\ Remember(b) /\ client' = client /\ job' = job /\ copied' = copied \ {m}
  BY <1>1, <1>2, Zenon DEF RenewMap, Renewed
<1>4. Sound(memory) /\ m \in Objects
  BY <1>3, QuietIs, ConstantsApart DEF Idle, NoJob, IInv
<1>5. PICK none : none = {}
  OBVIOUS
<1>6. Shaped(memory) /\ Owned(memory, none)
  BY <1>4, <1>5 DEF Sound
<1> HIDE <1>5
<1>7. Shaped(bare) /\ Replaced(memory, bare, m, Null, 0, 0, TRUE)
  <2>1. Null \in Addresses /\ 0 \in Nat /\ TRUE \in BOOLEAN
    BY ConstantsApart
  <2> QED BY <1>1, <1>4, <1>6, <2>1, SetBufferKeeps
<1>8. /\ IsMemory(b) /\ b.leaked = bare.leaked /\ b.undefined = bare.undefined
      /\ b.vectors = [bare.vectors EXCEPT ![m] = NewMap(m)]
      /\ b.arrays = [bare.arrays EXCEPT ![m] = StackSlots]
  BY <1>2, <1>7, RenewedIs DEF Shaped
<1> HIDE <1>1, <1>2
<1>9. /\ bare.vectors \in [Objects -> Members]
      /\ bare.arrays = [a \in Addresses |-> bare.arrays[a]]
      /\ \A a \in Addresses : IsArray(a, bare.arrays[a])
      /\ bare.undefined \in BOOLEAN
  BY <1>7 DEF Shaped
<1>10. /\ bare.leaked = memory.leaked /\ bare.undefined = memory.undefined
       /\ \A a \in Addresses :
              bare.arrays[a] = IF a \in Heap /\ a = memory.vectors[m].array THEN NoSlots ELSE memory.arrays[a]
       /\ Others(memory, bare, m)
  BY <1>7 DEF Replaced
<1>11. /\ b.vectors \in [Objects -> Members] /\ b.vectors[m] = NewMap(m)
       /\ \A p \in Objects \ {m} : b.vectors[p] = bare.vectors[p]
  BY <1>4, <1>8, <1>9, StackIs
<1>12. /\ b.arrays = [a \in Addresses |-> b.arrays[a]] /\ b.arrays[m] = StackSlots
       /\ \A a \in Addresses \ {m} : b.arrays[a] = bare.arrays[a]
  BY <1>8, <1>9, ConstantsApart
<1>13. \A a \in Addresses : IsArray(a, b.arrays[a])
  BY <1>9, <1>12, StackIs
<1>14. Shaped(b)
  BY <1>8, <1>9, <1>11, <1>12, <1>13 DEF Shaped
<1>15. /\ b.vectors[m].array = m /\ b.vectors[m].capacity = StackCapacity /\ b.vectors[m].size = 0
       /\ b.vectors[m].heap = FALSE /\ StackCapacity \in Nat /\ StackCapacity > 0
  BY <1>11, StackIs
<1>16. m \notin Heap /\ m # Null
  BY ConstantsApart
<1>17. Owns(b, m) /\ Fit(b, m)
  <2>1. DOMAIN b.arrays[m] = 0 .. StackCapacity - 1
    BY <1>12, StackIs
  <2>2. 0 <= StackCapacity
    BY <1>15
  <2>3. Fit(b, m)
    BY <1>15, <2>2, Zenon DEF Fit
  <2> QED BY <1>15, <1>16, <2>1, <2>3 DEF Owns
<1>18. Others(memory, b, m)
  <2> SUFFICES ASSUME NEW p \in Objects \ {m}
               PROVE  /\ b.vectors[p] = memory.vectors[p]
                      /\ b.arrays[memory.vectors[p].array] = memory.arrays[memory.vectors[p].array]
    BY DEF Others
  <2>1. /\ bare.vectors[p] = memory.vectors[p]
        /\ bare.arrays[memory.vectors[p].array] = memory.arrays[memory.vectors[p].array]
    BY <1>10 DEF Others
  <2>2. memory.vectors[p].array \in Addresses
    BY <1>6, MemberIs DEF Shaped
  <2>3. memory.vectors[p].array # m
    <3>1. Owns(memory, p)
      BY <1>6 DEF Owned
    <3>2. memory.vectors[p].array \in Heap \cup {Null} \/ memory.vectors[p].array = p
      BY <3>1 DEF Owns
    <3> QED BY <1>16, <3>2
  <2> QED BY <1>11, <1>12, <2>1, <2>2, <2>3
<1>19. \A a \in Heap \cup {Null} :
           b.arrays[a] = IF a \in Heap /\ a = memory.vectors[m].array THEN NoSlots ELSE memory.arrays[a]
  <2> SUFFICES ASSUME NEW a \in Heap \cup {Null}
               PROVE  b.arrays[a] = IF a \in Heap /\ a = memory.vectors[m].array THEN NoSlots ELSE memory.arrays[a]
    OBVIOUS
  <2>1. a \in Addresses \ {m}
    BY <1>16, ConstantsApart
  <2> QED BY <1>10, <1>12, <2>1
<1>20. Sound(b) /\ Near(memory, b)
  <2>1. b.leaked = memory.leaked /\ b.undefined = memory.undefined /\ b.vectors[m].array \notin Heap
    BY <1>8, <1>10, <1>15, <1>16
  <2> HIDE <1>8
  <2> QED BY <1>4, <1>14, <1>17, <1>18, <1>19, <2>1, GivenUp
<1>21. Entry(Slots(b, m), b.vectors[m].capacity, b.vectors[m].size) /\ UsedOf(Slots(b, m)) = {}
  <2>1. Slots(b, m) = StackSlots
    BY <1>12, <1>15 DEF Slots
  <2>2. PICK n \in 0 .. KeyBits : StackCapacity = Power[n]
    BY StackIs
  <2>3. PICK s : s = StackSlots
    OBVIOUS
  <2>4. IsTable(s, StackCapacity) /\ Placed(s, StackCapacity) /\ Cardinality(UsedOf(s)) = 0 /\ UsedOf(s) = {}
    BY <2>2, <2>3, StackIs, BarePlaced
  <2> QED BY <1>15, <2>1, <2>3, <2>4 DEF Entry
<1>22. copied' \subseteq Maps /\ copied \ {m} \subseteq copied'
  BY <1>3 DEF IInv, Typed
<1> HIDE <1>8
<1>23. IInv' /\ memory' = b
  BY <1>3, <1>18, <1>20, <1>21, <1>22, IdleEntries
<1> QED BY <1>18, <1>21, <1>23

LEMMA JobIs ==
    ASSUME Typed, client = "maps"
    PROVE  /\ job.at \in {"find", "rehash"} =>
                  /\ job.map \in Maps /\ job.key \in Keys /\ job.value \in Values /\ job.key \in 0 .. AllOnes
                  /\ job # NoJob
           /\ job.at = "rehash" =>
                  /\ job.array \in Heap /\ job.element \in 0 .. vectors[job.map].capacity
                  /\ DOMAIN arrays[job.array] = 0 .. 2 * vectors[job.map].capacity - 1
                  /\ job = [at |-> "rehash", map |-> job.map, key |-> job.key, value |-> job.value,
                            array |-> job.array, element |-> job.element]
<1>1. CASE job = NoJob
  BY <1>1 DEF NoJob
<1>2. CASE job # NoJob
  <2>1. PICK m \in Maps, k \in Keys, x \in Values :
           \/ job = [at |-> "find", map |-> m, key |-> k, value |-> x]
           \/ \E a \in Heap, e \in 0 .. vectors[m].capacity :
                  /\ job = [at |-> "rehash", map |-> m, key |-> k, value |-> x, array |-> a, element |-> e]
                  /\ DOMAIN arrays[a] = 0 .. 2 * vectors[m].capacity - 1
    BY <1>2 DEF Typed, JobTyped
  <2>2. k \in 0 .. AllOnes
    BY HashMapOK
  <2>3. CASE job = [at |-> "find", map |-> m, key |-> k, value |-> x]
    BY <1>2, <2>2, <2>3
  <2>4. CASE job # [at |-> "find", map |-> m, key |-> k, value |-> x]
    <3>1. PICK a \in Heap, e \in 0 .. vectors[m].capacity :
              /\ job = [at |-> "rehash", map |-> m, key |-> k, value |-> x, array |-> a, element |-> e]
              /\ DOMAIN arrays[a] = 0 .. 2 * vectors[m].capacity - 1
      BY <2>1, <2>4
    <3>2. job.map = m /\ job.array = a /\ job.element = e /\ job.at = "rehash" /\ job.key = k /\ job.value = x
      BY <3>1
    <3> QED BY <1>2, <2>2, <3>1, <3>2
  <2> QED BY <2>3, <2>4
<1> QED BY <1>1, <1>2

\* A store where there is no such slot changes nothing else.
LEMMA StoredNowhere ==
    ASSUME NEW m, IsMemory(m), NEW a, NEW part, ~(DOMAIN part \subseteq DOMAIN m.arrays[a]),
           NEW b, b = Stored(m, a, part)
    PROVE  /\ IsMemory(b)
           /\ b.vectors = m.vectors /\ b.arrays = m.arrays
           /\ b.leaked = m.leaked /\ b.undefined
BY Zenon DEF IsMemory, Stored

LEMMA NowhereKeeps ==
    ASSUME NEW m, Shaped(m), NEW b, IsMemory(b), b.vectors = m.vectors, b.arrays = m.arrays,
           b.leaked = m.leaked, b.undefined
    PROVE  /\ Shaped(b) /\ \A o : Others(m, b, o)
           /\ \A more : Owned(m, more) => Owned(b, more)
           /\ \A o \in Objects : Fit(m, o) => Fit(b, o)
<1>1. Shaped(b)
  BY DEF Shaped
<1>2. \A o : Owns(m, o) => Owns(b, o)
  BY DEF Owns
<1>3. \A a : Loose(m, a) => Loose(b, a)
  BY DEF Loose
<1>4. ASSUME NEW more, Owned(m, more) PROVE Owned(b, more)
  BY <1>2, <1>3, <1>4 DEF Owned
<1> QED BY <1>1, <1>4 DEF Others, Fit

\* add() ends, or is undefined.
LEMMA FoundTyped ==
    ASSUME Typed, client = "maps", ~undefined, job.at = "find", job' = NoJob,
           UNCHANGED <<calls, copied, client>>,
           NEW b, Shaped(b), Owned(b, {}), \A o \in Objects : Fit(b, o), memory' = b,
           b.undefined => copied # {},
           ~b.undefined => Cardinality(Alive(b)) <= calls
    PROVE  Typed'
<1>1. Making' = {} /\ job'.at = "return"
  BY DEF Making, NoJob
<1>2. Shaped(memory)' /\ Owned(memory, Making)' /\ (\A o \in Objects : Fit(memory, o))'
  BY <1>1, ShapedThen
<1>3. undefined' = b.undefined
  BY DEF memory
<1>4. ~undefined' => Counted'
  BY <1>1, <1>3 DEF Counted
<1>5. JobTyped'
  BY DEF JobTyped
<1> QED BY <1>1, <1>2, <1>3, <1>4, <1>5 DEF Typed

\* The map with room for one entry more, if it needs that.
Widened(m, i) == IF IsAvailable(Slots(memory, m)[i]) THEN Resized(memory, m, Size(memory, m) + 1) ELSE memory

\* There is room for it.
HasRoom(m, i) == IsAvailable(Slots(memory, m)[i]) => vectors[m].size + 1 <= vectors[m].capacity

LEMMA WidenedKeeps ==
    ASSUME Typed, client = "maps", ~undefined, job.at = "find", NEW m \in Maps, m = job.map, NEW i,
           NEW a, a = vectors[m].array, NEW r, r = Widened(m, i)
    PROVE  /\ Sound(r) /\ Near(memory, r) /\ Others(memory, r, m)
           /\ Cardinality(Alive(r)) <= calls \/ r.arrays[a] = NoSlots
           /\ HasRoom(m, i) =>
                  /\ r.arrays = memory.arrays /\ r.vectors[m].array = a
                  /\ r.vectors[m].capacity = vectors[m].capacity
                  /\ r.vectors[m].size =
                         IF IsAvailable(Slots(memory, m)[i]) THEN vectors[m].size + 1 ELSE vectors[m].size
<1>1. /\ Suits(m) /\ m \in Objects /\ ~Gone(memory.vectors[m]) /\ memory.vectors[m] = vectors[m]
      /\ vectors[m].size \in Nat /\ vectors[m].capacity \in Nat /\ Size(memory, m) = vectors[m].size
  BY MapIs
<1>2. Sound(memory) /\ Callable(memory, m)
  BY QuietIs
<1>3. /\ Cardinality(Alive(memory)) <= calls
      /\ a \notin Heap => Cardinality(Alive(memory)) + 1 <= calls
  BY DEF Typed, Counted
<1>4. Cardinality(Alive(memory)) \in Nat /\ Cardinality(Alive(r)) \in Nat /\ calls \in Nat
  BY AliveFinite DEF Typed
<1>5. CASE IsAvailable(Slots(memory, m)[i])
  <2>1. PICK n \in Nat : n = vectors[m].size + 1
    BY <1>1
  <2>2. PICK g : g = Reserved(memory, m, n, FALSE)
    OBVIOUS
  <2>3. r = Sized(g, m, n)
    <3>1. Size(memory, m) + 1 = n
      BY <1>1, <2>1
    <3> QED BY <1>5, <2>2, <3>1, Zenon DEF Widened, Resized
  <2>4. Sound(g) /\ Roomy(memory, g, m, n)
    BY <1>2, <2>2, SoundReserved DEF Callable
  <2>5. Enlarged(memory, g, m, n)
    <3>1. Shaped(memory) /\ Owned(memory, {})
      BY <1>2 DEF Sound
    <3> QED BY <1>2, <2>2, <3>1, ReservedKeeps DEF Callable
  <2> HIDE <2>2
  <2>6. Result(memory, r, m, n)
    BY <1>1, <2>3, <2>4, RoomySized
  <2>7. r.arrays = g.arrays /\ r.vectors[m].array = g.vectors[m].array /\ r.vectors[m].capacity = g.vectors[m].capacity
    BY <1>1, <2>3, <2>4, SizedKeeps DEF Sound
  <2> HIDE <2>3
  <2>8. Sound(r) /\ Near(memory, r) /\ Others(memory, r, m) /\ r.vectors[m].size = n
    BY <2>6 DEF Result
  <2>9. CASE n <= vectors[m].capacity
    <3>1. g = memory
      BY <1>1, <2>5, <2>9 DEF Enlarged
    <3>2. r.arrays = memory.arrays
      BY <2>7, <3>1
    <3>3. Alive(r) = Alive(memory)
      BY <3>2 DEF Alive
    <3> QED BY <1>1, <1>3, <1>5, <2>1, <2>7, <2>8, <3>1, <3>3
  <2>10. CASE n > vectors[m].capacity
    <3>1. g.arrays[a] = NoSlots \/ a \notin Heap
      BY <1>1, <2>5, <2>10 DEF Enlarged
    <3>2. Cardinality(Alive(r)) <= calls \/ r.arrays[a] = NoSlots
      <4>1. Cardinality(Alive(r)) <= Cardinality(Alive(memory)) + 1
        BY <2>8, NearCount
      <4> QED BY <1>3, <1>4, <2>7, <3>1, <4>1
    <3>3. ~HasRoom(m, i)
      BY <1>1, <1>5, <2>1, <2>10 DEF HasRoom
    <3> QED BY <2>8, <3>2, <3>3
  <2> QED BY <1>1, <2>9, <2>10
<1>6. CASE ~IsAvailable(Slots(memory, m)[i])
  <2>1. r = memory
    BY <1>6 DEF Widened
  <2>2. Near(memory, memory) /\ Others(memory, memory, m)
    BY VectorOK DEF Near, Heap, Others
  <2> QED BY <1>1, <1>2, <1>3, <1>6, <2>1, <2>2
<1> QED BY <1>5, <1>6

\* A node is put into the slot of a map, in the array it had.
LEMMA PlacedKeeps ==
    ASSUME Typed, client = "maps", ~undefined, job.at = "find", NEW m \in Maps, m = job.map,
           NEW i \in 0 .. vectors[m].capacity - 1, HasRoom(m, i) \/ m \in copied, NEW node \in Nodes,
           NEW r, r = Widened(m, i), NEW a, a = vectors[m].array, NEW part, part = Slot(i, node),
           NEW b, b = Stored(r, a, part)
    PROVE  /\ Shaped(b) /\ Owned(b, {}) /\ (\A o \in Objects : Fit(b, o)) /\ Others(memory, b, m)
           /\ b.undefined => copied # {}
           /\ ~b.undefined => Cardinality(Alive(b)) <= calls
           /\ HasRoom(m, i) =>
                  /\ b.vectors[m].capacity = vectors[m].capacity
                  /\ b.vectors[m].size =
                         IF IsAvailable(Slots(memory, m)[i]) THEN vectors[m].size + 1 ELSE vectors[m].size
                  /\ With(Slots(memory, m), vectors[m].capacity, Slots(b, m), i, node)
<1>1. /\ Sound(r) /\ Near(memory, r) /\ Others(memory, r, m)
      /\ Cardinality(Alive(r)) <= calls \/ r.arrays[a] = NoSlots
      /\ HasRoom(m, i) =>
             /\ r.arrays = memory.arrays /\ r.vectors[m].array = a
             /\ r.vectors[m].capacity = vectors[m].capacity
             /\ r.vectors[m].size =
                    IF IsAvailable(Slots(memory, m)[i]) THEN vectors[m].size + 1 ELSE vectors[m].size
  BY WidenedKeeps
<1>2. /\ m \in Objects /\ memory.vectors[m] = vectors[m] /\ memory.vectors[m].array = a
      /\ a \in Addresses /\ a # Null
      /\ DOMAIN Slots(memory, m) = 0 .. vectors[m].capacity - 1 /\ vectors[m].capacity \in Nat
      /\ Slots(memory, m) = arrays[a] /\ memory.arrays = arrays
      /\ Slots(memory, m) \in [0 .. vectors[m].capacity - 1 -> Nodes]
  BY MapIs, MemoryIs
<1>3. DOMAIN part = {i} /\ part[i] = node
  BY DEF Slot
<1>4. Shaped(r) /\ Owned(r, {}) /\ IsMemory(r) /\ \A o \in Objects : Fit(r, o)
  BY <1>1 DEF Sound, Shaped
<1>5. CASE i \in DOMAIN r.arrays[a]
  <2>1. /\ Shaped(b) /\ b.undefined = r.undefined /\ b.vectors = r.vectors
        /\ \A c \in Addresses : /\ b.arrays[c] = IF c = a THEN Over(part, r.arrays[a]) ELSE r.arrays[c]
                                /\ DOMAIN b.arrays[c] = DOMAIN r.arrays[c]
                                /\ b.arrays[c] = NoSlots <=> r.arrays[c] = NoSlots
        /\ \A j \in DOMAIN r.arrays[a] : b.arrays[a][j] = IF j \in DOMAIN part THEN part[j] ELSE r.arrays[a][j]
        /\ \A more : Owned(r, more) => Owned(b, more)
    <3>1. DOMAIN part \subseteq DOMAIN r.arrays[a]
      BY <1>3, <1>5
    <3>2. \A j \in DOMAIN part : part[j] \in Contents(a)
      BY <1>3 DEF Contents
    <3> QED BY SMTT(60), <1>2, <1>4, <3>1, <3>2, StoredKeeps
  <2>2. Alive(b) = Alive(r)
    BY SMTT(60), <2>1, ConstantsApart DEF Alive
  <2>3. Others(memory, b, m)
    <3> SUFFICES ASSUME NEW p \in Objects \ {m}
                 PROVE  /\ b.vectors[p] = memory.vectors[p]
                        /\ b.arrays[memory.vectors[p].array] = memory.arrays[memory.vectors[p].array]
      BY DEF Others
    <3>1. /\ r.vectors[p] = memory.vectors[p]
          /\ r.arrays[memory.vectors[p].array] = memory.arrays[memory.vectors[p].array]
      BY <1>1 DEF Others
    <3>2. memory.vectors[p].array \in Addresses
      BY MemberIs DEF Typed, Shaped
    <3>3. memory.vectors[p].array # a
      <4>1. memory.vectors[m].array = a
        BY <1>2
      <4> QED BY <1>2, <4>1 DEF Typed, Owned
    <3> QED BY <2>1, <3>1, <3>2, <3>3
  <2>4. Cardinality(Alive(b)) <= calls
    <3>1. r.arrays[a] # NoSlots
      <4> SUFFICES ASSUME r.arrays[a] = NoSlots PROVE FALSE
        OBVIOUS
      <4>1. i \in 0 .. 0 - 1
        BY <1>5, EmptyArray
      <4> QED BY <4>1
    <3> QED BY <1>1, <2>2, <3>1
  <2>5. ~b.undefined
    BY <1>1, <2>1, MemoryIs DEF Near
  <2>6. ASSUME HasRoom(m, i) PROVE With(Slots(memory, m), vectors[m].capacity, Slots(b, m), i, node)
    <3>1. r.arrays[a] = Slots(memory, m) /\ b.vectors[m].array = a
      BY <1>1, <1>2, <2>1, <2>6
    <3>2. Slots(b, m) = b.arrays[a]
      BY <3>1 DEF Slots
    <3>3. b.arrays[a] = Over(part, Slots(memory, m))
      <4>1. a \in Addresses
        BY <1>2
      <4>2. \A c \in Addresses : b.arrays[c] = IF c = a THEN Over(part, r.arrays[a]) ELSE r.arrays[c]
        BY <2>1, Zenon
      <4>3. b.arrays[a] = Over(part, r.arrays[a])
        BY <4>1, <4>2, Zenon
      <4> QED BY <3>1, <4>3, Zenon
    <3>4. PICK t : t = Slots(b, m)
      OBVIOUS
    <3>5. PICK c : c = vectors[m].capacity
      OBVIOUS
    <3>6. PICK s : s = Slots(memory, m)
      OBVIOUS
    <3>7. t = Over(part, s) /\ DOMAIN s = 0 .. c - 1
      BY <1>2, <3>2, <3>3, <3>4, <3>5, <3>6
    <3>8. With(s, c, t, i, node)
      <4> HIDE <1>2, <3>4, <3>5, <3>6
      <4>1. t = [j \in 0 .. c - 1 |-> IF j \in {i} THEN part[j] ELSE s[j]]
        BY <1>3, <3>7, Zenon DEF Over
      <4>2. i \in 0 .. c - 1
        BY <3>5
      <4> QED BY <1>3, <4>1, <4>2 DEF With
    <3> QED BY <3>4, <3>5, <3>6, <3>8, Zenon
  <2>7. \A o \in Objects : Fit(b, o)
    BY <1>4, <2>1 DEF Fit
  <2> QED BY <1>1, <1>4, <2>1, <2>3, <2>4, <2>5, <2>6, <2>7
<1>6. CASE i \notin DOMAIN r.arrays[a]
  <2>1. ~(DOMAIN part \subseteq DOMAIN r.arrays[a])
    BY <1>3, <1>6
  <2>2. /\ IsMemory(b)
        /\ b.vectors = r.vectors /\ b.arrays = r.arrays /\ b.leaked = r.leaked /\ b.undefined
    BY <1>4, <2>1, StoredNowhere
  <2>3. Shaped(b) /\ Others(r, b, m) /\ (\A more : Owned(r, more) => Owned(b, more)) /\ \A o \in Objects : Fit(b, o)
    <3>1. /\ Shaped(b) /\ \A o : Others(r, b, o)
          /\ \A more : Owned(r, more) => Owned(b, more)
          /\ \A o \in Objects : Fit(r, o) => Fit(b, o)
      BY <1>4, <2>2, NowhereKeeps
    <3> QED BY <1>4, <3>1
  <2>4. ~HasRoom(m, i)
    BY <1>1, <1>2, <1>6
  <2> QED BY <1>1, <1>4, <2>2, <2>3, <2>4, OthersChain
<1> QED BY <1>5, <1>6

\* t is the table s of c slots with the node put where the search for its key ends.
Puts(s, c, t, node) ==
    \E i : /\ Searched(s, Home(node.key, c), node.key) = {i} /\ (c = Power[KeyBits] => i = node.key)
           /\ With(s, c, t, i, node)

JobNode == [key |-> job.key, value |-> job.value, state |-> "USED"]

LEMMA FoundKeeps ==
    ASSUME IInv, client = "maps", Found
    PROVE  /\ IInv' /\ Others(memory, memory', job.map)
           /\ job.map \notin copied =>
                  /\ memory'.vectors[job.map].capacity = vectors[job.map].capacity
                  /\ Puts(Slots(memory, job.map), vectors[job.map].capacity, Slots(memory', job.map), JobNode)
<1>1. PICK m : m = job.map
  OBVIOUS
<1>2. PICK k : k = job.key
  OBVIOUS
<1>3. /\ ~undefined /\ job.at = "find" /\ job' = NoJob /\ UNCHANGED <<calls, copied, client>>
      /\ \E i \in Find(m, k) : Place(i)
  BY <1>1, <1>2 DEF Found
<1>4. m \in Maps /\ k \in Keys /\ k \in 0 .. AllOnes /\ job.value \in Values
  BY <1>1, <1>2, <1>3, JobIs DEF IInv
<1>5. PICK s : s = Slots(memory, m)
  OBVIOUS
<1>6. PICK c : c = vectors[m].capacity
  OBVIOUS
<1>7. PICK h : h = Home(k, c)
  OBVIOUS
<1>8. /\ c \in Nat /\ DOMAIN s = 0 .. c - 1 /\ vectors[m].size \in Nat /\ memory.vectors[m] = vectors[m]
      /\ Find(m, k) = Searched(s, h, k)
  <2>1. /\ c \in Nat /\ DOMAIN s = 0 .. c - 1 /\ Capacity(m) = c /\ vectors[m].size \in Nat
        /\ memory.vectors[m] = vectors[m]
    BY <1>4, <1>5, <1>6, MapIs DEF IInv
  <2> QED BY <1>5, <1>7, <2>1, Zenon DEF Find, FindNode
<1>9. PICK i \in Searched(s, h, k) : Place(i)
  BY <1>3, <1>8
<1>10. Searched(s, h, k) = {i} /\ i \in 0 .. c - 1 /\ Ends(s[i], k)
  BY <1>8, SearchedIn
<1>11. PICK node : node = [key |-> k, value |-> job.value, state |-> "USED"]
  OBVIOUS
<1>12. node \in Nodes /\ node.key = k /\ node.state = "USED"
  BY <1>4, <1>11, NodeIs
<1>13. PICK r : r = Widened(m, i)
  OBVIOUS
<1>14. PICK a : a = vectors[m].array
  OBVIOUS
<1>15. PICK part : part = Slot(i, node)
  OBVIOUS
<1>16. PICK b : b = Stored(r, a, part)
  OBVIOUS
<1>17. Remember(b)
  BY <1>1, <1>2, <1>9, <1>11, <1>13, <1>14, <1>15, <1>16, Zenon DEF Place, Widened
<1>18. m \notin copied => /\ Entry(s, c, vectors[m].size) /\ HasRoom(m, i)
                          /\ c = Power[KeyBits] => i = k
  <2> SUFFICES ASSUME m \notin copied
               PROVE  Entry(s, c, vectors[m].size) /\ HasRoom(m, i) /\ (c = Power[KeyBits] => i = k)
    OBVIOUS
  <2>1. Entry(s, c, vectors[m].size)
    BY <1>4, <1>5, <1>6, <1>8 DEF IInv, Entries, Tabled
  <2>2. c = Power[KeyBits] => i = k
    <3> SUFFICES ASSUME c = Power[KeyBits] PROVE i = k
      OBVIOUS
    <3>1. Searched(s, h, k) = {k}
      BY <1>4, <1>7, <2>1, SearchEnds DEF Entry
    <3> QED BY <1>10, <3>1
  <2>3. HasRoom(m, i)
    <3> SUFFICES ASSUME IsAvailable(s[i]) PROVE vectors[m].size + 1 <= c
      BY <1>5, <1>6 DEF HasRoom
    <3>1. PICK U : U = UsedOf(s)
      OBVIOUS
    <3>2. IsFiniteSet(U) /\ Cardinality(U) \in Nat /\ U \subseteq 0 .. c - 1 /\ i \notin U
      BY <2>1, <3>1, UsedFinite DEF Entry, UsedOf, IsAvailable
    <3>3. Cardinality(U \cup {i}) = Cardinality(U) + 1
      BY <3>2, FS_AddElement
    <3>4. IsFiniteSet(0 .. c - 1) /\ Cardinality(0 .. c - 1) = c
      <4>1. c - 1 \in Int /\ 0 \in Int /\ (IF 0 > c - 1 THEN 0 ELSE c - 1 - 0 + 1) = c
        BY <1>8
      <4>2. IsFiniteSet(0 .. c - 1) /\ Cardinality(0 .. c - 1) = IF 0 > c - 1 THEN 0 ELSE c - 1 - 0 + 1
        BY <4>1, FS_Interval
      <4> QED BY <4>1, <4>2
    <3>5. Cardinality(U \cup {i}) <= Cardinality(0 .. c - 1)
      <4>1. U \cup {i} \in SUBSET (0 .. c - 1)
        BY <1>10, <3>2
      <4> QED BY <3>4, <4>1, FS_Subset
    <3> QED BY <2>1, <3>1, <3>2, <3>3, <3>4, <3>5 DEF Entry
  <2> QED BY <2>1, <2>2, <2>3
<1>19. /\ Shaped(b) /\ Owned(b, {}) /\ (\A o \in Objects : Fit(b, o)) /\ Others(memory, b, m)
       /\ b.undefined => copied # {}
       /\ ~b.undefined => Cardinality(Alive(b)) <= calls
       /\ HasRoom(m, i) =>
              /\ b.vectors[m].capacity = c
              /\ b.vectors[m].size = IF IsAvailable(s[i]) THEN vectors[m].size + 1 ELSE vectors[m].size
              /\ With(s, c, Slots(b, m), i, node)
  <2>1. i \in 0 .. vectors[m].capacity - 1
    BY <1>6, <1>10
  <2>2. HasRoom(m, i) \/ m \in copied
    BY <1>18
  <2>3. /\ Shaped(b) /\ Owned(b, {}) /\ (\A o \in Objects : Fit(b, o)) /\ Others(memory, b, m)
        /\ b.undefined => copied # {}
        /\ ~b.undefined => Cardinality(Alive(b)) <= calls
        /\ HasRoom(m, i) =>
               /\ b.vectors[m].capacity = vectors[m].capacity
               /\ b.vectors[m].size =
                      IF IsAvailable(Slots(memory, m)[i]) THEN vectors[m].size + 1 ELSE vectors[m].size
               /\ With(Slots(memory, m), vectors[m].capacity, Slots(b, m), i, node)
    <3> HIDE <1>11
    <3> QED BY <1>1, <1>3, <1>4, <1>12, <1>13, <1>14, <1>15, <1>16, <2>1, <2>2, PlacedKeeps DEF IInv
  <2> QED BY <1>5, <1>6, <2>3, Zenon
<1> HIDE <1>11, <1>13, <1>14, <1>15, <1>16
<1>20. memory' = b
  BY <1>17, <1>19, RememberIs DEF Shaped
<1>21. Typed'
  BY <1>3, <1>19, <1>20, FoundTyped DEF IInv
<1>22. m \notin copied' => Tabled(b, m, NoJob)
  <2> SUFFICES ASSUME m \notin copied PROVE Entry(Slots(b, m), b.vectors[m].capacity, b.vectors[m].size)
    BY <1>3 DEF Tabled, Carrying, NoJob
  <2>1. PICK t : t = Slots(b, m)
    OBVIOUS
  <2>2. With(s, c, t, i, node) /\ IsTable(s, c) /\ Placed(s, c) /\ (c = Power[KeyBits] => i = node.key)
        /\ Searched(s, Home(node.key, c), node.key) = {i}
    BY <1>7, <1>10, <1>12, <1>18, <1>19, <2>1 DEF Entry
  <2>3. IsTable(t, c) /\ Placed(t, c) /\ UsedOf(t) = UsedOf(s) \cup {i}
    BY <1>12, <2>2, StorePlaced
  <2>4. b.vectors[m].capacity = c /\ vectors[m].size = Cardinality(UsedOf(s))
        /\ b.vectors[m].size = IF IsAvailable(s[i]) THEN vectors[m].size + 1 ELSE vectors[m].size
    BY <1>18, <1>19 DEF Entry
  <2>5. b.vectors[m].size = Cardinality(UsedOf(t))
    <3>1. CASE IsAvailable(s[i])
      <4>1. i \notin UsedOf(s)
        BY <3>1 DEF UsedOf, IsAvailable
      <4>2. IsFiniteSet(UsedOf(s)) /\ Cardinality(UsedOf(s)) \in Nat
        BY <2>2, UsedFinite
      <4>3. Cardinality(UsedOf(s) \cup {i}) = Cardinality(UsedOf(s)) + 1
        BY <4>1, <4>2, FS_AddElement
      <4> QED BY <2>3, <2>4, <3>1, <4>3
    <3>2. CASE ~IsAvailable(s[i])
      <4>1. UsedOf(s) \cup {i} = UsedOf(s)
        BY <1>8, <1>10, <3>2 DEF UsedOf, IsAvailable
      <4> QED BY <2>3, <2>4, <3>2, <4>1
    <3> QED BY <3>1, <3>2
  <2> QED BY <2>1, <2>3, <2>4, <2>5 DEF Entry
<1>23. Entries'
  <2>1. NoJob.at = "rehash" => NoJob.map = m
    BY DEF NoJob
  <2>2. client' = client /\ copied \ {m} \subseteq copied' /\ job' = NoJob
    BY <1>3
  <2> QED BY <1>4, <1>19, <1>20, <1>22, <2>1, <2>2, EntriesNext DEF IInv
<1>24. m \notin copied => b.vectors[m].capacity = c /\ Puts(s, c, Slots(b, m), node)
  <2> SUFFICES ASSUME m \notin copied PROVE b.vectors[m].capacity = c /\ Puts(s, c, Slots(b, m), node)
    OBVIOUS
  <2>1. Searched(s, Home(node.key, c), node.key) = {i} /\ (c = Power[KeyBits] => i = node.key)
    BY <1>7, <1>10, <1>12, <1>18
  <2> QED BY <1>18, <1>19, <2>1 DEF Puts
<1>25. JobNode = node
  BY <1>2, <1>11, Zenon DEF JobNode
<1>26. Others(memory, memory', m)
  BY <1>19, <1>20
<1> QED BY <1>1, <1>5, <1>6, <1>20, <1>21, <1>23, <1>24, <1>25, <1>26, Zenon DEF IInv

\* What no call of a vector or of a map can see
Unseen(m, b) == \A p \in Objects : b.vectors[p] = m.vectors[p] /\ Slots(b, p) = Slots(m, p)

\* A bare table twice as large has nothing of the other yet.
LEMMA BarePartial ==
    ASSUME NEW n \in 0 .. KeyBits, n # KeyBits, NEW c, c = Power[n], NEW s,
           NEW t, t \in [0 .. 2 * c - 1 -> {UnusedNode, RemovedNode}]
    PROVE  Partial(s, c, t, 0)
<1>1. PICK d : d = 2 * c
  OBVIOUS
<1>2. n + 1 \in 0 .. KeyBits /\ d = Power[n + 1]
  <2>1. n + 1 \in 0 .. KeyBits /\ n + 1 # 0 /\ n + 1 - 1 = n
    BY AllOnesIs
  <2> QED BY <1>1, <2>1, PowerAscends
<1>3. t \in [0 .. d - 1 -> {UnusedNode, RemovedNode}]
  BY <1>1
<1>4. IsTable(t, d) /\ Placed(t, d) /\ UsedOf(t) = {}
  BY <1>2, <1>3, BarePlaced
<1>5. CarriedFrom(s, c, t, 0)
  BY <1>4 DEF CarriedFrom
<1>6. AsMany(s, t, 0)
  <2>1. UsedOf(s) \cap (0 .. 0 - 1) = {}
    OBVIOUS
  <2> QED BY <1>4, <2>1 DEF AsMany
<1> QED BY <1>1, <1>4, <1>5, <1>6 DEF Partial

LEMMA GrowKeeps ==
    ASSUME IInv, client = "maps", Grow
    PROVE  IInv' /\ Unseen(memory, memory')
<1>1. PICK m : m = job.map
  OBVIOUS
<1>2. PICK k : k = job.key
  OBVIOUS
<1>3. PICK c : c = vectors[m].capacity
  OBVIOUS
<1>4. PICK f : f = FreeAddress(memory)
  OBVIOUS
<1>5. PICK n : n = 2 * c
  OBVIOUS
<1>6. PICK b : b = Allocated(memory, f, m, n)
  OBVIOUS
<1>7. /\ ~undefined /\ job.at = "find" /\ UNCHANGED <<calls, copied, client>>
      /\ Find(m, k) = {}
      /\ job.map = m
  BY <1>1, <1>2 DEF Grow
<1>8. m \in Maps /\ k \in Keys /\ k \in 0 .. AllOnes /\ job.value \in Values
  BY <1>1, <1>2, <1>7, JobIs DEF IInv
<1>9. /\ Suits(m) /\ m \in Objects /\ c \in Nat /\ c > 0 /\ Capacity(m) = c /\ memory.vectors[m] = vectors[m]
      /\ DOMAIN Slots(memory, m) = 0 .. c - 1
      /\ vectors[m].array \in Addresses
  BY <1>3, <1>8, MapIs DEF IInv
<1>10. n \in Nat /\ n > c /\ n > 0 /\ Doubled(Capacity(m)) = n
  BY <1>5, <1>9 DEF Doubled
<1>11. PICK j : j = [at |-> "rehash", map |-> m, key |-> k, value |-> job.value, array |-> f, element |-> 0]
  OBVIOUS
<1>12. Remember(b) /\ job' = j
  <2>1. /\ Remember(Allocated(memory, FreeAddress(memory), job.map, Doubled(Capacity(job.map))))
        /\ job' = [at |-> "rehash", map |-> job.map, key |-> job.key, value |-> job.value,
                   array |-> FreeAddress(memory), element |-> 0]
    BY <1>1, <1>9, <1>10 DEF Grow
  <2> QED BY <1>1, <1>2, <1>4, <1>6, <1>10, <1>11, <2>1, Zenon
<1>13. j.at = "rehash" /\ j.map = m /\ j.array = f /\ j.element = 0
  BY <1>11
<1>14. /\ Sound(memory) /\ Cardinality(Alive(memory)) < MaxArrays /\ Cardinality(Alive(memory)) \in Nat
       /\ Cardinality(Alive(memory)) <= calls
       /\ vectors[m].array \notin Heap => Cardinality(Alive(memory)) + 1 <= calls
  BY <1>1, <1>7, QuietIs DEF IInv, Typed, Counted
<1>15. f \in Heap /\ memory.arrays[f] = NoSlots /\ f \in Addresses
  BY <1>4, <1>14, FreeAddressIs, ConstantsApart
<1>16. Shaped(b) /\ Gains(memory, b, m, f, n) /\ Owned(b, {f})
  <2>1. PICK none : none = {}
    OBVIOUS
  <2>2. Shaped(memory) /\ Owned(memory, none)
    BY <1>14, <2>1 DEF Sound
  <2>3. none \cup {f} = {f}
    BY <2>1
  <2> HIDE <2>1
  <2>4. Shaped(b) /\ Gains(memory, b, m, f, n) /\ Owned(b, none \cup {f})
    BY <1>6, <1>9, <1>10, <1>15, <2>2, AllocatedKeeps
  <2> QED BY <2>3, <2>4
<1> HIDE <1>4, <1>6, <1>11
<1>17. memory' = b
  BY <1>12, <1>16, RememberIs DEF Shaped
<1>18. /\ b.undefined = undefined /\ b.leaked = memory.leaked /\ b.vectors = memory.vectors
       /\ \A a \in Addresses : a # f => b.arrays[a] = memory.arrays[a]
       /\ DOMAIN b.arrays[f] = 0 .. n - 1
       /\ b.arrays[f] = [i \in 0 .. n - 1 |-> Blank[m]]
  BY <1>16, MemoryIs DEF Gains
<1>19. vectors' = vectors /\ undefined' = undefined /\ arrays' = b.arrays
  BY <1>12, <1>18, MemoryIs DEF Remember
<1>20. Others(memory, b, m) /\ vectors[m].array # f
  <2>1. ASSUME NEW p \in Objects PROVE memory.vectors[p].array # f
    <3>1. Owns(memory, p) /\ memory.vectors[p] \in Members
      BY <1>14 DEF Sound, Owned, Shaped
    <3> SUFFICES ASSUME memory.vectors[p].array = f PROVE FALSE
      OBVIOUS
    <3>2. f \notin Maps /\ f # Null
      BY <1>15, ConstantsApart
    <3>3. memory.vectors[p].capacity > 0 /\ memory.vectors[p].capacity \in Nat
      BY <1>15, <3>1, MemberIs DEF Owns
    <3>4. DOMAIN memory.arrays[f] = 0 .. memory.vectors[p].capacity - 1
      BY <3>1, <3>2 DEF Owns, Gone
    <3> QED BY <1>15, <3>3, <3>4, NotEmptyArray
  <2>2. \A p \in Objects : memory.vectors[p].array \in Addresses
    BY <1>14, MemberIs DEF Sound, Shaped
  <2> QED BY <1>9, <1>18, <2>1, <2>2 DEF Others
<1>21. Near(memory, b)
  BY <1>15, <1>18, ConstantsApart, MemoryIs DEF Near, Alive
<1>22. Making' = {f}
  BY <1>12, <1>13 DEF Making
<1>23. Shaped(memory)' /\ Owned(memory, Making)' /\ (\A o \in Objects : Fit(memory, o))'
  <2>1. \A o \in Objects : Fit(b, o)
    BY <1>18 DEF IInv, Typed, Fit
  <2> QED BY <1>7, <1>16, <1>17, <1>22, <2>1, ShapedThen
<1>24. Counted'
  <2>1. Cardinality(Alive(b)) <= Cardinality(Alive(memory)) + 1 /\ Cardinality(Alive(b)) \in Nat
    BY <1>21, NearCount, AliveFinite
  <2>2. Cardinality(Alive(b)) <= calls + 1 /\ (vectors[m].array \notin Heap => Cardinality(Alive(b)) <= calls)
    BY <1>14, <2>1 DEF IInv, Typed
  <2>3. Cardinality(Alive(memory))' = Cardinality(Alive(b)) /\ calls' = calls
    BY <1>7, <1>17
  <2> QED BY <1>12, <1>13, <1>19, <2>2, <2>3 DEF Counted
<1>25. JobTyped'
  <2>1. 0 \in 0 .. c /\ DOMAIN arrays'[f] = 0 .. 2 * c - 1
    BY <1>5, <1>9, <1>18, <1>19
  <2>2. client' = "maps" /\ vectors'[m].capacity = c
    BY <1>3, <1>7, <1>19
  <2> QED BY <1>8, <1>11, <1>12, <1>15, <2>1, <2>2 DEF JobTyped
<1>26. Typed'
  BY <1>7, <1>19, <1>23, <1>24, <1>25 DEF IInv, Typed
<1>27. m \notin copied' => Tabled(b, m, j)
  <2> SUFFICES ASSUME m \notin copied PROVE Tabled(b, m, j)
    BY <1>7
  <2>1. PICK s : s = Slots(memory, m)
    OBVIOUS
  <2>2. Entry(s, c, vectors[m].size)
    BY <1>3, <1>8, <1>9, <2>1 DEF IInv, Entries, Tabled
  <2>3. c # Power[KeyBits]
    <3> SUFFICES ASSUME c = Power[KeyBits] PROVE FALSE
      OBVIOUS
    <3>1. Searched(s, Home(k, c), k) = {k}
      BY <1>8, <2>2, SearchEnds DEF Entry
    <3>2. Searched(s, Home(k, c), k) = {}
      BY <1>7, <1>9, <2>1, Zenon DEF Find, FindNode
    <3> QED BY <3>1, <3>2
  <2>4. PICK e \in 0 .. KeyBits : c = Power[e]
    BY <2>2 DEF Entry, IsTable
  <2>5. Slots(b, m) = s /\ b.vectors[m] = vectors[m]
    BY <1>9, <1>18, <1>20, <2>1 DEF Slots
  <2>6. b.arrays[f] \in [0 .. 2 * c - 1 -> {UnusedNode, RemovedNode}]
    <3>1. Blank[m] = UnusedNode
      BY <1>8, <1>9, HashMapOK DEF Blanks
    <3> QED BY <1>5, <1>18, <3>1
  <2>7. PICK t : t = b.arrays[f]
    OBVIOUS
  <2>8. Partial(s, c, t, 0)
    BY <2>3, <2>4, <2>6, <2>7, BarePartial
  <2>9. Carrying(b, m, j)
    BY <1>3, <1>13, <2>3, <2>4, <2>5, <2>7, <2>8 DEF Carrying
  <2> QED BY <1>3, <2>2, <2>5, <2>9 DEF Tabled
<1>28. Entries'
  <2>1. client' = client /\ copied \ {m} \subseteq copied'
    BY <1>7
  <2> HIDE <1>18, <1>7
  <2> QED BY <1>8, <1>12, <1>13, <1>17, <1>20, <1>27, <2>1, EntriesNext DEF IInv
<1>29. Unseen(memory, b)
  <2> SUFFICES ASSUME NEW p \in Objects PROVE b.arrays[memory.vectors[p].array] = memory.arrays[memory.vectors[p].array]
    BY <1>18 DEF Unseen, Slots
  <2>1. CASE p = m
    BY <1>9, <1>18, <1>20, <2>1
  <2>2. CASE p # m
    BY <1>20, <2>2 DEF Others
  <2> QED BY <2>1, <2>2
<1> QED BY <1>17, <1>26, <1>28, <1>29 DEF IInv

LEMMA SetTableKeeps ==
    ASSUME IInv, client = "maps", SetTable
    PROVE  /\ IInv' /\ Others(memory, memory', job.map)
           /\ job.map \notin copied =>
                  /\ Partial(Slots(memory, job.map), vectors[job.map].capacity, Slots(memory', job.map),
                             vectors[job.map].capacity)
                  /\ memory'.vectors[job.map].capacity = 2 * vectors[job.map].capacity
<1>1. PICK m : m = job.map
  OBVIOUS
<1>2. PICK k : k = job.key
  OBVIOUS
<1>3. PICK c : c = vectors[m].capacity
  OBVIOUS
<1>4. PICK f : f = job.array
  OBVIOUS
<1>5. PICK n : n = 2 * c
  OBVIOUS
<1>6. PICK size : size = vectors[m].size
  OBVIOUS
<1>7. PICK b : b = SetBuffer(memory, m, f, size, n, TRUE)
  OBVIOUS
<1>8. PICK j : j = [at |-> "find", map |-> m, key |-> k, value |-> job.value]
  OBVIOUS
<1>9. /\ ~undefined /\ job.at = "rehash" /\ UNCHANGED <<calls, copied, client>>
      /\ job.element = Capacity(m)
      /\ job.map = m
  BY <1>1 DEF SetTable
<1>10. m \in Maps /\ k \in Keys /\ job.value \in Values /\ f \in Heap /\ DOMAIN arrays[f] = 0 .. n - 1
  BY <1>1, <1>2, <1>3, <1>4, <1>5, <1>9, JobIs DEF IInv
<1>11. /\ Suits(m) /\ m \in Objects /\ c \in Nat /\ c > 0 /\ Capacity(m) = c /\ memory.vectors[m] = vectors[m]
       /\ size \in Nat /\ size <= c /\ Size(memory, m) = size
       /\ vectors[m].array \in Addresses
  BY <1>3, <1>6, <1>10, MapIs DEF IInv
<1>12. n \in Nat /\ n > c /\ n > 0 /\ Doubled(Capacity(m)) = n
  BY <1>5, <1>11 DEF Doubled
<1>13. Remember(b) /\ job' = j
  <2>1. /\ Remember(SetBuffer(memory, job.map, job.array, Size(memory, job.map), Doubled(Capacity(job.map)), TRUE))
        /\ job' = [at |-> "find", map |-> job.map, key |-> job.key, value |-> job.value]
    BY DEF SetTable
  <2> QED BY <1>1, <1>2, <1>4, <1>7, <1>8, <1>11, <1>12, <2>1, Zenon
<1>14. j.at = "find" /\ j.map = m
  BY <1>8
<1>15. Shaped(memory) /\ Owned(memory, {f}) /\ \A o \in Objects : Fit(memory, o)
  BY <1>4, <1>9 DEF IInv, Typed, Making
<1>16. f \in Addresses
  BY <1>10, ConstantsApart
<1>17. Shaped(b) /\ Replaced(memory, b, m, f, size, n, TRUE)
  <2>1. PICK more : more = {f}
    OBVIOUS
  <2>2. Shaped(memory) /\ Owned(memory, more)
    BY <1>15, <2>1
  <2>3. TRUE \in BOOLEAN
    OBVIOUS
  <2> HIDE <2>1
  <2> QED BY <1>7, <1>11, <1>12, <1>16, <2>2, <2>3, SetBufferKeeps
<1> HIDE <1>7, <1>8
<1>18. Owned(b, {})
  <2>1. DOMAIN memory.arrays[f] = 0 .. n - 1
    BY <1>10, MemoryIs
  <2> QED BY <1>11, <1>12, <1>15, <1>17, <2>1, HandedOver
<1>19. memory' = b
  BY <1>13, <1>17, RememberIs DEF Shaped
<1>20. /\ b.undefined = undefined /\ Others(memory, b, m)
       /\ b.vectors[m].array = f /\ b.vectors[m].size = size /\ b.vectors[m].capacity = n
       /\ \A a \in Addresses :
              b.arrays[a] = IF a \in Heap /\ a = vectors[m].array THEN NoSlots ELSE arrays[a]
       /\ \A p \in Objects \ {m} : b.vectors[p] = memory.vectors[p]
  BY <1>11, <1>17, MemoryIs DEF Replaced
<1>21. undefined' = undefined /\ vectors' = b.vectors /\ ~undefined'
  BY <1>9, <1>13, <1>20 DEF Remember
<1>22. Making' = {}
  BY <1>13, <1>14 DEF Making
<1>23. Shaped(memory)' /\ Owned(memory, Making)' /\ (\A o \in Objects : Fit(memory, o))'
  <2>1. ASSUME NEW o \in Objects PROVE Fit(b, o)
    <3>1. CASE o = m
      <4>1. size <= n
        BY <1>11, <1>12
      <4> QED BY <1>20, <3>1, <4>1 DEF Fit
    <3>2. CASE o # m
      BY <1>15, <1>20, <3>2 DEF Fit
    <3> QED BY <3>1, <3>2
  <2> QED BY <1>9, <1>17, <1>18, <1>19, <1>22, <2>1, ShapedThen
<1>24. Counted'
  <2>1. PICK A : A = Alive(memory)
    OBVIOUS
  <2>2. PICK B : B = Alive(b)
    OBVIOUS
  <2>3. /\ IsFiniteSet(A) /\ Cardinality(A) \in Nat /\ Cardinality(A) <= calls + 1
        /\ vectors[m].array \notin Heap => Cardinality(A) <= calls
        /\ IsFiniteSet(B) /\ Cardinality(B) \in Nat /\ calls \in Nat
    BY <1>9, <2>1, <2>2, AliveFinite DEF IInv, Typed, Counted
  <2>4. B = A \ {vectors[m].array}
    BY <1>20, <2>1, <2>2, ConstantsApart, MemoryIs DEF Alive
  <2>5. Cardinality(B) <= calls
    <3>1. CASE vectors[m].array \in Heap
      <4>1. vectors[m].array \in A
        <5>1. Owns(memory, m) /\ memory.arrays = arrays
          BY <1>11, <1>15, MemoryIs DEF Owned
        <5>2. vectors[m].array # Null
          BY <3>1, ConstantsApart
        <5>3. DOMAIN arrays[vectors[m].array] = 0 .. c - 1
          BY <1>3, <1>11, <5>1, <5>2 DEF Owns, Gone
        <5>4. arrays[vectors[m].array] # NoSlots
          BY <1>11, <5>3, NotEmptyArray
        <5> QED BY <2>1, <3>1, <5>1, <5>4 DEF Alive
      <4>2. Cardinality(A \ {vectors[m].array}) = Cardinality(A) - 1
        BY <2>3, <4>1, FS_RemoveElement
      <4> QED BY <2>3, <2>4, <4>2
    <3>2. CASE vectors[m].array \notin Heap
      <4>1. B = A
        BY <2>1, <2>4, <3>2 DEF Alive
      <4> QED BY <2>3, <3>2, <4>1
    <3> QED BY <3>1, <3>2
  <2>6. Cardinality(Alive(memory))' <= calls'
    BY <1>9, <1>19, <2>2, <2>5
  <2>7. vectors'[job'.map].array \in Heap
    BY <1>10, <1>13, <1>14, <1>20, <1>21
  <2> QED BY <1>13, <1>14, <2>6, <2>7 DEF Counted
<1>25. JobTyped'
  BY <1>8, <1>9, <1>10, <1>13 DEF JobTyped
<1>26. Typed'
  BY <1>9, <1>13, <1>14, <1>21, <1>23, <1>24, <1>25 DEF IInv, Typed
<1>27. m \notin copied => Entry(Slots(b, m), n, size) /\ Partial(Slots(memory, m), c, Slots(b, m), c)
  <2> SUFFICES ASSUME m \notin copied
               PROVE  Entry(Slots(b, m), n, size) /\ Partial(Slots(memory, m), c, Slots(b, m), c)
    OBVIOUS
  <2>1. PICK s : s = Slots(memory, m)
    OBVIOUS
  <2>2. PICK t : t = arrays[f]
    OBVIOUS
  <2>3. Entry(s, c, size) /\ Partial(s, c, t, c)
    <3>1. Tabled(memory, m, job)
      BY <1>10 DEF IInv, Entries
    <3>2. job.element = c
      BY <1>9, <1>11
    <3> QED BY <1>3, <1>4, <1>6, <1>9, <1>11, <2>1, <2>2, <3>1, <3>2, MemoryIs DEF Tabled, Carrying
  <2>4. Slots(b, m) = t
    <3>1. vectors[m].array # f
      BY <1>10, <1>11, <1>15 DEF Owned, Loose
    <3> QED BY <1>16, <1>20, <2>2, <3>1 DEF Slots
  <2>5. Cardinality(UsedOf(t)) = Cardinality(UsedOf(s))
    <3>1. UsedOf(s) \cap (0 .. c - 1) = UsedOf(s)
      BY <2>3, UsedFinite DEF Entry
    <3>2. AsMany(s, t, c)
      BY <2>3 DEF Partial
    <3> QED BY <3>1, <3>2, Zenon DEF AsMany
  <2>6. IsTable(t, n) /\ Placed(t, n)
    BY <1>5, <2>3 DEF Partial
  <2> QED BY <2>1, <2>3, <2>4, <2>5, <2>6 DEF Entry
<1>28. m \notin copied' => Tabled(b, m, j)
  BY <1>9, <1>14, <1>20, <1>27 DEF Tabled, Carrying
<1>29. Others(memory, b, m)
  BY <1>20
<1>30. Entries'
  <2>1. client' = client /\ copied \ {m} \subseteq copied'
    BY <1>9
  <2>2. job' = j /\ (j.at = "rehash" => j.map = m)
    BY <1>13, <1>14
  <2> HIDE <1>9, <1>20
  <2> QED BY <1>10, <1>19, <1>28, <1>29, <2>1, <2>2, EntriesNext DEF IInv
<1>31. m \notin copied => Partial(Slots(memory, m), c, Slots(b, m), c) /\ b.vectors[m].capacity = 2 * c
  BY <1>5, <1>20, <1>27
<1> QED BY <1>1, <1>3, <1>19, <1>26, <1>29, <1>30, <1>31, Zenon DEF IInv

\* What a round of the loop that fills the array at f comes to.
Filling(b, f) ==
    /\ Shaped(b) /\ Owned(b, {f}) /\ b.vectors = vectors
    /\ DOMAIN b.arrays[f] = DOMAIN arrays[f] /\ Alive(b) = Alive(memory)
    /\ Others(memory, b, job.map) /\ Slots(b, job.map) = Slots(memory, job.map)

LEMMA RehashIs ==
    ASSUME Typed, client = "maps", job.at = "rehash"
    PROVE  /\ Shaped(memory) /\ Owned(memory, {job.array}) /\ IsMemory(memory)
           /\ job.array \in Addresses
           /\ \A p \in Objects : memory.vectors[p].array # job.array /\ memory.vectors[p].array \in Addresses
           /\ Filling(memory, job.array)
<1>1. Shaped(memory) /\ Owned(memory, {job.array})
  BY DEF Typed, Making
<1>2. job.array \in Addresses
  BY JobIs, ConstantsApart
<1>3. \A p \in Objects : memory.vectors[p].array # job.array
  BY <1>1 DEF Owned, Loose
<1>4. \A p \in Objects : memory.vectors[p].array \in Addresses
  BY <1>1, MemberIs DEF Shaped
<1> QED BY <1>1, <1>2, <1>3, <1>4, MemoryIs DEF Filling, Others

LEMMA CarriedKeeps ==
    ASSUME Typed, client = "maps", job.at = "rehash", NEW f, f = job.array, NEW n \in Nat,
           DOMAIN arrays[f] = 0 .. n - 1, NEW i \in 0 .. n - 1, NEW node \in Nodes,
           NEW part, part = Slot(i, node), NEW b, b = Stored(memory, f, part)
    PROVE  /\ Filling(b, f) /\ b.undefined = undefined
           /\ With(arrays[f], n, b.arrays[f], i, node)
<1>1. DOMAIN part = {i} /\ part[i] = node
  BY DEF Slot
<1>2. /\ Shaped(memory) /\ Owned(memory, {f}) /\ f \in Addresses
      /\ \A p \in Objects : memory.vectors[p].array # f /\ memory.vectors[p].array \in Addresses
  BY RehashIs
<1>3. DOMAIN part \subseteq DOMAIN memory.arrays[f] /\ \A j \in DOMAIN part : part[j] \in Contents(f)
  BY <1>1, MemoryIs DEF Contents
<1>4. /\ Shaped(b) /\ b.undefined = memory.undefined /\ b.vectors = memory.vectors
      /\ \A c \in Addresses : /\ b.arrays[c] = IF c = f THEN Over(part, memory.arrays[f]) ELSE memory.arrays[c]
                              /\ DOMAIN b.arrays[c] = DOMAIN memory.arrays[c]
                              /\ b.arrays[c] = NoSlots <=> memory.arrays[c] = NoSlots
      /\ \A more : Owned(memory, more) => Owned(b, more)
  BY <1>2, <1>3, StoredKeeps
<1>5. Others(memory, b, job.map) /\ Slots(b, job.map) = Slots(memory, job.map)
  <2>1. job.map \in Objects
    BY JobIs, ConstantsApart
  <2> QED BY <1>2, <1>4, <2>1 DEF Others, Slots
<1>6. Alive(b) = Alive(memory)
  BY <1>4, ConstantsApart DEF Alive
<1>7. With(arrays[f], n, b.arrays[f], i, node)
  <2>1. PICK t : t = arrays[f]
    OBVIOUS
  <2>2. PICK r : r = b.arrays[f]
    OBVIOUS
  <2>3. r = Over(part, t) /\ DOMAIN t = 0 .. n - 1
    BY <1>2, <1>4, <2>1, <2>2, MemoryIs
  <2>4. With(t, n, r, i, node)
    <3> HIDE <2>1, <2>2
    <3>1. r = [j \in 0 .. n - 1 |-> IF j \in {i} THEN part[j] ELSE t[j]]
      BY <1>1, <2>3, Zenon DEF Over
    <3> QED BY <1>1, <3>1 DEF With
  <2> QED BY <2>1, <2>2, <2>4, Zenon
<1> QED BY <1>2, <1>4, <1>5, <1>6, <1>7, MemoryIs DEF Filling

\* The next round: the element after it.
LEMMA RehashTyped ==
    ASSUME Typed, client = "maps", ~undefined, job.at = "rehash", job.element < vectors[job.map].capacity,
           UNCHANGED <<calls, copied, client>>,
           NEW f, f = job.array, NEW j, j = [job EXCEPT !.element = job.element + 1], job' = j,
           NEW b, Filling(b, f), memory' = b, b.undefined => job.map \in copied
    PROVE  Typed' /\ j.at = "rehash" /\ j.map = job.map /\ j.array = f /\ j.element = job.element + 1
<1>1. PICK m : m = job.map
  OBVIOUS
<1>2. PICK e : e = job.element
  OBVIOUS
<1>3. PICK c : c = vectors[m].capacity
  OBVIOUS
<1>4. /\ m \in Maps /\ job.key \in Keys /\ job.value \in Values
      /\ f \in Heap /\ e \in 0 .. c /\ DOMAIN arrays[f] = 0 .. 2 * c - 1
      /\ job = [at |-> "rehash", map |-> m, key |-> job.key, value |-> job.value, array |-> f, element |-> e]
  BY <1>1, <1>2, <1>3, JobIs
<1>5. c \in Nat
  BY <1>3, <1>4, MapIs
<1>6. j = [at |-> "rehash", map |-> m, key |-> job.key, value |-> job.value, array |-> f, element |-> e + 1]
  BY <1>2, <1>4
<1>7. j.at = "rehash" /\ j.map = m /\ j.array = f /\ j.element = e + 1
  BY <1>6
<1>8. vectors' = vectors /\ undefined' = b.undefined /\ arrays' = b.arrays
  <2>1. vectors' = b.vectors /\ undefined' = b.undefined /\ arrays' = b.arrays
    BY DEF memory
  <2> QED BY <2>1 DEF Filling
<1>9. Making' = {f}
  BY <1>7 DEF Making
<1>10. Shaped(memory)' /\ Owned(memory, Making)' /\ (\A o \in Objects : Fit(memory, o))'
  <2>1. \A o \in Objects : Fit(b, o)
    BY MemoryIs DEF Typed, Fit, Filling
  <2>2. Shaped(b) /\ Owned(b, {f})
    BY DEF Filling
  <2>3. client' = client
    OBVIOUS
  <2> QED BY <1>9, <2>1, <2>2, <2>3, ShapedThen
<1>11. Counted'
  <2>1. Cardinality(Alive(memory))' = Cardinality(Alive(memory)) /\ calls' = calls
    BY DEF Filling
  <2>2. /\ Cardinality(Alive(memory)) <= calls + 1
        /\ vectors[m].array \notin Heap => Cardinality(Alive(memory)) <= calls
    BY <1>1 DEF Typed, Counted
  <2> QED BY <1>7, <1>8, <2>1, <2>2 DEF Counted
<1>12. JobTyped'
  <2>1. e + 1 \in 0 .. c
    BY <1>1, <1>2, <1>3, <1>4, <1>5
  <2>2. vectors'[m].capacity = c /\ DOMAIN arrays'[f] = 0 .. 2 * c - 1 /\ client' = "maps"
    BY <1>3, <1>4, <1>8 DEF Filling
  <2> QED BY <1>4, <1>6, <2>1, <2>2 DEF JobTyped
<1>13. Typed'
  <2>1. undefined' => copied' # {} /\ (job'.at = "rehash" => job'.map \in copied')
    BY <1>1, <1>7, <1>8
  <2>2. client' = client /\ copied' = copied /\ calls' = calls
    OBVIOUS
  <2> QED BY <1>10, <1>11, <1>12, <2>1, <2>2 DEF Typed
<1> QED BY <1>1, <1>2, <1>7, <1>13

\* The node found for the slot e of s is put into t, or the node is passed.
LEMMA RehashKeeps ==
    ASSUME IInv, client = "maps", Rehash
    PROVE  IInv' /\ Unseen(memory, memory')
<1>1. PICK m : m = job.map
  OBVIOUS
<1>2. PICK e : e = job.element
  OBVIOUS
<1>3. PICK c : c = vectors[m].capacity
  OBVIOUS
<1>4. PICK f : f = job.array
  OBVIOUS
<1>5. PICK n : n = 2 * c
  OBVIOUS
<1>6. PICK s : s = Slots(memory, m)
  OBVIOUS
<1>7. PICK t : t = arrays[f]
  OBVIOUS
<1>8. PICK node : node = s[e]
  OBVIOUS
<1>9. PICK j : j = [job EXCEPT !.element = job.element + 1]
  OBVIOUS
<1>10. /\ ~undefined /\ job.at = "rehash" /\ UNCHANGED <<calls, copied, client>> /\ job' = j
       /\ e < Capacity(m)
       /\ Remember(IF node.state # "UNUSED" THEN Carried(memory, f, node) ELSE memory)
  BY <1>1, <1>2, <1>4, <1>6, <1>8, <1>9, Zenon DEF Rehash
<1> HIDE <1>9
<1>11. /\ m \in Maps /\ f \in Heap /\ e \in 0 .. c /\ DOMAIN t = 0 .. n - 1
       /\ Capacity(m) = c /\ c \in Nat /\ c > 0 /\ n \in Nat /\ memory.vectors[m] = vectors[m]
       /\ DOMAIN s = 0 .. c - 1 /\ s \in [0 .. c - 1 -> Nodes]
  <2>1. m \in Maps /\ f \in Heap /\ e \in 0 .. c /\ DOMAIN t = 0 .. n - 1
    BY <1>1, <1>2, <1>3, <1>4, <1>5, <1>7, <1>10, JobIs DEF IInv
  <2> QED BY <1>3, <1>5, <1>6, <2>1, MapIs DEF IInv
<1>12. e < c /\ e \in 0 .. c - 1 /\ node \in Nodes
  BY <1>8, <1>10, <1>11
<1>13. /\ Shaped(memory) /\ IsMemory(memory) /\ Filling(memory, f) /\ memory.arrays = arrays
       /\ memory.undefined = undefined
  BY <1>4, <1>10, RehashIs, MemoryIs DEF IInv
<1>14. PICK h : h = Home(node.key, n)
  OBVIOUS
<1>15. FindNode(arrays[f], Cardinality(DOMAIN arrays[f]), node.key) = Searched(t, h, node.key)
  <2>1. Cardinality(0 .. n - 1) = n
    <3>1. n - 1 \in Int /\ 0 \in Int /\ (IF 0 > n - 1 THEN 0 ELSE n - 1 - 0 + 1) = n
      BY <1>11
    <3>2. Cardinality(0 .. n - 1) = IF 0 > n - 1 THEN 0 ELSE n - 1 - 0 + 1
      BY <3>1, FS_Interval
    <3> QED BY <3>1, <3>2
  <2>2. Cardinality(DOMAIN arrays[f]) = n
    BY <1>7, <1>11, <2>1, Zenon
  <2> QED BY <1>7, <1>14, <2>2, Zenon DEF FindNode
<1>16. m \notin copied => /\ Entry(s, c, vectors[m].size) /\ Partial(s, c, t, e)
                          /\ \E q \in 0 .. KeyBits : q # KeyBits /\ c = Power[q]
  <2> SUFFICES ASSUME m \notin copied
               PROVE  /\ Entry(s, c, vectors[m].size) /\ Partial(s, c, t, e)
                      /\ \E q \in 0 .. KeyBits : q # KeyBits /\ c = Power[q]
    OBVIOUS
  <2>1. Tabled(memory, m, job)
    BY <1>11 DEF IInv, Entries
  <2> QED BY <1>1, <1>2, <1>3, <1>4, <1>6, <1>7, <1>10, <1>11, <1>13, <2>1 DEF Tabled, Carrying
<1>17. \E b : /\ IsMemory(b) /\ Remember(b) /\ Filling(b, f)
              /\ b.undefined => m \in copied
              /\ m \notin copied => Partial(s, c, b.arrays[f], e + 1)
  <2>1. CASE node.state = "UNUSED"
    <3>1. Remember(memory)
      BY <1>10, <2>1
    <3>2. m \notin copied => Partial(s, c, t, e + 1)
      <4> SUFFICES ASSUME m \notin copied PROVE Partial(s, c, t, e + 1)
        OBVIOUS
      <4>1. s[e].state # "USED" /\ IsTable(s, c) /\ Partial(s, c, t, e) /\ IsTable(t, 2 * c) /\ Placed(t, 2 * c)
        BY <1>8, <1>16, <2>1 DEF Entry, Partial
      <4> QED BY <1>12, <4>1, CarryOther
    <3> QED BY <1>7, <1>10, <1>13, <3>1, <3>2
  <2>2. CASE node.state # "UNUSED"
    <3>1. PICK found : found = Searched(t, h, node.key)
      OBVIOUS
    <3>2. Remember(Carried(memory, f, node))
      BY <1>10, <2>2
    <3>3. CASE found = {}
      <4>1. PICK b : b = [memory EXCEPT !.undefined = TRUE]
        OBVIOUS
      <4>2. Remember(b)
        BY <1>13, <1>15, <3>1, <3>2, <3>3, <4>1, Zenon DEF Carried
      <4>3. /\ IsMemory(b) /\ b.vectors = memory.vectors /\ b.arrays = memory.arrays
            /\ b.leaked = memory.leaked /\ b.undefined
        BY <1>13, <4>1, Zenon DEF IsMemory
      <4> HIDE <4>1
      <4>4. Filling(b, f)
        <5>1. /\ Shaped(b) /\ \A o : Others(memory, b, o)
              /\ \A more : Owned(memory, more) => Owned(b, more)
          BY <1>13, <4>3, NowhereKeeps
        <5>2. Alive(b) = Alive(memory) /\ Slots(b, job.map) = Slots(memory, job.map)
          BY <4>3 DEF Alive, Slots
        <5> QED BY <1>13, <4>3, <5>1, <5>2 DEF Filling
      <4>5. m \in copied
        <5> SUFFICES ASSUME m \notin copied PROVE FALSE
          OBVIOUS
        <5>1. PICK q \in 0 .. KeyBits : q # KeyBits /\ c = Power[q]
          BY <1>16
        <5>2. IsTable(s, c) /\ Placed(s, c) /\ Partial(s, c, t, e)
          BY <1>16 DEF Entry
        <5>3. CASE node.state = "USED"
          <6>1. \E i \in 0 .. 2 * c - 1 : Searched(t, Home(node.key, 2 * c), node.key) = {i}
            BY <1>8, <1>12, <5>1, <5>2, <5>3, CarryFinds
          <6> QED BY <1>5, <1>14, <3>1, <3>3, <6>1
        <5>4. CASE node.state # "USED"
          <6>1. node.key = AllOnes
            BY <1>12, <2>2, <5>4, NodeIs
          <6>2. Searched(t, Home(AllOnes, 2 * c), AllOnes) = {2 * c - 1}
            BY <1>8, <1>12, <5>1, <5>2, <5>4, CarryRemoved
          <6> QED BY <1>5, <1>14, <3>1, <3>3, <6>1, <6>2
        <5> QED BY <5>3, <5>4
      <4> QED BY <4>2, <4>3, <4>4, <4>5
    <3>4. CASE found # {}
      <4>1. PICK i : i \in found
        BY <3>4
      <4>2. found = {i} /\ i \in 0 .. n - 1
        BY <1>11, <3>1, <4>1, SearchedIn
      <4>3. PICK part : part = Slot(i, node)
        OBVIOUS
      <4>4. PICK b : b = Stored(memory, f, part)
        OBVIOUS
      <4>5. Remember(b)
        <5>1. Carried(memory, f, node) = Stored(memory, f, [p \in found |-> node])
          BY <1>13, <1>15, <3>1, <3>4, Zenon DEF Carried
        <5>2. [p \in found |-> node] = part
          BY <4>2, <4>3, Zenon DEF Slot
        <5> QED BY <3>2, <4>4, <5>1, <5>2, Zenon
      <4>6. Filling(b, f) /\ b.undefined = undefined /\ With(t, n, b.arrays[f], i, node)
        BY <1>4, <1>7, <1>10, <1>11, <1>12, <4>2, <4>3, <4>4, CarriedKeeps DEF IInv
      <4> HIDE <4>3, <4>4
      <4>7. IsMemory(b)
        BY <4>6 DEF Filling, Shaped
      <4>8. PICK r : r = b.arrays[f]
        OBVIOUS
      <4>9. m \notin copied => Partial(s, c, r, e + 1)
        <5> SUFFICES ASSUME m \notin copied PROVE Partial(s, c, r, e + 1)
          OBVIOUS
        <5>1. PICK q \in 0 .. KeyBits : q # KeyBits /\ c = Power[q]
          BY <1>16
        <5>2. IsTable(s, c) /\ Placed(s, c) /\ Partial(s, c, t, e)
          BY <1>16 DEF Entry
        <5>3. Searched(t, Home(node.key, 2 * c), node.key) = {i} /\ With(t, 2 * c, r, i, node)
          BY <1>5, <1>14, <3>1, <4>2, <4>6, <4>8
        <5>4. CASE node.state = "USED"
          <6>1. PICK x \in 0 .. 2 * c - 1 : /\ Searched(t, Home(node.key, 2 * c), node.key) = {x}
                                            /\ t[x].state # "USED" /\ (x <= e \/ (c <= x /\ x <= c + e))
            BY <1>8, <1>12, <5>1, <5>2, <5>4, CarryFinds
          <6>2. x = i
            BY <5>3, <6>1
          <6>3. t[i].state # "USED" /\ (i <= e \/ (c <= i /\ i <= c + e)) /\ i \in 0 .. 2 * c - 1
            BY <6>1, <6>2
          <6> QED BY <1>8, <1>12, <5>1, <5>2, <5>3, <5>4, <6>3, CarryUsed
        <5>5. CASE node.state # "USED"
          <6>1. node = RemovedNode /\ node.key = AllOnes
            BY <1>12, <2>2, <5>5, NodeIs
          <6>2. /\ Searched(t, Home(AllOnes, 2 * c), AllOnes) = {2 * c - 1}
                /\ \A z : With(t, 2 * c, z, 2 * c - 1, RemovedNode) => Partial(s, c, z, e + 1)
            BY <1>8, <1>12, <5>1, <5>2, <5>5, CarryRemoved
          <6>3. i = 2 * c - 1
            BY <5>3, <6>1, <6>2
          <6> QED BY <5>3, <6>1, <6>2, <6>3
        <5> QED BY <5>4, <5>5
      <4> QED BY <1>10, <4>5, <4>6, <4>7, <4>8, <4>9
    <3> QED BY <3>3, <3>4
  <2> QED BY <2>1, <2>2
<1>18. PICK b : /\ IsMemory(b) /\ Remember(b) /\ Filling(b, f)
                /\ b.undefined => m \in copied
                /\ m \notin copied => Partial(s, c, b.arrays[f], e + 1)
  BY <1>17
<1>19. memory' = b
  BY <1>18, RememberIs
<1>20. Typed' /\ j.at = "rehash" /\ j.map = m /\ j.array = f /\ j.element = e + 1
  <2>1. job.element < vectors[job.map].capacity
    BY <1>1, <1>2, <1>3, <1>12
  <2> QED BY <1>1, <1>2, <1>4, <1>9, <1>10, <1>18, <1>19, <2>1, RehashTyped DEF IInv
<1>21. m \notin copied' => Tabled(b, m, j)
  <2> SUFFICES ASSUME m \notin copied PROVE Tabled(b, m, j)
    BY <1>10
  <2>1. Slots(b, m) = s /\ b.vectors = vectors
    BY <1>1, <1>6, <1>18 DEF Filling
  <2>2. PICK q \in 0 .. KeyBits : q # KeyBits /\ c = Power[q]
    BY <1>16
  <2>3. Entry(s, c, vectors[m].size) /\ Partial(s, c, b.arrays[f], e + 1)
    BY <1>16, <1>18
  <2>4. Carrying(b, m, j)
    BY <1>3, <1>20, <2>1, <2>2, <2>3 DEF Carrying
  <2> QED BY <1>3, <2>1, <2>3, <2>4 DEF Tabled
<1>22. Entries'
  <2>1. client' = client /\ copied \ {m} \subseteq copied' /\ job' = j
    BY <1>10
  <2>2. Others(memory, b, m)
    BY <1>1, <1>18 DEF Filling
  <2> HIDE <1>10, <1>18
  <2> QED BY <1>11, <1>19, <1>20, <1>21, <2>1, <2>2, EntriesNext DEF IInv
<1>23. Unseen(memory, b)
  BY <1>1, <1>18, MemoryIs DEF Filling, Others, Slots, Unseen
<1> QED BY <1>19, <1>20, <1>22, <1>23 DEF IInv

-----------------------------------------------------------------------------
(* The invariant *)

LEMMA MapKeeps ==
    ASSUME IInv, client = "maps", MapNext
    PROVE  IInv'
<1>1. ASSUME NEW m \in Maps, NEW k \in Keys, NEW x \in Values, AddEntry(m, k, x)
      PROVE  IInv'
  BY <1>1, AddEntryKeeps
<1>2. ASSUME NEW m \in Maps, NEW n \in Maps, CopyMap(m, n)
      PROVE  IInv'
  BY <1>2, CopyMapKeeps
<1>3. ASSUME NEW m \in Maps, ClearMap(m)
      PROVE  IInv'
  BY <1>3, ClearMapKeeps
<1>4. ASSUME NEW m \in Maps, RenewMap(m)
      PROVE  IInv'
  BY <1>4, RenewMapKeeps
<1>5. CASE Found
  BY <1>5, FoundKeeps
<1>6. CASE Grow
  BY <1>6, GrowKeeps
<1>7. CASE Rehash
  BY <1>7, RehashKeeps
<1>8. CASE SetTable
  BY <1>8, SetTableKeeps
<1> QED BY <1>1, <1>2, <1>3, <1>4, <1>5, <1>6, <1>7, <1>8 DEF MapNext

LEMMA StutterKeeps ==
    ASSUME IInv, UNCHANGED vars
    PROVE  IInv'
<1>1. /\ vectors' = vectors /\ arrays' = arrays /\ leaked' = leaked /\ undefined' = undefined /\ calls' = calls
      /\ copied' = copied /\ client' = client /\ job' = job
  BY DEF vars, vectorVars, mapVars
<1>2. memory' = memory /\ Making' = Making
  BY <1>1 DEF memory, Making
<1>3. Shaped(memory)' /\ Owned(memory, Making)' /\ (\A o \in Objects : Fit(memory, o))'
  BY <1>1, <1>2, ShapedThen DEF IInv, Typed
<1>4. Counted' <=> Counted
  BY <1>1, <1>2 DEF Counted
<1>5. JobTyped' <=> JobTyped
  BY <1>1 DEF JobTyped
<1>6. Typed'
  BY <1>1, <1>3, <1>4, <1>5 DEF IInv, Typed
<1>7. Entries'
  BY <1>1, <1>2, Zenon DEF IInv, Entries
<1> QED BY <1>6, <1>7 DEF IInv

LEMMA NextKeeps ==
    ASSUME IInv, [Next]_vars
    PROVE  IInv'
<1>1. CASE client = "vectors" /\ VectorNext /\ UNCHANGED mapVars
  <2>1. Typed'
    BY <1>1, VectorKeeps DEF IInv
  <2>2. client' = "vectors"
    BY <1>1 DEF mapVars
  <2>3. Entries'
    BY <2>2 DEF Entries
  <2> QED BY <2>1, <2>3 DEF IInv
<1>2. CASE client = "maps" /\ MapNext
  BY <1>2, MapKeeps
<1>3. CASE UNCHANGED vars
  BY <1>3, StutterKeeps
<1> QED BY <1>1, <1>2, <1>3 DEF Next

LEMMA InitKeeps ==
    ASSUME Init
    PROVE  IInv
<1>1. /\ vectors = [o \in Objects |-> IF o \in Maps THEN NewMap(o) ELSE NewVector]
      /\ arrays = [a \in {Null} \cup Heap \cup Maps |-> IF a \in Maps THEN StackSlots ELSE NoSlots]
      /\ leaked = {} /\ ~undefined /\ undefined \in BOOLEAN /\ calls = 0 /\ copied = {}
      /\ client \in {"vectors", "maps"} /\ job = NoJob
  BY DEF Init
<1>2. /\ memory.vectors = vectors /\ memory.arrays = arrays /\ memory.leaked = leaked
      /\ memory.undefined = undefined /\ IsMemory(memory)
  BY MemoryIs
<1>3. /\ \A o \in Maps : vectors[o] = NewMap(o)
      /\ \A o \in Objects \ Maps : vectors[o] = NewVector
      /\ \A a \in Maps : arrays[a] = StackSlots
      /\ \A a \in Heap \cup {Null} : arrays[a] = NoSlots
  BY <1>1, ConstantsApart
<1>4. /\ NewVector \in Members /\ NewVector.array = Null /\ NewVector.capacity = 0 /\ NewVector.size = 0
      /\ NewVector.heap = TRUE
  <2>1. Null \in Addresses /\ 0 \in Nat /\ TRUE \in BOOLEAN
    BY ConstantsApart
  <2> QED BY <2>1, MemberIs DEF NewVector
<1>5. vectors \in [Objects -> Members]
  <2>1. ASSUME NEW o \in Objects PROVE (IF o \in Maps THEN NewMap(o) ELSE NewVector) \in Members
    BY <1>4, StackIs
  <2> QED BY <1>1, <2>1
<1>6. arrays = [a \in Addresses |-> arrays[a]]
  BY <1>1 DEF Addresses
<1>7. \A a \in Addresses : IsArray(a, arrays[a])
  <2> SUFFICES ASSUME NEW a \in Addresses PROVE IsArray(a, arrays[a])
    OBVIOUS
  <2>1. CASE a \in Maps
    BY <1>3, <2>1, StackIs
  <2>2. CASE a \notin Maps
    <3>1. arrays[a] = NoSlots
      BY <1>3, <2>2 DEF Addresses
    <3> QED BY <3>1, EmptyArray
  <2> QED BY <2>1, <2>2
<1>8. Shaped(memory)
  BY <1>1, <1>2, <1>5, <1>6, <1>7, Zenon DEF Shaped
<1>9. ASSUME NEW o \in Objects PROVE Owns(memory, o) /\ Fit(memory, o)
  <2>1. CASE o \in Maps
    <3>1. /\ vectors[o].array = o /\ vectors[o].capacity = StackCapacity /\ vectors[o].size = 0
          /\ vectors[o].heap = FALSE /\ arrays[o] = StackSlots
      BY <1>3, <2>1, StackIs
    <3>2. StackCapacity \in Nat /\ StackCapacity > 0 /\ DOMAIN StackSlots = 0 .. StackCapacity - 1
      BY StackIs
    <3>3. o \notin Heap /\ o # Null /\ 0 <= StackCapacity
      BY <2>1, <3>2, ConstantsApart
    <3>4. Fit(memory, o)
      BY <1>2, <3>1, <3>3 DEF Fit
    <3> QED BY <1>2, <2>1, <3>1, <3>2, <3>3, <3>4 DEF Owns
  <2>2. CASE o \notin Maps
    <3>1. /\ vectors[o].array = Null /\ vectors[o].capacity = 0 /\ vectors[o].size = 0
          /\ vectors[o].heap = TRUE /\ arrays[Null] = NoSlots
      BY <1>3, <1>4, <2>2
    <3>2. DOMAIN arrays[Null] = 0 .. 0 - 1 /\ Null \notin Heap
      BY <3>1, EmptyArray, ConstantsApart
    <3>3. 0 <= 0
      OBVIOUS
    <3>4. Fit(memory, o)
      BY <1>2, <3>1, <3>3 DEF Fit
    <3> QED BY <1>2, <2>2, <3>1, <3>2, <3>4 DEF Owns
  <2> QED BY <2>1, <2>2
<1>10. Making = {} /\ job.at = "return"
  BY <1>1 DEF Making, NoJob
<1>11. Owned(memory, {})
  <2>1. \A o \in Objects : vectors[o].array = Null \/ (o \in Maps /\ vectors[o].array = o)
    BY <1>3, <1>4, StackIs
  <2>2. \A o, p \in Objects : vectors[o].array = vectors[p].array => o = p \/ vectors[o].array = Null
    BY <2>1
  <2>3. memory.arrays[Null] = NoSlots /\ \A a \in Heap : memory.arrays[a] = NoSlots
    BY <1>2, <1>3
  <2>4. leaked \cup {} = {} /\ leaked \cap {} = {}
    BY <1>1
  <2> QED BY <1>2, <1>9, <2>2, <2>3, <2>4 DEF Owned
<1>12. Counted
  <2>1. Alive(memory) = {}
    BY <1>2, <1>3 DEF Alive
  <2>2. Cardinality(Alive(memory)) = 0
    BY <2>1, FS_EmptySet
  <2> QED BY <1>1, <1>10, <2>2 DEF Counted
<1>13. Typed
  <2>1. 0 \in 0 .. MaxCalls
    BY VectorOK
  <2> QED BY <1>1, <1>8, <1>9, <1>10, <1>11, <1>12, <2>1 DEF Typed, JobTyped
<1>14. Entries
  <2> SUFFICES ASSUME NEW m \in Maps PROVE Tabled(memory, m, job)
    BY DEF Entries
  <2>1. /\ Slots(memory, m) = StackSlots
        /\ memory.vectors[m].capacity = StackCapacity /\ memory.vectors[m].size = 0
    BY <1>2, <1>3, StackIs DEF Slots
  <2>2. PICK n \in 0 .. KeyBits : StackCapacity = Power[n]
    BY StackIs
  <2>3. PICK s : s = StackSlots
    OBVIOUS
  <2>4. IsTable(s, StackCapacity) /\ Placed(s, StackCapacity) /\ Cardinality(UsedOf(s)) = 0
    BY <2>2, <2>3, StackIs, BarePlaced
  <2> QED BY <1>10, <2>1, <2>3, <2>4 DEF Tabled, Entry, Carrying
<1> QED BY <1>13, <1>14 DEF IInv

\* The arrays and the tables: each call of a vector or of a map, and each round of add(),
\* keeps what the two properties rest on (vector.hpp, hash_map.hpp).
THEOREM Invariance == Spec => []IInv
<1>1. Init => IInv
  BY InitKeeps
<1>2. IInv /\ [Next]_vars => IInv'
  BY NextKeeps
<1> QED BY <1>1, <1>2, PTL DEF Spec

LEMMA NodeTyped ==
    Nodes \subseteq [key : Keys \cup {Unset, AllOnes}, value : Values \cup {Unset, AllOnes},
                     state : {"REMOVED", "UNUSED", "USED"}]
BY DEF Nodes, UnusedNode, RemovedNode

LEMMA TypesHold ==
    ASSUME IInv
    PROVE  TypeOK
<1>1. /\ memory.vectors = vectors /\ memory.arrays = arrays
      /\ Shaped(memory)
  BY MemoryIs DEF IInv, Typed
<1>2. DOMAIN arrays = Addresses
  <2>1. arrays = [a \in Addresses |-> arrays[a]]
    BY <1>1 DEF Shaped
  <2> QED BY <2>1
<1>3. ASSUME NEW o \in Objects
      PROVE  /\ vectors[o].array \in DOMAIN arrays
             /\ vectors[o].capacity \in Nat /\ vectors[o].size \in Nat /\ vectors[o].heap \in BOOLEAN
  <2>1. vectors[o] \in Members
    BY <1>1 DEF Shaped
  <2> QED BY <1>2, <2>1, MemberIs
<1>4. ASSUME NEW a \in DOMAIN arrays, NEW i \in DOMAIN arrays[a]
      PROVE  IF client = "vectors" /\ a \notin Maps
             THEN arrays[a][i] \in Values \cup {Unset}
             ELSE arrays[a][i] \in [key : Keys \cup {Unset, AllOnes}, value : Values \cup {Unset, AllOnes},
                                    state : {"REMOVED", "UNUSED", "USED"}]
  <2>1. IsArray(a, arrays[a])
    BY <1>1, <1>2 DEF Shaped
  <2>2. arrays[a][i] \in Contents(a)
    BY <2>1 DEF IsArray
  <2>3. CASE client = "vectors" /\ a \notin Maps
    BY <2>2, <2>3 DEF Contents
  <2>4. CASE ~(client = "vectors" /\ a \notin Maps)
    <3>1. arrays[a][i] \in Nodes
      BY <2>2, <2>4 DEF Contents
    <3> QED BY <2>4, <3>1, NodeTyped
  <2> QED BY <2>3, <2>4
<1>5. calls \in 0 .. MaxCalls /\ copied \subseteq Maps
  BY DEF IInv, Typed
<1>6. job.at \in {"return", "find", "rehash"}
  BY DEF IInv, Typed, JobTyped, NoJob
<1> QED BY <1>3, <1>4, <1>5, <1>6 DEF TypeOK

\* Arrays: whatever is called, one after the other, of as many vectors and maps
\* as there are, each array of new[] is the array of one of them, lost by the moving
\* assignment or being filled by add(), and as long as it says (set_buffer, reserve, operator=).
THEOREM ArraysStayOwned == Spec => []ArraysOwned
<1>1. ASSUME IInv PROVE ArraysOwned
  <2>1. /\ memory.vectors = vectors /\ memory.arrays = arrays /\ memory.leaked = leaked
        /\ Owned(memory, Making) /\ \A o \in Objects : Fit(memory, o)
    BY <1>1, MemoryIs DEF IInv, Typed
  <2>2. TypeOK
    BY <1>1, TypesHold
  <2>3. ASSUME NEW o \in Objects
        PROVE  MovedFrom(o) \/ /\ DOMAIN arrays[vectors[o].array] = 0 .. vectors[o].capacity - 1
                               /\ vectors[o].size <= vectors[o].capacity
    BY <2>1 DEF Owned, Owns, Fit, Gone, MovedFrom
  <2>4. \A o, p \in Objects : vectors[o].array = vectors[p].array => o = p \/ vectors[o].array = Null
    BY <2>1 DEF Owned
  <2>5. ASSUME NEW a \in Heap, arrays[a] # NoSlots
        PROVE  \/ a \in leaked /\ \A o \in Objects : vectors[o].array # a
               \/ \E o \in Objects : vectors[o].array = a /\ vectors[o].heap
               \/ job.at = "rehash" /\ job.array = a
    <3>1. CASE a \in leaked
      BY <2>1, <3>1 DEF Owned, Loose
    <3>2. CASE a \in Making
      BY <3>2 DEF Making
    <3>3. CASE a \notin leaked \cup Making
      <4>1. PICK o \in Objects : vectors[o].array = a
        BY <2>1, <2>5, <3>3 DEF Owned
      <4>2. Owns(memory, o) /\ a \notin Maps
        BY <2>1, ConstantsApart DEF Owned
      <4>3. vectors[o].heap
        BY <2>1, <4>1, <4>2 DEF Owns
      <4> QED BY <4>1, <4>3
    <3> QED BY <3>1, <3>2, <3>3
  <2>6. undefined => copied # {}
    BY <1>1 DEF IInv, Typed
  <2> QED BY <2>2, <2>3, <2>4, <2>5, <2>6 DEF ArraysOwned
<1> QED BY <1>1, Invariance, PTL

\* Tables: for keys of any number of bits and tables doubled any number of times,
\* each entry of a map that no assignment has written is where find_node looks for its
\* key and is counted once, and add() meets no null node (find_node, reserve, add).
THEOREM EntriesStayFound == Spec => []EntriesFound
<1>1. ASSUME IInv PROVE EntriesFound
  <2> SUFFICES ASSUME client = "maps", NEW m \in Maps \ copied
               PROVE  /\ \A i \in Used(m) : Find(m, Slots(memory, m)[i].key) = {i}
                      /\ Size(memory, m) = Cardinality(Used(m))
                      /\ undefined /\ job.at = "rehash" => job.map # m
    BY DEF EntriesFound
  <2>1. PICK s : s = Slots(memory, m)
    OBVIOUS
  <2>2. PICK c : c = vectors[m].capacity
    OBVIOUS
  <2>3. memory.vectors = vectors
    BY MemoryIs
  <2>4. Entry(s, c, vectors[m].size)
    BY <1>1, <2>1, <2>2, <2>3 DEF IInv, Entries, Tabled
  <2>5. Used(m) = UsedOf(s)
    BY <2>1 DEF Used, UsedOf
  <2>6. ASSUME NEW i \in UsedOf(s) PROVE Find(m, s[i].key) = {i}
    <3>1. Searched(s, Home(s[i].key, c), s[i].key) = {i}
      BY <2>4 DEF Entry, Placed
    <3> QED BY <2>1, <2>2, <3>1, Zenon DEF Find, FindNode, Capacity
  <2>7. Size(memory, m) = Cardinality(UsedOf(s))
    BY <2>3, <2>4 DEF Entry, Size
  <2>8. undefined /\ job.at = "rehash" => job.map # m
    BY <1>1 DEF IInv, Typed
  <2> QED BY <2>1, <2>5, <2>6, <2>7, <2>8
<1> QED BY <1>1, Invariance, PTL

-----------------------------------------------------------------------------
(* What the operations of Vector do to the elements *)

LEMMA VectorIs ==
    ASSUME NEW m, Sound(m), NEW o, Suits(o), client = "vectors"
    PROVE  /\ o \in Vectors /\ o \in Objects /\ o \in DOMAIN m.vectors /\ IsMemory(m)
           /\ m.vectors[o] \in Members /\ m.vectors[o].array \in Addresses
           /\ m.vectors[o].capacity \in Nat /\ m.vectors[o].size \in Nat /\ Size(m, o) \in Nat
           /\ DOMAIN m.arrays = Addresses
           /\ Elem = Values \cup {Unset}
<1>1. o \in Vectors /\ o \in Objects
  BY ConstantsApart DEF Suits
<1>2. Shaped(m)
  BY DEF Sound
<1>3. m.vectors[o] \in Members /\ o \in DOMAIN m.vectors /\ IsMemory(m) /\ DOMAIN m.arrays = Addresses
  BY <1>1, <1>2 DEF Shaped
<1> QED BY <1>1, <1>3, MemberIs DEF Size, Elem

\* The elements as a sequence
LEMMA ElementsIs ==
    ASSUME NEW m, Sound(m), NEW o, Suits(o), client = "vectors", NEW s, s = Elements(m, o)
    PROVE  /\ s \in Seq(Values \cup {Unset}) /\ Len(s) = Size(m, o) /\ DOMAIN s = 1 .. Size(m, o)
           /\ Size(m, o) \in Nat
           /\ \A i \in 1 .. Size(m, o) : s[i] = Element(m, o, i - 1) /\ s[i] \in Values \cup {Unset}
<1>1. Size(m, o) \in Nat /\ Elem = Values \cup {Unset}
  BY VectorIs
<1>2. \A i : Element(m, o, i) \in Values \cup {Unset}
  BY <1>1, VectorElement
<1>3. s = [i \in 1 .. Size(m, o) |-> Element(m, o, i - 1)]
  BY DEF Elements
<1>4. s \in [1 .. Size(m, o) -> Values \cup {Unset}]
  BY <1>2, <1>3
<1>5. s \in Seq(Values \cup {Unset})
  BY <1>1, <1>4, SeqDef
<1>6. Len(s) = Size(m, o)
  BY <1>1, <1>3, <1>5, LenProperties
<1> QED BY <1>1, <1>2, <1>3, <1>5, <1>6

LEMMA SizedElement ==
    ASSUME NEW m, Sound(m), NEW o, Suits(o), client = "vectors", NEW n \in Nat, NEW b, b = Sized(m, o, n)
    PROVE  Size(b, o) = n /\ \A i : Element(b, o, i) = Element(m, o, i)
<1>1. Shaped(m) /\ o \in Objects
  BY VectorIs DEF Sound
<1>2. b.arrays = m.arrays /\ b.vectors[o].array = m.vectors[o].array /\ b.vectors[o].size = n
  BY <1>1, SizedKeeps
<1> QED BY <1>2, Zenon DEF Element, Slots, Size

LEMMA WrittenElement ==
    ASSUME NEW m, Sound(m), NEW o, Suits(o), client = "vectors", NEW part,
           DOMAIN part \subseteq DOMAIN Slots(m, o), \A i \in DOMAIN part : part[i] \in Elem,
           NEW b, b = Written(m, o, part)
    PROVE  /\ Size(b, o) = Size(m, o) /\ Others(m, b, o)
           /\ \A i : Element(b, o, i) = IF i \in DOMAIN part THEN part[i] ELSE Element(m, o, i)
<1>1. Overwritten(m, b, o, part)
  BY SoundWritten
<1>2. /\ b.vectors = m.vectors /\ Others(m, b, o) /\ DOMAIN Slots(b, o) = DOMAIN Slots(m, o)
      /\ \A i \in DOMAIN Slots(m, o) : Slots(b, o)[i] = IF i \in DOMAIN part THEN part[i] ELSE Slots(m, o)[i]
  BY <1>1 DEF Overwritten
<1>3. ASSUME NEW i PROVE Element(b, o, i) = IF i \in DOMAIN part THEN part[i] ELSE Element(m, o, i)
  BY <1>2 DEF Element
<1> QED BY <1>2, <1>3 DEF Size

\* o has the elements it had in m.
Kept(m, b, o) == \A i \in 0 .. Size(m, o) - 1 : Element(b, o, i) = Element(m, o, i)

\* Nobody has set an element of o.
Fresh(b, o) == \A i : Element(b, o, i) = Unset

LEMMA ReservedElements ==
    ASSUME NEW m, NEW o, Callable(m, o), client = "vectors", NEW n \in Nat,
           NEW copy \in BOOLEAN, NEW b, b = Reserved(m, o, n, copy)
    PROVE  /\ Size(b, o) = Size(m, o)
           /\ n <= m.vectors[o].capacity => b = m
           /\ copy => Kept(m, b, o)
           /\ ~copy /\ n > m.vectors[o].capacity => Fresh(b, o)
<1>1. Sound(m) /\ Suits(o) /\ ~Gone(m.vectors[o]) /\ Cardinality(Alive(m)) < MaxArrays
  BY DEF Callable
<1>2. /\ o \in Vectors /\ o \in Objects /\ o \in DOMAIN m.vectors /\ IsMemory(m) /\ DOMAIN m.arrays = Addresses
      /\ m.vectors[o].capacity \in Nat /\ Size(m, o) \in Nat
  BY <1>1, VectorIs
<1>3. /\ Size(m, o) <= m.vectors[o].capacity
      /\ DOMAIN Slots(m, o) = 0 .. m.vectors[o].capacity - 1
  BY <1>1, SizeFits
<1>4. CASE n <= m.vectors[o].capacity
  <2>1. b = m
    BY <1>4, Zenon DEF Reserved
  <2> QED BY <1>2, <1>4, <2>1 DEF Kept
<1>5. CASE n > m.vectors[o].capacity
  <2>1. PICK f : f = FreeAddress(m)
    OBVIOUS
  <2>2. f \in Heap /\ m.arrays[f] = NoSlots /\ f \in DOMAIN m.arrays
    BY <1>1, <1>2, <2>1, FreeAddressIs, ConstantsApart
  <2>3. f # m.vectors[o].array
    <3>1. Owns(m, o)
      BY <1>1, <1>2 DEF Sound, Owned
    <3>2. ASSUME f = m.vectors[o].array PROVE FALSE
      <4>1. m.vectors[o].capacity > 0
        BY <2>2, <3>1, <3>2 DEF Owns
      <4>2. DOMAIN m.arrays[f] = 0 .. m.vectors[o].capacity - 1
        BY <1>3, <3>2 DEF Slots
      <4> QED BY <1>2, <2>2, <4>1, <4>2, NotEmptyArray
    <3> QED BY <3>2
  <2>4. PICK a : a = Allocated(m, f, o, n)
    OBVIOUS
  <2>5. IsMemory(a) /\ a.vectors = m.vectors /\ a.arrays = [m.arrays EXCEPT ![f] = [i \in 0 .. n - 1 |-> Blank[o]]]
    BY <1>2, <2>4, Zenon DEF IsMemory, Allocated
  <2>6. Blank[o] = Unset
    BY <1>2, ConstantsApart, HashMapOK DEF Blanks
  <2>7. /\ a.arrays[f] = [i \in 0 .. n - 1 |-> Unset] /\ DOMAIN a.arrays[f] = 0 .. n - 1
        /\ \A i \in 0 .. n - 1 : a.arrays[f][i] = Unset
        /\ a.arrays[m.vectors[o].array] = m.arrays[m.vectors[o].array]
        /\ f \in DOMAIN a.arrays
    BY <2>2, <2>3, <2>5, <2>6
  <2>8. (\A i : Element(a, o, i) = Element(m, o, i)) /\ Size(a, o) = Size(m, o)
    BY <2>5, <2>7, Zenon DEF Element, Slots, Size
  <2>9. PICK d : d = IF copy /\ a.vectors[o].array # Null THEN Copied(a, f, o) ELSE a
    OBVIOUS
  <2>10. b = SetBuffer(d, o, f, Size(m, o), n, TRUE)
    <3>1. b = Moved(a, o, f, n, copy)
      <4>1. ~ (n <= m.vectors[o].capacity)
        BY <1>2, <1>5
      <4> QED BY <2>1, <2>4, <4>1, Zenon DEF Reserved
    <3> QED BY <2>8, <2>9, <3>1, Zenon DEF Moved
  <2>11. /\ IsMemory(d) /\ d.vectors = m.vectors /\ DOMAIN d.arrays[f] = 0 .. n - 1 /\ f \in DOMAIN d.arrays
         /\ copy => \A i \in 0 .. Size(m, o) - 1 : d.arrays[f][i] = Element(m, o, i)
         /\ ~copy => \A i \in 0 .. n - 1 : d.arrays[f][i] = Unset
    <3>1. CASE copy /\ a.vectors[o].array # Null
      <4>1. PICK part : part = [i \in 0 .. Size(m, o) - 1 |-> Element(m, o, i)]
        OBVIOUS
      <4>2. d = Stored(a, f, part)
        <5>1. [i \in 0 .. Size(a, o) - 1 |-> Element(a, o, i)] = part
          BY <2>8, <4>1
        <5> QED BY <2>9, <3>1, <5>1, Zenon DEF Copied
      <4>3. DOMAIN part = 0 .. Size(m, o) - 1 /\ \A i \in 0 .. Size(m, o) - 1 : part[i] = Element(m, o, i)
        BY <4>1
      <4>4. 0 .. Size(m, o) - 1 \subseteq 0 .. n - 1
        BY <1>2, <1>3, <1>5
      <4>5. /\ IsMemory(d) /\ d.vectors = a.vectors /\ d.arrays = [a.arrays EXCEPT ![f] = Over(part, a.arrays[f])]
        <5>1. DOMAIN part \subseteq DOMAIN a.arrays[f] /\ IsMemory(a)
          BY <2>5, <2>7, <4>3, <4>4
        <5> QED BY <4>2, <5>1, Zenon DEF IsMemory, Stored
      <4>6. d.arrays[f] = Over(part, a.arrays[f]) /\ f \in DOMAIN d.arrays
        BY <2>7, <4>5
      <4>7. Over(part, a.arrays[f]) =
                [i \in 0 .. n - 1 |-> IF i \in DOMAIN part THEN part[i] ELSE a.arrays[f][i]]
        BY <2>7 DEF Over
      <4> QED BY <2>5, <3>1, <4>3, <4>4, <4>5, <4>6, <4>7
    <3>2. CASE ~ (copy /\ a.vectors[o].array # Null)
      <4>1. d = a
        BY <2>9, <3>2
      <4>2. copy => Size(m, o) = 0
        BY <1>1, <1>2, <1>3, <2>5, <3>2 DEF Gone
      <4>3. copy => 0 .. Size(m, o) - 1 = {}
        BY <4>2
      <4> QED BY <2>5, <2>7, <4>1, <4>3
    <3> QED BY <3>1, <3>2
  <2>12. /\ b.vectors[o].array = f /\ b.vectors[o].size = Size(m, o)
         /\ b.arrays[f] = d.arrays[f]
    <3>1. PICK old : old = d.vectors[o]
      OBVIOUS
    <3>2. /\ b.vectors = [d.vectors EXCEPT ![o] =
                  [array |-> f, capacity |-> n, size |-> Size(m, o), heap |-> TRUE]]
          /\ b.arrays = [d.arrays EXCEPT ![old.array] = IF old.array # Null /\ old.heap THEN NoSlots ELSE @]
      <4> HIDE <2>1, <2>4, <2>9
      <4> QED BY <2>10, <2>11, <3>1, Zenon DEF IsMemory, SetBuffer
    <3>3. old.array # f
      BY <2>3, <2>11, <3>1
    <3>4. o \in DOMAIN d.vectors
      BY <1>2, <2>11
    <3> QED BY <3>2, <3>3, <3>4
  <2>13. \A i : Element(b, o, i) = IF i \in 0 .. n - 1 THEN d.arrays[f][i] ELSE Unset
    BY <2>11, <2>12 DEF Element, Slots
  <2>14. 0 .. Size(m, o) - 1 \subseteq 0 .. n - 1
    BY <1>2, <1>3, <1>5
  <2>15. Size(b, o) = Size(m, o)
    BY <2>12 DEF Size
  <2>16. copy => \A i \in 0 .. Size(m, o) - 1 : Element(b, o, i) = Element(m, o, i)
    BY <2>11, <2>13, <2>14
  <2>17. ~copy => \A i : Element(b, o, i) = Unset
    BY <2>11, <2>13
  <2>18. copy => Kept(m, b, o)
    BY <2>16, Zenon DEF Kept
  <2>19. ~copy => Fresh(b, o)
    BY <2>17, Zenon DEF Fresh
  <2> QED BY <1>2, <1>5, <2>15, <2>18, <2>19
<1> QED BY <1>2, <1>4, <1>5

-----------------------------------------------------------------------------
(* Sequences *)

\* The sequence a vector holds, in a memory
Content(m, v) == IF Gone(m.vectors[v]) THEN Unspecified ELSE Elements(m, v)

\* b is what Collections lets one call make of v.
Changes(m, b, v) ==
    \/ Content(b, v) = Content(m, v)
    \/ Content(b, v) = <<>>
    \/ /\ ~Gone(m.vectors[v]) /\ ~Gone(b.vectors[v])
       /\ \/ Abstract!ChangedSeq(Elements(m, v), Elements(b, v))
          \/ \E w \in Vectors :
                 /\ ~Gone(m.vectors[w])
                 /\ Elements(b, v) \in {Elements(m, w), Elements(m, v) \o Elements(m, w)}

\* All that v keeps is as it was.
LEMMA KeptChanges ==
    ASSUME NEW m, NEW b, Sound(m), Sound(b), NEW o, Suits(o), client = "vectors",
           ~Gone(m.vectors[o]), ~Gone(b.vectors[o]),
           \A i \in 0 .. Size(m, o) - 1 : i < Size(b, o) => Element(b, o, i) = Element(m, o, i)
    PROVE  Changes(m, b, o)
<1>1. PICK s, t : s = Elements(m, o) /\ t = Elements(b, o)
  OBVIOUS
<1>2. /\ DOMAIN s = 1 .. Size(m, o) /\ Size(m, o) \in Nat
      /\ \A i \in 1 .. Size(m, o) : s[i] = Element(m, o, i - 1)
  BY <1>1, ElementsIs
<1>3. /\ DOMAIN t = 1 .. Size(b, o) /\ Size(b, o) \in Nat
      /\ \A i \in 1 .. Size(b, o) : t[i] = Element(b, o, i - 1)
  BY <1>1, ElementsIs
<1>4. ASSUME NEW i \in DOMAIN s \cap DOMAIN t PROVE t[i] = s[i]
  <2>1. i - 1 \in 0 .. Size(m, o) - 1 /\ i - 1 < Size(b, o) /\ i \in 1 .. Size(m, o) /\ i \in 1 .. Size(b, o)
    BY <1>2, <1>3
  <2> QED BY <1>2, <1>3, <2>1
<1>5. Abstract!ChangedSeq(s, t)
  BY <1>4 DEF Abstract!ChangedSeq, Abstract!Resized
<1> QED BY <1>1, <1>5, Zenon DEF Changes

LEMMA GrownElements ==
    ASSUME NEW m, NEW o, Callable(m, o), client = "vectors", NEW n \in Nat, NEW b, b = Grown(m, o, n)
    PROVE  Size(b, o) = Size(m, o) /\ Kept(m, b, o)
<1>1. CASE n > m.vectors[o].capacity
  <2>1. PICK k \in Nat : k = 2 * n
    OBVIOUS
  <2>2. b = Reserved(m, o, k, TRUE)
    BY <1>1, <2>1, Zenon DEF Grown
  <2> QED BY <2>2, ReservedElements
<1>2. CASE ~ (n > m.vectors[o].capacity)
  <2>1. b = m
    BY <1>2, Zenon DEF Grown
  <2> QED BY <2>1 DEF Kept
<1> QED BY <1>1, <1>2

LEMMA GrownSizedElements ==
    ASSUME NEW m, NEW o, Callable(m, o), client = "vectors", NEW n \in Nat,
           NEW b, b = Sized(Grown(m, o, n), o, n)
    PROVE  Size(b, o) = n /\ Kept(m, b, o)
<1>1. PICK g : g = Grown(m, o, n)
  OBVIOUS
<1>2. Sound(g) /\ Suits(o)
  BY <1>1, SoundGrown DEF Callable
<1>3. Kept(m, g, o)
  BY <1>1, GrownElements
<1>4. b = Sized(g, o, n)
  BY <1>1, Zenon
<1>5. Size(b, o) = n /\ \A i : Element(b, o, i) = Element(g, o, i)
  <2> HIDE <1>1
  <2> QED BY <1>2, <1>4, SizedElement
<1> QED BY <1>3, <1>5 DEF Kept, Fresh

LEMMA ReservedSizedElements ==
    ASSUME NEW m, NEW o, Callable(m, o), client = "vectors", NEW n \in Nat, NEW copy \in BOOLEAN,
           NEW b, b = Sized(Reserved(m, o, n, copy), o, n)
    PROVE  /\ Size(b, o) = n
           /\ copy \/ n <= m.vectors[o].capacity => Kept(m, b, o)
           /\ ~copy /\ n > m.vectors[o].capacity => Fresh(b, o)
<1>1. PICK g : g = Reserved(m, o, n, copy)
  OBVIOUS
<1>2. Sound(g) /\ Suits(o)
  BY <1>1, SoundReserved DEF Callable
<1>3. /\ n <= m.vectors[o].capacity => g = m
      /\ copy => Kept(m, g, o)
      /\ ~copy /\ n > m.vectors[o].capacity => Fresh(g, o)
  BY <1>1, ReservedElements
<1>4. b = Sized(g, o, n)
  BY <1>1, Zenon
<1>5. Size(b, o) = n /\ \A i : Element(b, o, i) = Element(g, o, i)
  <2> HIDE <1>1
  <2> QED BY <1>2, <1>4, SizedElement
<1> QED BY <1>3, <1>5 DEF Kept, Fresh

LEMMA ExpandedToElements ==
    ASSUME NEW m, NEW o, Callable(m, o), client = "vectors", NEW index \in Nat, NEW b, b = ExpandedTo(m, o, index)
    PROVE  Kept(m, b, o)
<1>1. CASE Size(m, o) <= index
  <2>1. PICK n \in Nat : n = index + 1
    OBVIOUS
  <2>2. b = Sized(Reserved(m, o, n, TRUE), o, n)
    BY <1>1, <2>1, Zenon DEF ExpandedTo
  <2> QED BY <2>2, ReservedSizedElements
<1>2. CASE ~ (Size(m, o) <= index)
  <2>1. b = m
    BY <1>2, Zenon DEF ExpandedTo
  <2> QED BY <2>1 DEF Kept
<1> QED BY <1>1, <1>2

\* Writing into o after a function that gave it n elements.
LEMMA PutElements ==
    ASSUME NEW m, NEW b, NEW o, Suits(o), client = "vectors", NEW n \in Nat, Result(m, b, o, n), NEW part,
           DOMAIN part \subseteq 0 .. n - 1, \A i \in DOMAIN part : part[i] \in Elem,
           NEW c, c = Written(b, o, part)
    PROVE  /\ Size(c, o) = n
           /\ \A i : Element(c, o, i) = IF i \in DOMAIN part THEN part[i] ELSE Element(b, o, i)
<1>1. Sound(b) /\ ~Gone(b.vectors[o]) /\ Size(b, o) = n
  BY DEF Result, Size
<1>2. DOMAIN part \subseteq DOMAIN Slots(b, o)
  BY <1>1, SizeFits
<1> QED BY <1>1, <1>2, WrittenElement

-----------------------------------------------------------------------------
(* What the calls of a vector come to *)

\* A call that makes b of m changes only v, and as it may.
Effect(m, b, v) == Sound(b) /\ Others(m, b, v) /\ Changes(m, b, v)

LEMMA SameEffect ==
    ASSUME NEW m, Sound(m), NEW o
    PROVE  Effect(m, m, o)
BY DEF Effect, Others, Changes

LEMMA KeptEffect ==
    ASSUME NEW m, NEW b, NEW o, Callable(m, o), client = "vectors", NEW n \in Nat, Result(m, b, o, n), Kept(m, b, o)
    PROVE  Effect(m, b, o)
<1>1. Sound(b) /\ Others(m, b, o) /\ ~Gone(b.vectors[o])
  BY DEF Result
<1>2. Sound(m) /\ Suits(o) /\ ~Gone(m.vectors[o])
  BY DEF Callable
<1>3. Changes(m, b, o)
  BY <1>1, <1>2, KeptChanges DEF Kept
<1> QED BY <1>1, <1>3 DEF Effect

\* Nothing is written but behind the elements o had.
LEMMA BehindEffect ==
    ASSUME NEW m, NEW b, NEW o, Callable(m, o), client = "vectors", NEW n \in Nat, Result(m, b, o, n), Kept(m, b, o),
           NEW part, DOMAIN part \subseteq Size(m, o) .. n - 1, \A i \in DOMAIN part : part[i] \in Elem,
           NEW c, c = Written(b, o, part)
    PROVE  Effect(m, c, o)
<1>1. Suits(o) /\ Size(m, o) \in Nat
  BY CallableIs DEF Callable
<1>2. DOMAIN part \subseteq 0 .. n - 1
  BY <1>1
<1>3. Result(m, c, o, n)
  BY <1>1, <1>2, ResultPut
<1>4. \A i : Element(c, o, i) = IF i \in DOMAIN part THEN part[i] ELSE Element(b, o, i)
  BY <1>1, <1>2, PutElements
<1>5. \A i \in 0 .. Size(m, o) - 1 : i \notin DOMAIN part
  BY <1>1
<1>6. Kept(m, c, o)
  BY <1>4, <1>5 DEF Kept
<1> QED BY <1>3, <1>6, KeptEffect

LEMMA AddedEffect ==
    ASSUME NEW m, NEW o, Callable(m, o), client = "vectors", NEW b, b = Added(m, o)
    PROVE  /\ Effect(m, b, o) /\ Kept(m, b, o)
           /\ \A x \in Elem : Effect(m, Written(b, o, Slot(Size(m, o), x)), o)
<1>1. PICK n \in Nat : n = Size(m, o) + 1
  BY CallableIs
<1>2. b = Sized(Grown(m, o, n), o, n)
  BY <1>1, Zenon DEF Added
<1>3. Result(m, b, o, n) /\ Kept(m, b, o)
  BY <1>2, GrownSized, GrownSizedElements
<1>4. Effect(m, b, o)
  BY <1>3, KeptEffect
<1>5. ASSUME NEW x \in Elem PROVE Effect(m, Written(b, o, Slot(Size(m, o), x)), o)
  <2>0. PICK part : part = Slot(Size(m, o), x)
    OBVIOUS
  <2>1. DOMAIN part = {Size(m, o)} /\ part[Size(m, o)] = x
    BY <2>0 DEF Slot
  <2>2. Size(m, o) \in Nat
    BY CallableIs
  <2>3. DOMAIN part \subseteq Size(m, o) .. n - 1
    BY <1>1, <2>1, <2>2
  <2>4. \A i \in DOMAIN part : part[i] \in Elem
    BY <2>1, <1>5
  <2> HIDE <1>2
  <2> QED BY <1>3, <2>0, <2>3, <2>4, BehindEffect
<1> QED BY <1>3, <1>4, <1>5

LEMMA ExpandedToEffect ==
    ASSUME NEW m, NEW o, Callable(m, o), client = "vectors", NEW index \in Nat, NEW b, b = ExpandedTo(m, o, index)
    PROVE  /\ Effect(m, b, o)
           /\ \A x \in Elem : Effect(m, Filled(b, o, Size(m, o), x), o)
           /\ Size(m, o) <= index => \A x \in Elem : Effect(m, Written(b, o, Slot(index, x)), o)
<1>0. Size(m, o) \in Nat
  BY CallableIs
<1>1. PICK n \in Nat : n = IF Size(m, o) <= index THEN index + 1 ELSE Size(m, o)
  BY <1>0
<1>2. Result(m, b, o, n) /\ Kept(m, b, o)
  BY <1>1, ExpandedToKeeps, ExpandedToElements
<1>3. Effect(m, b, o)
  BY <1>2, KeptEffect
<1>4. Size(b, o) = n
  BY <1>2 DEF Result, Size
<1>5. ASSUME NEW part, DOMAIN part \subseteq Size(m, o) .. n - 1, \A i \in DOMAIN part : part[i] \in Elem,
             NEW c, c = Written(b, o, part)
      PROVE  Effect(m, c, o)
  BY <1>2, <1>5, BehindEffect
<1>6. ASSUME NEW x \in Elem
      PROVE  Effect(m, Filled(b, o, Size(m, o), x), o)
  <2>1. PICK part : part = [i \in Size(m, o) .. Size(b, o) - 1 |-> x]
    OBVIOUS
  <2>2. DOMAIN part \subseteq Size(m, o) .. n - 1 /\ \A i \in DOMAIN part : part[i] \in Elem
    BY <1>4, <2>1
  <2>3. Filled(b, o, Size(m, o), x) = Written(b, o, part)
    BY <2>1, Zenon DEF Filled
  <2> QED BY <1>5, <2>2, <2>3
<1>7. ASSUME NEW x \in Elem, Size(m, o) <= index
      PROVE  Effect(m, Written(b, o, Slot(index, x)), o)
  <2>3. PICK part : part = Slot(index, x)
    OBVIOUS
  <2>1. DOMAIN part = {index} /\ part[index] = x
    BY <2>3 DEF Slot
  <2>2. DOMAIN part \subseteq Size(m, o) .. n - 1 /\ \A i \in DOMAIN part : part[i] \in Elem
    BY <1>0, <1>1, <1>7, <2>1
  <2> QED BY <1>5, <2>2, <2>3
<1> QED BY <1>3, <1>4, <1>6, <1>7

LEMMA InsertedIs ==
    ASSUME NEW S, NEW s \in Seq(S), NEW i \in 1 .. Len(s), NEW x \in S, NEW t \in Seq(S), Len(t) = Len(s) + 1,
           \A j \in 1 .. Len(t) : t[j] = IF j < i THEN s[j] ELSE IF j = i THEN x ELSE s[j - 1]
    PROVE  t = Abstract!InsertAt(s, i, x)
<1>1. PICK front : front = SubSeq(s, 1, i - 1)
  OBVIOUS
<1>2. PICK back : back = SubSeq(s, i, Len(s))
  OBVIOUS
<1>3. PICK n \in Nat : n = Len(s)
  OBVIOUS
<1>4. /\ front \in Seq(S) /\ Len(front) = i - 1 /\ \A j \in 1 .. i - 1 : front[j] = s[j]
      /\ back \in Seq(S) /\ Len(back) = n - i + 1 /\ \A j \in 1 .. n - i + 1 : back[j] = s[i + j - 1]
  BY <1>1, <1>2, <1>3
<1>5. PICK u : u = front \o <<x>> \o back
  OBVIOUS
<1>6. /\ u \in Seq(S) /\ Len(u) = n + 1
      /\ \A j \in 1 .. n + 1 : u[j] = IF j < i THEN s[j] ELSE IF j = i THEN x ELSE s[j - 1]
  <2> HIDE <1>1, <1>2
  <2>1. PICK v : v = front \o <<x>>
    OBVIOUS
  <2>2. v \in Seq(S) /\ Len(v) = i /\ v[i] = x /\ \A j \in 1 .. i - 1 : v[j] = s[j]
    <3>1. PICK e : e = <<x>>
      OBVIOUS
    <3>2. e \in Seq(S) /\ Len(e) = 1 /\ e[1] = x
      BY <3>1
    <3>3. v = front \o e
      BY <2>1, <3>1
    <3> HIDE <2>1, <3>1
    <3>4. v \in Seq(S) /\ Len(v) = Len(front) + Len(e)
      BY <1>4, <3>2, <3>3, ConcatProperties
    <3>5. \A j \in 1 .. Len(front) + Len(e) : v[j] = IF j <= Len(front) THEN front[j] ELSE e[j - Len(front)]
      BY <1>4, <3>2, <3>3, ConcatProperties
    <3>6. i \in Nat /\ i >= 1 /\ i - (i - 1) = 1 /\ ~ (i <= i - 1) /\ (i - 1) + 1 = i
      OBVIOUS
    <3>7. Len(front) = i - 1 /\ Len(e) = 1 /\ Len(front) + Len(e) = i
      BY <1>4, <3>2, <3>6
    <3>8. v[i] = x
      <4>1. i \in 1 .. Len(front) + Len(e) /\ ~ (i <= Len(front)) /\ i - Len(front) = 1
        BY <3>6, <3>7
      <4>2. v[i] = e[i - Len(front)]
        BY <3>5, <4>1
      <4> QED BY <3>2, <4>1, <4>2
    <3>9. ASSUME NEW j \in 1 .. i - 1 PROVE v[j] = s[j]
      <4>1. j \in 1 .. i /\ j <= i - 1
        BY <3>6
      <4>2. v[j] = front[j]
        BY <3>5, <3>7, <4>1
      <4> QED BY <1>4, <4>2
    <3> QED BY <3>4, <3>7, <3>8, <3>9
  <2>3. u = v \o back
    BY <1>5, <2>1
  <2> HIDE <2>1
  <2>4. /\ u \in Seq(S) /\ Len(u) = n + 1
        /\ \A j \in 1 .. n + 1 : u[j] = IF j <= i THEN v[j] ELSE back[j - i]
    <3>0. v \in Seq(S) /\ back \in Seq(S) /\ Len(v) = i /\ Len(back) = n - i + 1
      BY <1>4, <2>2
    <3>1. /\ u \in Seq(S) /\ Len(u) = Len(v) + Len(back)
          /\ \A j \in 1 .. Len(v) + Len(back) : u[j] = IF j <= Len(v) THEN v[j] ELSE back[j - Len(v)]
      BY <2>3, <3>0, ConcatProperties
    <3>2. Len(v) + Len(back) = n + 1
      BY <1>3, <3>0
    <3> QED BY <2>2, <3>1, <3>2
  <2>5. ASSUME NEW j \in 1 .. n + 1 PROVE u[j] = IF j < i THEN s[j] ELSE IF j = i THEN x ELSE s[j - 1]
    <3>1. CASE j <= i
      <4>1. u[j] = v[j]
        BY <2>4, <3>1
      <4>2. j < i => j \in 1 .. i - 1
        BY <1>3
      <4> QED BY <1>3, <2>2, <3>1, <4>1, <4>2
    <3>2. CASE j > i
      <4>1. u[j] = back[j - i]
        BY <1>3, <2>4, <3>2
      <4>2. j - i \in 1 .. n - i + 1 /\ i + (j - i) - 1 = j - 1
        BY <1>3, <3>2
      <4>3. back[j - i] = s[j - 1]
        BY <1>3, <1>4, <4>2
      <4> QED BY <3>2, <4>1, <4>3
    <3> QED BY <3>1, <3>2, <1>3
  <2> QED BY <2>4, <2>5
<1>7. t = u
  BY <1>3, <1>6
<1>8. Abstract!InsertAt(s, i, x) = u
  BY <1>1, <1>2, <1>5, Zenon DEF Abstract!InsertAt
<1> QED BY <1>7, <1>8

LEMMA OpenedEffect ==
    ASSUME NEW m, NEW o, Callable(m, o), client = "vectors", NEW index \in Nat, NEW a, a = Opened(m, o, index),
           NEW x \in Elem, NEW c, c = Written(a, o, Slot(index, x))
    PROVE  Effect(m, c, o)
<1>0. Size(m, o) \in Nat /\ Sound(m) /\ Suits(o) /\ ~Gone(m.vectors[o]) /\ Elem = Values \cup {Unset}
  BY CallableIs DEF Callable, Elem
<1>1. CASE Size(m, o) <= index
  <2>1. a = ExpandedTo(m, o, index)
    BY <1>1, Zenon DEF Opened
  <2> QED BY <1>1, <2>1, ExpandedToEffect
<1>2. CASE index < Size(m, o)
  <2>1. PICK n \in Nat : n = Size(m, o) + 1
    BY <1>0
  <2>2. PICK g : g = Added(m, o)
    OBVIOUS
  <2>3. Result(m, g, o, n) /\ Kept(m, g, o)
    BY <2>1, <2>2, AddedKeeps, AddedEffect
  <2>4. Sound(g) /\ Size(g, o) = n
    BY <2>3 DEF Result, Size
  <2>5. PICK part : part = [i \in index + 1 .. Size(g, o) - 1 |-> Element(g, o, i - 1)]
    OBVIOUS
  <2>6. a = Written(g, o, part)
    <3>1. ~ (Size(m, o) <= index)
      BY <1>0, <1>2
    <3>2. a = Shifted(g, o, index)
      BY <2>2, <3>1, Zenon DEF Opened
    <3> QED BY <2>5, <3>2, Zenon DEF Shifted
  <2>7. /\ DOMAIN part = index + 1 .. n - 1
        /\ \A i \in index + 1 .. n - 1 : part[i] = Element(g, o, i - 1) /\ part[i] \in Elem
    <3>1. \A i : Element(g, o, i) \in Elem
      BY <1>0, <2>4, VectorElement
    <3> QED BY <2>4, <2>5, <3>1
  <2>8. DOMAIN part \subseteq 0 .. n - 1 /\ \A i \in DOMAIN part : part[i] \in Elem
    BY <2>7
  <2>9. Result(m, a, o, n)
    <3> HIDE <2>2, <2>5
    <3> QED BY <1>0, <2>3, <2>6, <2>8, ResultPut
  <2>10. \A i : Element(a, o, i) = IF i \in DOMAIN part THEN part[i] ELSE Element(g, o, i)
    <3> HIDE <2>2, <2>5
    <3> QED BY <1>0, <2>3, <2>6, <2>8, PutElements
  <2>11. PICK put : put = Slot(index, x)
    OBVIOUS
  <2>12. DOMAIN put = {index} /\ put[index] = x
    BY <2>11 DEF Slot
  <2>13. DOMAIN put \subseteq 0 .. n - 1 /\ \A i \in DOMAIN put : put[i] \in Elem
    BY <1>0, <1>2, <2>1, <2>12
  <2>14. Result(m, c, o, n) /\ Size(c, o) = n /\ \A i : Element(c, o, i) = IF i \in DOMAIN put THEN put[i] ELSE Element(a, o, i)
    <3>1. c = Written(a, o, put)
      BY <2>11, Zenon
    <3> HIDE <2>2, <2>5, <2>11
    <3> QED BY <1>0, <2>9, <2>13, <3>1, ResultPut, PutElements
  <2>15. Sound(c) /\ Others(m, c, o) /\ ~Gone(c.vectors[o])
    BY <2>14 DEF Result
  <2>16. PICK s, t : s = Elements(m, o) /\ t = Elements(c, o)
    OBVIOUS
  <2>17. /\ s \in Seq(Elem) /\ Len(s) = Size(m, o)
         /\ \A i \in 1 .. Size(m, o) : s[i] = Element(m, o, i - 1)
    BY <1>0, <2>16, ElementsIs
  <2>18. /\ t \in Seq(Elem) /\ Len(t) = n
         /\ \A i \in 1 .. n : t[i] = Element(c, o, i - 1)
    BY <1>0, <2>14, <2>15, <2>16, ElementsIs
  <2>19. ASSUME NEW j \in 1 .. n
         PROVE  t[j] = IF j < index + 1 THEN s[j] ELSE IF j = index + 1 THEN x ELSE s[j - 1]
    <3>1. t[j] = IF j - 1 = index THEN x ELSE Element(a, o, j - 1)
      BY <2>12, <2>14, <2>18
    <3>2. CASE j < index + 1
      <4>1. j - 1 \notin index + 1 .. n - 1 /\ j - 1 # index /\ j - 1 \in 0 .. Size(m, o) - 1 /\ j \in 1 .. Size(m, o)
        BY <1>0, <1>2, <2>1, <3>2
      <4>2. t[j] = Element(g, o, j - 1)
        BY <2>7, <2>10, <3>1, <4>1
      <4>3. t[j] = Element(m, o, j - 1)
        BY <2>3, <4>1, <4>2 DEF Kept
      <4> QED BY <2>17, <3>2, <4>1, <4>3
    <3>3. CASE j = index + 1
      BY <3>1, <3>3
    <3>4. CASE j > index + 1
      <4>1. /\ j - 1 \in index + 1 .. n - 1 /\ j - 1 # index /\ (j - 1) - 1 \in 0 .. Size(m, o) - 1
            /\ j - 1 \in 1 .. Size(m, o)
        BY <1>0, <1>2, <2>1, <3>4
      <4>2. t[j] = Element(g, o, (j - 1) - 1)
        BY <2>7, <2>10, <3>1, <4>1
      <4>3. t[j] = Element(m, o, (j - 1) - 1)
        BY <2>3, <4>1, <4>2 DEF Kept
      <4>4. t[j] = s[j - 1]
        BY <2>17, <4>1, <4>3
      <4> QED BY <3>4, <4>4
    <3> QED BY <3>2, <3>3, <3>4
  <2>20. index + 1 \in 1 .. Len(s) /\ Len(t) = Len(s) + 1
    BY <1>0, <1>2, <2>1, <2>17, <2>18
  <2>21. t = Abstract!InsertAt(s, index + 1, x)
    <3>1. PICK k \in 1 .. Len(s) : k = index + 1
      BY <2>20
    <3>2. \A j \in 1 .. Len(t) : t[j] = IF j < k THEN s[j] ELSE IF j = k THEN x ELSE s[j - 1]
      BY <2>18, <2>19, <3>1
    <3>3. t = Abstract!InsertAt(s, k, x)
      <4> HIDE <2>2, <2>5, <2>11, <2>16, <3>1
      <4> QED BY <2>17, <2>18, <2>20, <3>2, InsertedIs
    <3> QED BY <3>1, <3>3
  <2>22. t \in Abstract!Insertions(s)
    BY <1>0, <2>20, <2>21 DEF Abstract!Insertions, Abstract!Elements
  <2>23. Abstract!ChangedSeq(s, t)
    BY <2>22 DEF Abstract!ChangedSeq
  <2>24. Changes(m, c, o)
    BY <1>0, <2>15, <2>16, <2>23, Zenon DEF Changes
  <2> QED BY <2>15, <2>24 DEF Effect
<1> QED BY <1>0, <1>1, <1>2

LEMMA RemovedIndexEffect ==
    ASSUME NEW m, NEW o, Callable(m, o), client = "vectors", NEW index \in Nat, NEW b, b = RemovedIndex(m, o, index)
    PROVE  Effect(m, b, o)
<1>0. Size(m, o) \in Nat /\ Sound(m) /\ Suits(o) /\ ~Gone(m.vectors[o]) /\ Elem = Values \cup {Unset}
  BY CallableIs DEF Callable, Elem
<1>1. CASE index < Size(m, o)
  <2>1. PICK n \in Nat : n = Size(m, o) - 1
    BY <1>0, <1>1
  <2>2. PICK a : a = Sized(m, o, n)
    OBVIOUS
  <2>3. PICK x : x = Element(m, o, n)
    OBVIOUS
  <2>4. PICK part : part = Slot(index, x)
    OBVIOUS
  <2>5. b = Written(a, o, part)
    <3>1. b = Written(Sized(m, o, Size(m, o) - 1), o, Slot(index, Element(m, o, Size(m, o) - 1)))
      BY <1>1, Zenon DEF RemovedIndex
    <3> QED BY <2>1, <2>2, <2>3, <2>4, <3>1, Zenon
  <2>6. /\ Size(m, o) <= m.vectors[o].capacity /\ m.vectors[o].capacity \in Nat
        /\ DOMAIN Slots(m, o) = 0 .. m.vectors[o].capacity - 1
    BY <1>0, SizeFits
  <2>7. Sound(a) /\ Others(m, a, o) /\ ~Gone(a.vectors[o]) /\ a.vectors[o].capacity = m.vectors[o].capacity
    <3>1. n <= m.vectors[o].capacity
      BY <1>0, <2>1, <2>6
    <3>2. Near(m, m)
      BY CallableIs DEF Result
    <3> QED BY <1>0, <2>2, <3>1, <3>2, SoundCut
  <2>8. Size(a, o) = n /\ \A i : Element(a, o, i) = Element(m, o, i)
    <3> HIDE <2>3, <2>4
    <3> QED BY <1>0, <2>2, SizedElement
  <2>9. /\ DOMAIN part = {index} /\ part[index] = x /\ x \in Elem
        /\ DOMAIN part \subseteq DOMAIN Slots(a, o) /\ \A i \in DOMAIN part : part[i] \in Elem
    <3>1. x \in Elem
      BY <1>0, <2>3, VectorElement
    <3>2. DOMAIN part = {index} /\ part[index] = x
      BY <2>4 DEF Slot
    <3>3. DOMAIN Slots(a, o) = 0 .. a.vectors[o].capacity - 1
      BY <1>0, <2>7, SizeFits
    <3> QED BY <1>0, <1>1, <2>6, <2>7, <3>1, <3>2, <3>3
  <2>10. /\ Size(b, o) = n /\ Others(a, b, o)
         /\ \A i : Element(b, o, i) = IF i = index THEN x ELSE Element(m, o, i)
    <3>1. /\ Size(b, o) = Size(a, o) /\ Others(a, b, o)
          /\ \A i : Element(b, o, i) = IF i \in DOMAIN part THEN part[i] ELSE Element(a, o, i)
      <4> HIDE <2>2, <2>3, <2>4
      <4> QED BY <1>0, <2>5, <2>7, <2>9, WrittenElement
    <3> QED BY <2>8, <2>9, <3>1
  <2>11. Sound(b) /\ b.vectors = a.vectors
    <3> HIDE <2>2, <2>3, <2>4
    <3> QED BY <1>0, <2>5, <2>7, <2>9, SoundWritten DEF Overwritten
  <2>12. Others(m, b, o) /\ ~Gone(b.vectors[o])
    BY <2>7, <2>10, <2>11, OthersChain
  <2>13. PICK s, t : s = Elements(m, o) /\ t = Elements(b, o)
    OBVIOUS
  <2>14. /\ s \in Seq(Elem) /\ Len(s) = Size(m, o) /\ DOMAIN s = 1 .. Size(m, o)
         /\ \A i \in 1 .. Size(m, o) : s[i] = Element(m, o, i - 1)
    BY <1>0, <2>13, ElementsIs
  <2>15. /\ t \in Seq(Elem) /\ Len(t) = n /\ DOMAIN t = 1 .. n
         /\ \A i \in 1 .. n : t[i] = Element(b, o, i - 1)
    BY <1>0, <2>10, <2>11, <2>12, <2>13, ElementsIs
  <2>16. PICK k \in DOMAIN s : k = index + 1
    BY <1>0, <1>1, <2>14
  <2>17. Abstract!Last(s) = x
    <3>1. n \in Nat /\ n + 1 = Size(m, o) /\ n + 1 \in 1 .. Size(m, o) /\ (n + 1) - 1 = n
      BY <1>0, <1>1, <2>1
    <3>2. s[n + 1] = Element(m, o, n)
      BY <2>14, <3>1
    <3> QED BY <2>3, <2>14, <3>1, <3>2 DEF Abstract!Last
  <2>18. t = [j \in 1 .. Len(s) - 1 |-> IF j = k THEN Abstract!Last(s) ELSE s[j]]
    <3>1. ASSUME NEW j \in 1 .. n PROVE t[j] = IF j = k THEN Abstract!Last(s) ELSE s[j]
      <4>1. t[j] = IF j - 1 = index THEN x ELSE Element(m, o, j - 1)
        BY <2>10, <2>15
      <4>2. j - 1 = index <=> j = k
        BY <2>14, <2>16
      <4>3. j \in 1 .. Size(m, o)
        BY <1>0, <2>1
      <4> QED BY <2>14, <2>17, <4>1, <4>2, <4>3
    <3>2. t = [j \in 1 .. n |-> t[j]]
      BY <2>15
    <3>3. Len(s) - 1 = n
      BY <2>1, <2>14
    <3> QED BY <3>1, <3>2, <3>3
  <2>19. t \in Abstract!Removals(s)
    BY <2>16, <2>18, Zenon DEF Abstract!Removals
  <2>20. Abstract!ChangedSeq(s, t)
    BY <2>19 DEF Abstract!ChangedSeq
  <2>21. Changes(m, b, o)
    BY <1>0, <2>12, <2>13, <2>20, Zenon DEF Changes
  <2> QED BY <2>11, <2>12, <2>21 DEF Effect
<1>2. CASE ~ (index < Size(m, o))
  <2>1. b = m
    BY <1>2, Zenon DEF RemovedIndex
  <2> QED BY <1>0, <2>1, SameEffect
<1> QED BY <1>1, <1>2

LEMMA RemovedEffect ==
    ASSUME NEW m, NEW o, Callable(m, o), client = "vectors", NEW x, NEW b, b = Removed(m, o, x)
    PROVE  Effect(m, b, o)
<1>1. CASE FindIndex(m, o, x) = -1
  <2>1. b = m
    BY <1>1, Zenon DEF Removed
  <2> QED BY <2>1, SameEffect DEF Callable
<1>2. CASE FindIndex(m, o, x) # -1
  <2>1. PICK index \in Nat : index = FindIndex(m, o, x)
    BY <1>2, FindIndexIs, CallableIs
  <2>2. b = RemovedIndex(m, o, index)
    BY <1>2, <2>1, Zenon DEF Removed
  <2> QED BY <2>2, RemovedIndexEffect
<1> QED BY <1>1, <1>2

\* Elements that are all one value
LEMMA UniformChanges ==
    ASSUME NEW m, NEW b, Sound(m), Sound(b), NEW o, Suits(o), client = "vectors",
           ~Gone(m.vectors[o]), ~Gone(b.vectors[o]),
           NEW x \in Values \cup {Unset}, \A i \in 0 .. Size(b, o) - 1 : Element(b, o, i) = x
    PROVE  Changes(m, b, o)
<1>1. PICK s, t : s = Elements(m, o) /\ t = Elements(b, o)
  OBVIOUS
<1>2. /\ DOMAIN t = 1 .. Size(b, o) /\ Size(b, o) \in Nat
      /\ \A i \in 1 .. Size(b, o) : t[i] = Element(b, o, i - 1)
  BY <1>1, ElementsIs
<1>3. ASSUME NEW i \in DOMAIN t PROVE t[i] = x
  <2>1. i \in 1 .. Size(b, o) /\ i - 1 \in 0 .. Size(b, o) - 1
    BY <1>2
  <2> QED BY <1>2, <2>1
<1>4. Abstract!Resized(s, t)
  BY <1>3 DEF Abstract!Resized
<1>5. Abstract!ChangedSeq(s, t)
  BY <1>4 DEF Abstract!ChangedSeq
<1> QED BY <1>1, <1>5, Zenon DEF Changes

LEMMA ResizedEffect ==
    ASSUME NEW m, NEW o, Callable(m, o), client = "vectors", NEW n \in Nat, NEW b, b = Resized(m, o, n)
    PROVE  Effect(m, b, o) /\ \A x \in Values : Effect(m, Filled(b, o, 0, x), o)
<1>0. Sound(m) /\ Suits(o) /\ ~Gone(m.vectors[o]) /\ m.vectors[o].capacity \in Nat
  BY SizeFits DEF Callable
<1>1. b = Sized(Reserved(m, o, n, FALSE), o, n)
  BY Zenon DEF Resized
<1>2. Result(m, b, o, n)
  BY <1>1, ReservedSized
<1>3. /\ n <= m.vectors[o].capacity => Kept(m, b, o)
      /\ n > m.vectors[o].capacity => Fresh(b, o)
  BY <1>1, ReservedSizedElements
<1>4. Sound(b) /\ Others(m, b, o) /\ ~Gone(b.vectors[o]) /\ Size(b, o) = n
  BY <1>2 DEF Result, Size
<1>5. Effect(m, b, o)
  <2>1. CASE Kept(m, b, o)
    BY <1>2, <2>1, KeptEffect
  <2>2. CASE Fresh(b, o)
    <3>1. Changes(m, b, o)
      BY <1>0, <1>4, <2>2, UniformChanges DEF Fresh
    <3> QED BY <1>4, <3>1 DEF Effect
  <2> QED BY <1>0, <1>3, <2>1, <2>2
<1>6. ASSUME NEW x \in Values PROVE Effect(m, Filled(b, o, 0, x), o)
  <2>1. PICK part : part = [i \in 0 .. n - 1 |-> x]
    OBVIOUS
  <2>2. DOMAIN part = 0 .. n - 1 /\ \A i \in 0 .. n - 1 : part[i] = x
    BY <2>1
  <2>3. x \in Elem
    BY DEF Elem
  <2>4. PICK c : c = Filled(b, o, 0, x)
    OBVIOUS
  <2>5. c = Written(b, o, part)
    <3>1. part = [i \in 0 .. Size(b, o) - 1 |-> x]
      BY <1>4, <2>1
    <3> QED BY <2>4, <3>1, Zenon DEF Filled
  <2>6. Result(m, c, o, n) /\ Size(c, o) = n /\ \A i : Element(c, o, i) = IF i \in DOMAIN part THEN part[i] ELSE Element(b, o, i)
    <3>1. DOMAIN part \subseteq 0 .. n - 1 /\ \A i \in DOMAIN part : part[i] \in Elem
      BY <2>2, <2>3
    <3> HIDE <1>1, <2>1, <2>4
    <3> QED BY <1>0, <1>2, <2>5, <3>1, ResultPut, PutElements
  <2>7. Sound(c) /\ Others(m, c, o) /\ ~Gone(c.vectors[o])
    BY <2>6 DEF Result
  <2>8. \A i \in 0 .. Size(c, o) - 1 : Element(c, o, i) = x
    BY <2>2, <2>6
  <2>9. Changes(m, c, o)
    <3> HIDE <2>1, <2>4
    <3> QED BY <1>0, <2>7, <2>8, UniformChanges
  <2> QED BY <2>4, <2>7, <2>9 DEF Effect
<1> QED BY <1>5, <1>6

LEMMA ExpandedEffect ==
    ASSUME NEW m, NEW o, Callable(m, o), client = "vectors", NEW n \in Nat, NEW b, b = Expanded(m, o, n)
    PROVE  Effect(m, b, o)
<1>1. PICK k \in Nat : k = Size(m, o) + n
  BY CallableIs
<1>2. b = Sized(Grown(m, o, k), o, k)
  BY <1>1, Zenon DEF Expanded
<1>3. Result(m, b, o, k) /\ Kept(m, b, o)
  BY <1>2, GrownSized, GrownSizedElements
<1> QED BY <1>3, KeptEffect

LEMMA ReservedEffect ==
    ASSUME NEW m, NEW o, Callable(m, o), client = "vectors", NEW n \in Nat, NEW b, b = Reserved(m, o, n, TRUE)
    PROVE  Effect(m, b, o)
<1>1. Sound(m) /\ Suits(o) /\ ~Gone(m.vectors[o]) /\ Cardinality(Alive(m)) < MaxArrays
  BY DEF Callable
<1>2. Sound(b) /\ Roomy(m, b, o, n)
  BY <1>1, SoundReserved
<1>3. Kept(m, b, o)
  BY ReservedElements
<1>4. Others(m, b, o) /\ ~Gone(b.vectors[o])
  BY <1>2 DEF Roomy
<1>5. Changes(m, b, o)
  BY <1>1, <1>2, <1>3, <1>4, KeptChanges DEF Kept
<1> QED BY <1>2, <1>4, <1>5 DEF Effect

LEMMA EmptiedEffect ==
    ASSUME NEW m, NEW b, Sound(b), NEW o, Others(m, b, o), Suits(o), client = "vectors",
           ~Gone(b.vectors[o]), Size(b, o) = 0
    PROVE  Effect(m, b, o)
<1>1. PICK t : t = Elements(b, o)
  OBVIOUS
<1>2. t \in Seq(Values \cup {Unset}) /\ Len(t) = 0
  BY <1>1, ElementsIs
<1>3. t = <<>>
  BY <1>2, EmptySeq
<1>4. Content(b, o) = <<>>
  BY <1>1, <1>3 DEF Content
<1>5. Changes(m, b, o)
  BY <1>4, Zenon DEF Changes
<1> QED BY <1>5 DEF Effect

LEMMA ClearedEffect ==
    ASSUME NEW m, NEW o, Callable(m, o), client = "vectors", NEW b, b = Sized(m, o, 0)
    PROVE  Effect(m, b, o)
<1>1. Sound(m) /\ Suits(o) /\ o \in Objects /\ ~Gone(m.vectors[o]) /\ m.vectors[o].capacity \in Nat /\ Near(m, m)
  BY SizeFits, CallableIs DEF Callable, Suits, Result
<1>2. Sound(b) /\ Others(m, b, o) /\ ~Gone(b.vectors[o]) /\ b.vectors[o].size = 0
  <2>1. 0 \in Nat /\ 0 <= m.vectors[o].capacity
    BY <1>1
  <2> QED BY <1>1, <2>1, SoundCut
<1> QED BY <1>1, <1>2, EmptiedEffect DEF Size

LEMMA RenewEffect ==
    ASSUME NEW m, Sound(m), NEW o \in Vectors, client = "vectors", NEW b, b = SetBuffer(m, o, Null, 0, 0, TRUE)
    PROVE  Effect(m, b, o)
<1>1. o \in Objects /\ Null \in Addresses /\ 0 \in Nat /\ TRUE \in BOOLEAN /\ Suits(o)
  BY ConstantsApart DEF Suits
<1>2. PICK none : none = {}
  OBVIOUS
<1>3. Shaped(m) /\ Owned(m, none)
  BY <1>2 DEF Sound
<1>4. Shaped(b) /\ Replaced(m, b, o, Null, 0, 0, TRUE)
  BY <1>1, <1>3, SetBufferKeeps
<1>5. Others(m, b, o) /\ Size(b, o) = 0 /\ b.vectors[o].capacity = 0
  BY <1>4 DEF Replaced, Size
<1>6. ~Gone(b.vectors[o])
  <2>1. ~ (0 > 0)
    OBVIOUS
  <2> QED BY <1>5, <2>1, Zenon DEF Gone
<1>7. Sound(b)
  BY RenewKeeps
<1> HIDE <1>4
<1> QED BY <1>1, <1>5, <1>6, <1>7, EmptiedEffect

\* o has n elements and room for them, whatever it had.
LEMMA AssignedRoom ==
    ASSUME NEW m, NEW o, Callable(m, o), NEW n \in Nat, NEW s, s = Sized(m, o, n), NEW r, r = Reserved(s, o, n, FALSE)
    PROVE  /\ Result(m, r, o, n)
           /\ n <= m.vectors[o].capacity => r = s
<1>1. Suits(o) /\ o \in Objects /\ Sound(m) /\ Cardinality(Alive(m)) < MaxArrays /\ m.vectors[o].capacity \in Nat
  BY SizeFits DEF Callable, Suits
<1>2. /\ Shaped(s) /\ s.undefined = m.undefined /\ s.leaked = m.leaked /\ s.arrays = m.arrays
      /\ s.vectors[o].array = m.vectors[o].array /\ s.vectors[o].capacity = m.vectors[o].capacity
      /\ s.vectors[o].heap = m.vectors[o].heap /\ s.vectors[o].size = n
      /\ Others(m, s, o)
      /\ \A more : Owned(m, more) => Owned(s, more)
  BY <1>1, SizedKeeps DEF Sound
<1>3. Alive(s) = Alive(m)
  BY <1>2 DEF Alive
<1>4. Shaped(r) /\ Owned(r, {}) /\ Enlarged(s, r, o, n)
  <2>1. Cardinality(Alive(s)) < MaxArrays
    BY <1>1, <1>3
  <2>2. Shaped(s) /\ Owned(s, {})
    BY <1>1, <1>2 DEF Sound
  <2> QED BY <1>1, <2>1, <2>2, ReservedKeeps
<1>5. r.vectors[o].size = n /\ r.vectors[o].capacity \in Nat /\ n <= r.vectors[o].capacity /\ ~Gone(r.vectors[o])
  <2>1. r.vectors[o].size = n
    BY <1>2, <1>4 DEF Enlarged
  <2>2. CASE n <= s.vectors[o].capacity
    <3>1. r = s
      BY <1>4, <2>2 DEF Enlarged
    <3>2. ~Gone(s.vectors[o])
      BY <1>2 DEF Callable, Gone
    <3> QED BY <1>1, <1>2, <2>1, <2>2, <3>1, <3>2
  <2>3. CASE n > s.vectors[o].capacity
    <3>1. r.vectors[o].array \in Heap /\ r.vectors[o].capacity = n
      BY <1>4, <2>3 DEF Enlarged
    <3>2. ~Gone(r.vectors[o])
      <4>1. Null \notin Heap
        BY ConstantsApart
      <4> QED BY <3>1, <4>1, Zenon DEF Gone
    <3>3. n \in Nat /\ n <= n
      OBVIOUS
    <3> QED BY <2>1, <3>1, <3>2, <3>3, Zenon
  <2>4. n <= s.vectors[o].capacity \/ n > s.vectors[o].capacity
    <3>1. PICK c \in Nat : c = s.vectors[o].capacity
      BY <1>1, <1>2
    <3>2. n <= c \/ n > c
      OBVIOUS
    <3> QED BY <3>1, <3>2, Zenon
  <2> QED BY <2>2, <2>3, <2>4, Zenon
<1>6. Others(m, r, o)
  BY <1>2, <1>4, OthersChain DEF Enlarged
<1>7. \A q \in Objects : Fit(r, q)
  <2> SUFFICES ASSUME NEW q \in Objects \ {o} PROVE Fit(r, q)
    BY <1>5 DEF Fit
  <2>1. r.vectors[q] = m.vectors[q]
    BY <1>6 DEF Others
  <2> QED BY <1>1, <2>1 DEF Fit, Sound
<1>8. Near(m, r)
  BY <1>2, <1>3, <1>4 DEF Near, Enlarged
<1>9. n <= m.vectors[o].capacity => r = s
  BY <1>2, <1>4 DEF Enlarged
<1> QED BY <1>4, <1>5, <1>6, <1>7, <1>8, <1>9 DEF Result, Sound

\* An object that is not changed has what it had.
LEMMA OtherElements ==
    ASSUME NEW m, NEW b, NEW o, Others(m, b, o), NEW p \in Objects, p # o
    PROVE  /\ b.vectors[p] = m.vectors[p] /\ Slots(b, p) = Slots(m, p) /\ Size(b, p) = Size(m, p)
           /\ \A i : Element(b, p, i) = Element(m, p, i)
           /\ Elements(b, p) = Elements(m, p) /\ Content(b, p) = Content(m, p)
<1>1. b.vectors[p] = m.vectors[p] /\ b.arrays[m.vectors[p].array] = m.arrays[m.vectors[p].array]
  BY DEF Others
<1>2. Slots(b, p) = Slots(m, p) /\ Size(b, p) = Size(m, p)
  BY <1>1, Zenon DEF Slots, Size
<1>3. \A i : Element(b, p, i) = Element(m, p, i)
  BY <1>2, Zenon DEF Element
<1>4. Elements(b, p) = Elements(m, p)
  BY <1>2, <1>3 DEF Elements
<1>5. Content(b, p) = Content(m, p)
  BY <1>1, <1>4, Zenon DEF Content
<1> QED BY <1>1, <1>2, <1>3, <1>4, <1>5

LEMMA SameElements ==
    ASSUME NEW m, NEW b, Sound(m), Sound(b), NEW o, Suits(o), NEW p, Suits(p), client = "vectors",
           Size(b, o) = Size(m, p), \A i \in 0 .. Size(m, p) - 1 : Element(b, o, i) = Element(m, p, i)
    PROVE  Elements(b, o) = Elements(m, p)
<1>1. PICK s, t : s = Elements(m, p) /\ t = Elements(b, o)
  OBVIOUS
<1>2. /\ s \in Seq(Values \cup {Unset}) /\ Len(s) = Size(m, p) /\ Size(m, p) \in Nat
      /\ \A i \in 1 .. Size(m, p) : s[i] = Element(m, p, i - 1)
  BY <1>1, ElementsIs
<1>3. /\ t \in Seq(Values \cup {Unset}) /\ Len(t) = Size(b, o)
      /\ \A i \in 1 .. Size(b, o) : t[i] = Element(b, o, i - 1)
  BY <1>1, ElementsIs
<1>4. ASSUME NEW i \in 1 .. Len(s) PROVE t[i] = s[i]
  <2>1. i - 1 \in 0 .. Size(m, p) - 1 /\ i \in 1 .. Size(m, p)
    BY <1>2
  <2> QED BY <1>2, <1>3, <2>1
<1>5. s = t
  BY <1>2, <1>3, <1>4, SeqEqual
<1> QED BY <1>1, <1>5

LEMMA CopyAssignedEffect ==
    ASSUME NEW m, NEW o, Callable(m, o), NEW p, Callable(m, p), client = "vectors", NEW b, b = CopyAssigned(m, o, p)
    PROVE  Effect(m, b, o)
<1>1. /\ Suits(o) /\ Suits(p) /\ o \in Objects /\ p \in Objects /\ p \in Vectors
      /\ Sound(m) /\ ~Gone(m.vectors[o]) /\ ~Gone(m.vectors[p])
  BY DEF Callable, Suits
<1>2. CASE Size(m, p) = 0
  <2>1. b = Sized(m, o, 0)
    BY <1>2, Zenon DEF CopyAssigned
  <2> QED BY <2>1, ClearedEffect
<1>3. CASE Size(m, p) # 0
  <2>1. PICK n \in Nat : n = Size(m, p)
    BY CallableIs
  <2>2. PICK s : s = Sized(m, o, n)
    OBVIOUS
  <2>3. PICK r : r = Reserved(s, o, n, FALSE)
    OBVIOUS
  <2>4. Result(m, r, o, n) /\ (n <= m.vectors[o].capacity => r = s)
    BY <2>2, <2>3, AssignedRoom
  <2>5. PICK part : part = [i \in 0 .. Size(r, o) - 1 |-> Element(r, p, i)]
    OBVIOUS
  <2>6. b = Written(r, o, part)
    <3>1. b = CopyInto(r, o, p)
      BY <1>3, <2>1, <2>2, <2>3, Zenon DEF CopyAssigned
    <3> QED BY <2>5, <3>1, Zenon DEF CopyInto
  <2>7. Sound(r) /\ Size(r, o) = n /\ Others(m, r, o)
    BY <2>4 DEF Result, Size
  <2>8. \A i : Element(r, p, i) = Element(m, p, i)
    <3>1. CASE p = o
      <4>1. n <= m.vectors[o].capacity
        BY <1>1, <2>1, <3>1, SizeFits
      <4>2. r = s
        BY <2>4, <4>1
      <4>3. \A i : Element(s, o, i) = Element(m, o, i)
        <5> HIDE <2>3, <2>5
        <5> QED BY <1>1, <2>2, SizedElement
      <4> QED BY <3>1, <4>2, <4>3
    <3>2. CASE p # o
      <4> HIDE <2>2, <2>3, <2>5
      <4> QED BY <1>1, <2>7, <3>2, OtherElements
    <3> QED BY <3>1, <3>2
  <2>9. DOMAIN part = 0 .. n - 1 /\ \A i \in 0 .. n - 1 : part[i] = Element(m, p, i) /\ part[i] \in Elem
    <3>1. \A i : Element(m, p, i) \in Elem
      BY <1>1, VectorElement
    <3> QED BY <2>5, <2>7, <2>8, <3>1
  <2>10. Result(m, b, o, n) /\ Size(b, o) = n /\ \A i : Element(b, o, i) = IF i \in DOMAIN part THEN part[i] ELSE Element(r, o, i)
    <3>1. DOMAIN part \subseteq 0 .. n - 1 /\ \A i \in DOMAIN part : part[i] \in Elem
      BY <2>9
    <3> HIDE <2>2, <2>3, <2>5
    <3> QED BY <1>1, <2>4, <2>6, <3>1, ResultPut, PutElements
  <2>11. Sound(b) /\ Others(m, b, o) /\ ~Gone(b.vectors[o])
    BY <2>10 DEF Result
  <2>12. \A i \in 0 .. Size(m, p) - 1 : Element(b, o, i) = Element(m, p, i)
    BY <2>1, <2>9, <2>10
  <2>13. Elements(b, o) = Elements(m, p)
    <3> HIDE <2>2, <2>3, <2>5
    <3> QED BY <1>1, <2>1, <2>10, <2>11, <2>12, SameElements
  <2>14. Changes(m, b, o)
    BY <1>1, <2>11, <2>13, Zenon DEF Changes
  <2> QED BY <2>11, <2>14 DEF Effect
<1> QED BY <1>2, <1>3

-----------------------------------------------------------------------------
(* Sorting and moving *)

\* The abstract specification counts as this one does.
LEMMA SameCount ==
    ASSUME NEW S
    PROVE  Abstract!Cardinality(S) = Cardinality(S)
BY Zenon DEF Abstract!Cardinality, Cardinality

LEMMA SortedEffect ==
    ASSUME NEW m, NEW o, Callable(m, o), client = "vectors", Unset \notin ToSet(Elements(m, o)),
           NEW t \in Sortings(Elements(m, o)), NEW b, b = Sorted(m, o, t)
    PROVE  Effect(m, b, o)
<1>1. PICK n \in Nat : n = Size(m, o)
  BY CallableIs
<1>2. PICK s : s = Elements(m, o)
  OBVIOUS
<1>3. Sound(m) /\ Suits(o) /\ ~Gone(m.vectors[o]) /\ Elem = Values \cup {Unset}
  BY DEF Callable, Elem
<1>4. s \in Seq(Elem) /\ Len(s) = n /\ DOMAIN s = 1 .. n /\ \A i \in 1 .. n : s[i] \in Elem
  BY <1>1, <1>2, <1>3, ElementsIs
<1>5. ToSet(s) \subseteq Elem /\ Unset \notin ToSet(s) /\ \A i \in 1 .. n : s[i] \in ToSet(s)
  BY <1>2, <1>4 DEF ToSet
<1>6. /\ t \in [1 .. n -> ToSet(s)]
      /\ \A i, j \in 1 .. n : i < j => t[i] <= t[j]
      /\ \A x \in ToSet(s) : Cardinality({i \in DOMAIN s : s[i] = x}) = Cardinality({i \in DOMAIN t : t[i] = x})
  <2>1. t \in Sortings(s)
    BY <1>2
  <2>2. DOMAIN t = 1 .. n
    BY <1>4, <2>1 DEF Sortings
  <2> QED BY <1>4, <2>1, <2>2 DEF Sortings
<1>7. DOMAIN t = 1 .. n /\ t \in Seq(Elem) /\ Len(t) = n /\ \A i \in 1 .. n : t[i] \in Elem /\ t[i] \in ToSet(s)
  <2>1. DOMAIN t = 1 .. n /\ \A i \in 1 .. n : t[i] \in Elem /\ t[i] \in ToSet(s)
    BY <1>5, <1>6
  <2>2. t \in [1 .. n -> Elem]
    BY <1>5, <1>6
  <2>3. t \in Seq(Elem)
    BY <2>2, SeqDef
  <2> QED BY <2>1, <2>3, LenProperties
<1>8. PICK part : part = [i \in 0 .. n - 1 |-> t[i + 1]]
  OBVIOUS
<1>9. b = Written(m, o, part)
  <2>1. part = [i \in 0 .. Size(m, o) - 1 |-> t[i + 1]]
    BY <1>1, <1>8
  <2> QED BY <2>1, Zenon DEF Sorted
<1>10. DOMAIN part = 0 .. n - 1 /\ \A i \in 0 .. n - 1 : part[i] = t[i + 1] /\ part[i] \in Elem
  BY <1>7, <1>8
<1>11. Result(m, m, o, n)
  BY <1>1, CallableIs
<1>12. Result(m, b, o, n) /\ Size(b, o) = n /\ \A i : Element(b, o, i) = IF i \in DOMAIN part THEN part[i] ELSE Element(m, o, i)
  <2>1. DOMAIN part \subseteq 0 .. n - 1 /\ \A i \in DOMAIN part : part[i] \in Elem
    BY <1>10
  <2> HIDE <1>8
  <2> QED BY <1>3, <1>9, <1>11, <2>1, ResultPut, PutElements
<1>13. Sound(b) /\ Others(m, b, o) /\ ~Gone(b.vectors[o])
  BY <1>12 DEF Result
<1>14. PICK u : u = Elements(b, o)
  OBVIOUS
<1>15. u = t
  <2>1. u \in Seq(Elem) /\ Len(u) = n /\ \A i \in 1 .. n : u[i] = Element(b, o, i - 1)
    BY <1>3, <1>12, <1>13, <1>14, ElementsIs
  <2>2. ASSUME NEW i \in 1 .. n PROVE u[i] = t[i]
    <3>1. i - 1 \in 0 .. n - 1 /\ (i - 1) + 1 = i
      OBVIOUS
    <3> QED BY <1>10, <1>12, <2>1, <3>1
  <2> HIDE <1>8, <1>14
  <2> QED BY <1>7, <2>1, <2>2, SeqEqual
<1>16. Abstract!Sorted(s, t)
  <2>1. Len(s) = Len(t)
    BY <1>4, <1>7
  <2>2. Unset \notin Abstract!ToSet(s) \cup Abstract!ToSet(t)
    <3>1. Abstract!ToSet(s) = ToSet(s)
      BY DEF ToSet, Abstract!ToSet
    <3>2. Abstract!ToSet(t) \subseteq ToSet(s)
      BY <1>7 DEF Abstract!ToSet
    <3> QED BY <1>5, <3>1, <3>2
  <2>3. \A i \in 1 .. Len(t) - 1 : t[i] <= t[i + 1]
    BY <1>6, <1>7
  <2>4. ASSUME NEW x \in Values
        PROVE  Abstract!Cardinality({i \in DOMAIN t : t[i] = x}) = Abstract!Cardinality({i \in DOMAIN s : s[i] = x})
    <3>1. CASE x \in ToSet(s)
      BY <1>6, <3>1, SameCount
    <3>2. CASE x \notin ToSet(s)
      <4>1. {i \in DOMAIN t : t[i] = x} = {i \in DOMAIN s : s[i] = x}
        BY <1>4, <1>5, <1>7, <3>2
      <4> QED BY <4>1
    <3> QED BY <3>1, <3>2
  <2> QED BY <2>1, <2>2, <2>3, <2>4, Zenon DEF Abstract!Sorted
<1>17. Abstract!ChangedSeq(s, t)
  BY <1>16 DEF Abstract!ChangedSeq
<1>18. Changes(m, b, o)
  BY <1>2, <1>3, <1>13, <1>14, <1>15, <1>17, Zenon DEF Changes
<1> QED BY <1>13, <1>18 DEF Effect

\* What a moving assignment makes of v and of w, and of no other.
Moves(m, b, v, w) ==
    /\ Content(b, v) = IF v = w THEN <<>> ELSE Content(m, w)
    /\ v # w => /\ Content(b, w) \in {Unspecified, Content(m, w)}
                /\ Content(m, w) # <<>> => Content(b, w) = Unspecified
    /\ \A u \in Vectors \ {v, w} : Content(b, u) = Content(m, u)
    /\ \A u \in Objects \ {v, w} : b.vectors[u] = m.vectors[u] /\ Slots(b, u) = Slots(m, u)

LEMMA MoveEffect ==
    ASSUME NEW m, Sound(m), NEW v \in Vectors, NEW w \in Vectors, client = "vectors", NEW b, b = MoveAssigned(m, v, w)
    PROVE  Sound(b) /\ (Moves(m, b, v, w) \/ Effect(m, b, v))
<1>1. /\ v \in Objects /\ w \in Objects /\ Suits(v) /\ Suits(w)
      /\ m.vectors[v] \in Members /\ m.vectors[w] \in Members
      /\ m.vectors[v].capacity \in Nat /\ m.vectors[w].capacity \in Nat /\ m.vectors[w].size \in Nat
  <2>1. Suits(v) /\ Suits(w)
    BY ConstantsApart DEF Suits
  <2> QED BY <2>1, VectorIs
<1>2. PICK s : s = Sized(m, v, 0)
  OBVIOUS
<1>3. /\ Sound(s) /\ Near(m, s) /\ Others(m, s, v) /\ s.vectors[v].size = 0 /\ s.arrays = m.arrays
      /\ s.vectors[v].array = m.vectors[v].array /\ s.vectors[v].capacity = m.vectors[v].capacity
  <2>1. 0 \in Nat /\ 0 <= m.vectors[v].capacity
    BY <1>1
  <2>2. Sound(s) /\ Near(m, s) /\ Others(m, s, v) /\ s.vectors[v].size = 0
    BY <1>1, <1>2, <2>1, SoundSized
  <2>3. /\ s.arrays = m.arrays
        /\ s.vectors[v].array = m.vectors[v].array /\ s.vectors[v].capacity = m.vectors[v].capacity
    <3>1. Shaped(m) /\ 0 \in Nat
      BY DEF Sound
    <3>2. 0 \in Nat /\ v \in Objects /\ s = Sized(m, v, 0)
      BY <1>1, <1>2
    <3> HIDE <1>2
    <3> QED BY <3>1, <3>2, SizedKeeps
  <2> QED BY <2>2, <2>3
<1>4. b = Taken(s, v, w)
  BY <1>2, Zenon DEF MoveAssigned
<1>5. Sound(b)
  BY MoveAssignedKeeps
<1>6. CASE Size(s, w) = 0
  <2>1. b = s
    BY <1>4, <1>6, Zenon DEF Taken
  <2>2. Others(m, b, v) /\ Size(b, v) = 0
    BY <1>3, <2>1 DEF Size
  <2>3. CASE Gone(m.vectors[v])
    <3>1. Gone(b.vectors[v])
      BY <1>3, <2>1, <2>3 DEF Gone
    <3>2. Content(b, v) = Content(m, v)
      BY <2>3, <3>1, Zenon DEF Content
    <3> QED BY <1>5, <2>2, <3>2 DEF Effect, Changes
  <2>4. CASE ~Gone(m.vectors[v])
    <3>1. ~Gone(b.vectors[v])
      BY <1>3, <2>1, <2>4 DEF Gone
    <3> HIDE <1>2
    <3> QED BY <1>1, <1>5, <2>2, <3>1, EmptiedEffect
  <2> QED BY <1>5, <2>3, <2>4
<1>7. CASE Size(s, w) # 0
  <2>1. v # w /\ s.vectors[w].size # 0 /\ s.vectors[w] = m.vectors[w]
    BY <1>1, <1>3, <1>7 DEF Size, Others
  <2>2. /\ b.vectors = [[s.vectors EXCEPT ![v] = s.vectors[w]] EXCEPT ![w].array = Null]
        /\ b.arrays = s.arrays
    <3>1. TakenFrom(s, b, v, w)
      <4> HIDE <1>2
      <4> QED BY <1>3, <1>4, <2>1, TakenIs DEF Sound, Shaped
    <3> QED BY <3>1 DEF TakenFrom
  <2>3. DOMAIN s.vectors = Objects
    BY <1>3 DEF Sound, Shaped
  <2>4. /\ b.vectors[v] = m.vectors[w] /\ b.vectors[w] = [m.vectors[w] EXCEPT !.array = Null]
        /\ \A u \in Objects \ {v, w} : b.vectors[u] = m.vectors[u]
    BY <1>1, <1>3, <2>1, <2>2, <2>3 DEF Others
  <2>5. b.arrays = m.arrays
    BY <1>3, <2>2
  <2>6. ASSUME NEW x \in Objects, NEW y \in Objects, b.vectors[x] = m.vectors[y]
        PROVE  Content(b, x) = Content(m, y)
    <3>1. Slots(b, x) = Slots(m, y) /\ Size(b, x) = Size(m, y)
      BY <2>5, <2>6, Zenon DEF Slots, Size
    <3>2. \A i : Element(b, x, i) = Element(m, y, i)
      BY <3>1, Zenon DEF Element
    <3>3. Elements(b, x) = Elements(m, y)
      BY <3>1, <3>2 DEF Elements
    <3> QED BY <2>6, <3>3, Zenon DEF Content
  <2>7. Gone(b.vectors[w])
    <3>1. PICK r \in Members : r = m.vectors[w]
      BY <1>1
    <3>2. b.vectors[w].array = Null /\ b.vectors[w].capacity = r.capacity
      BY <2>4, <3>1, MemberWithout
    <3>3. r.capacity > 0
      <4>1. Fit(m, w) /\ Owns(m, w)
        BY <1>1 DEF Sound, Owned
      <4>2. r.size > 0
        BY <1>1, <2>1, <3>1
      <4>3. Gone(r) \/ r.size <= r.capacity
        BY <3>1, <4>1, Zenon DEF Fit
      <4>4. r.capacity \in Nat /\ r.size \in Nat
        BY <1>1, <3>1
      <4> QED BY <4>2, <4>3, <4>4 DEF Gone
    <3> QED BY <3>2, <3>3, Zenon DEF Gone
  <2>8. Content(b, w) = Unspecified
    BY <2>7, Zenon DEF Content
  <2>9. Content(b, v) = Content(m, w)
    BY <1>1, <2>4, <2>6
  <2>10. \A u \in Vectors \ {v, w} : Content(b, u) = Content(m, u)
    BY <2>4, <2>6, ConstantsApart
  <2>11. \A u \in Objects \ {v, w} : b.vectors[u] = m.vectors[u] /\ Slots(b, u) = Slots(m, u)
    BY <2>4, <2>5, Zenon DEF Slots
  <2> QED BY <1>5, <2>1, <2>8, <2>9, <2>10, <2>11 DEF Moves
<1> QED BY <1>6, <1>7

\* What a step of v comes to.
Acts(v, b) ==
    /\ Remember(b)
    /\ Effect(memory, b, v) \/ (Sound(b) /\ \E w \in Vectors : Moves(memory, b, v, w))

LEMMA EffectActs ==
    ASSUME NEW v, NEW b, Remember(b), Effect(memory, b, v)
    PROVE  \E c : Acts(v, c)
BY DEF Acts

LEMMA PassedInto ==
    ASSUME Typed, client = "vectors", calls < MaxCalls, NEW v \in Vectors, NEW m, Sound(m), NEW index,
           \A x \in Elem : Effect(memory, Written(m, v, Slot(index, x)), v), Put(v, m, index)
    PROVE  \E c : Acts(v, c)
<1>1. PICK x \in Passed(v, m) : Remember(Written(m, v, Slot(index, x)))
  BY DEF Put
<1>2. x \in Elem
  BY PassedIn
<1>3. PICK c : c = Written(m, v, Slot(index, x))
  OBVIOUS
<1>4. Remember(c) /\ Effect(memory, c, v)
  BY <1>1, <1>2, <1>3
<1> QED BY <1>4, EffectActs

LEMMA IndexedActs ==
    ASSUME Typed, client = "vectors", calls < MaxCalls, NEW v \in Vectors, Callable(memory, v), NEW n \in Nat,
           Insert(v, n) \/ RemoveIndex(v, n) \/ Resize(v, n) \/ Expand(v, n) \/ ExpandTo(v, n) \/ Reserve(v, n)
    PROVE  \E c : Acts(v, c)
<1>1. CASE Insert(v, n)
  <2>1. PICK a : a = Opened(memory, v, n)
    OBVIOUS
  <2>2. Put(v, a, n)
    BY <1>1, <2>1, Zenon DEF Insert
  <2>3. Sound(a)
    <3>1. \E k \in Nat : n < k /\ Result(memory, a, v, k)
      BY <2>1, OpenedKeeps
    <3> QED BY <3>1 DEF Result
  <2>4. \A x \in Elem : Effect(memory, Written(a, v, Slot(n, x)), v)
    BY <2>1, OpenedEffect
  <2> HIDE <2>1
  <2> QED BY <2>2, <2>3, <2>4, PassedInto
<1>2. CASE RemoveIndex(v, n)
  <2>1. PICK b : b = RemovedIndex(memory, v, n)
    OBVIOUS
  <2>2. Remember(b)
    BY <1>2, <2>1, Zenon DEF RemoveIndex
  <2>3. Effect(memory, b, v)
    BY <2>1, RemovedIndexEffect
  <2> QED BY <2>2, <2>3, EffectActs
<1>3. CASE Resize(v, n)
  <2>1. PICK a : a = Resized(memory, v, n)
    OBVIOUS
  <2>2. Effect(memory, a, v) /\ \A x \in Values : Effect(memory, Filled(a, v, 0, x), v)
    BY <2>1, ResizedEffect
  <2>3. Remember(a) \/ \E x \in Values : Remember(Filled(a, v, 0, x))
    BY <1>3, <2>1, Zenon DEF Resize
  <2>4. CASE Remember(a)
    BY <2>2, <2>4, EffectActs
  <2>5. ASSUME NEW x \in Values, Remember(Filled(a, v, 0, x)) PROVE \E c : Acts(v, c)
    <3>1. PICK b : b = Filled(a, v, 0, x)
      OBVIOUS
    <3> QED BY <2>2, <2>5, <3>1, EffectActs
  <2> QED BY <2>3, <2>4, <2>5
<1>4. CASE Expand(v, n)
  <2>1. PICK b : b = Expanded(memory, v, n)
    OBVIOUS
  <2>2. Remember(b)
    BY <1>4, <2>1, Zenon DEF Expand
  <2>3. Effect(memory, b, v)
    BY <2>1, ExpandedEffect
  <2> QED BY <2>2, <2>3, EffectActs
<1>5. CASE ExpandTo(v, n)
  <2>1. PICK a : a = ExpandedTo(memory, v, n)
    OBVIOUS
  <2>2. Effect(memory, a, v) /\ \A x \in Elem : Effect(memory, Filled(a, v, Size(memory, v), x), v)
    BY <2>1, ExpandedToEffect
  <2>3. Remember(a) \/ \E x \in Values : Remember(Filled(a, v, Size(memory, v), x))
    BY <1>5, <2>1, Zenon DEF ExpandTo
  <2>4. CASE Remember(a)
    BY <2>2, <2>4, EffectActs
  <2>5. ASSUME NEW x \in Values, Remember(Filled(a, v, Size(memory, v), x)) PROVE \E c : Acts(v, c)
    <3>1. PICK b : b = Filled(a, v, Size(memory, v), x)
      OBVIOUS
    <3>2. x \in Elem
      BY DEF Elem
    <3> QED BY <2>2, <2>5, <3>1, <3>2, EffectActs
  <2> QED BY <2>3, <2>4, <2>5
<1>6. CASE Reserve(v, n)
  <2>1. PICK b : b = Reserved(memory, v, n, TRUE)
    OBVIOUS
  <2>2. Remember(b)
    BY <1>6, <2>1, Zenon DEF Reserve
  <2>3. Effect(memory, b, v)
    BY <2>1, ReservedEffect
  <2> QED BY <2>2, <2>3, EffectActs
<1> QED BY <1>1, <1>2, <1>3, <1>4, <1>5, <1>6

LEMMA AddedVectorEffect ==
    ASSUME NEW m, NEW o, Callable(m, o), NEW p, Callable(m, p), client = "vectors", NEW b, b = AddedVector(m, o, p)
    PROVE  Effect(m, b, o)
<1>0. Suits(o) /\ Suits(p) /\ Sound(m) /\ Size(m, o) \in Nat /\ Size(m, p) \in Nat
  BY CallableIs DEF Callable
<1>1. CASE Size(m, p) = 0
  <2>1. b = m
    BY <1>1, Zenon DEF AddedVector
  <2> QED BY <1>0, <2>1, SameEffect
<1>2. CASE Size(m, p) # 0
  <2>1. PICK n \in Nat : n = Size(m, o) + Size(m, p)
    BY <1>0
  <2>2. PICK g : g = Grown(m, o, n)
    OBVIOUS
  <2>3. Sound(g) /\ Roomy(m, g, o, n) /\ Kept(m, g, o) /\ Size(g, o) = Size(m, o)
    BY <2>2, SoundGrown, GrownElements DEF Callable
  <2>4. PICK part : part = [i \in Size(m, o) .. Size(m, o) + Size(m, p) - 1 |-> Element(g, p, i - Size(m, o))]
    OBVIOUS
  <2>5. PICK w : w = Written(g, o, part)
    OBVIOUS
  <2>6. b = Sized(w, o, n)
    <3>1. b = Joined(m, g, o, p)
      BY <1>2, <2>1, <2>2, Zenon DEF AddedVector
    <3>2. b = Sized(Written(g, o, part), o, Size(m, o) + Size(m, p))
      BY <2>4, <3>1, Zenon DEF Joined
    <3> QED BY <2>1, <2>5, <3>2, Zenon
  <2>7. g.vectors[o].capacity \in Nat /\ n <= g.vectors[o].capacity /\ ~Gone(g.vectors[o]) /\ Near(m, g) /\ Others(m, g, o)
    <3>1. ~Gone(g.vectors[o]) /\ Near(m, g) /\ g.vectors[o].capacity >= n /\ Others(m, g, o)
      BY <2>3 DEF Roomy
    <3>2. g.vectors[o].capacity \in Nat
      BY <1>0, <2>3, <3>1, SizeFits
    <3> QED BY <3>1, <3>2
  <2>8. /\ DOMAIN part = Size(m, o) .. n - 1 /\ \A i \in DOMAIN part : part[i] \in Elem
        /\ DOMAIN part \subseteq 0 .. g.vectors[o].capacity - 1
    <3>1. \A i : Element(g, p, i) \in Elem
      BY <1>0, <2>3, VectorElement
    <3>2. DOMAIN part = Size(m, o) .. n - 1 /\ \A i \in DOMAIN part : part[i] \in Elem
      <4>1. DOMAIN part = Size(m, o) .. Size(m, o) + Size(m, p) - 1 /\ \A i \in DOMAIN part : part[i] \in Elem
        BY <2>4, <3>1
      <4>2. Size(m, o) + Size(m, p) - 1 = n - 1
        BY <1>0, <2>1
      <4> QED BY <4>1, <4>2
    <3>3. Size(m, o) .. n - 1 \subseteq 0 .. g.vectors[o].capacity - 1
      <4> HIDE <2>2, <2>4, <2>5
      <4> QED BY <1>0, <2>7
    <3> QED BY <3>2, <3>3
  <2>9. DOMAIN part \subseteq DOMAIN Slots(g, o)
    BY <1>0, <2>3, <2>7, <2>8, SizeFits
  <2>10. /\ Sound(w) /\ Near(m, w) /\ ~Gone(w.vectors[o]) /\ w.vectors = g.vectors
         /\ Others(g, w, o)
         /\ \A i : Element(w, o, i) = IF i \in DOMAIN part THEN part[i] ELSE Element(g, o, i)
    <3> HIDE <2>2, <2>4
    <3> QED BY <1>0, <2>3, <2>5, <2>7, <2>8, <2>9, SoundPut, WrittenElement
  <2>11. /\ Sound(b) /\ ~Gone(b.vectors[o]) /\ Others(w, b, o)
         /\ Size(b, o) = n /\ \A i : Element(b, o, i) = Element(w, o, i)
    <3>1. n <= w.vectors[o].capacity
      BY <2>7, <2>10
    <3> HIDE <2>2, <2>4, <2>5
    <3> QED BY <1>0, <2>6, <2>10, <3>1, SoundCut, SizedElement
  <2>12. Others(m, b, o)
    BY <2>7, <2>10, <2>11, OthersChain
  <2>13. \A i \in 0 .. Size(m, o) - 1 : Element(b, o, i) = Element(m, o, i)
    <3>1. \A i \in 0 .. Size(m, o) - 1 : i \notin DOMAIN part
      BY <1>0, <2>8
    <3> QED BY <2>3, <2>10, <2>11, <3>1 DEF Kept
  <2>14. Changes(m, b, o)
    <3>1. ~Gone(m.vectors[o])
      BY DEF Callable
    <3> HIDE <2>2, <2>4, <2>5
    <3> QED BY <1>0, <2>11, <2>13, <3>1, KeptChanges
  <2> QED BY <2>11, <2>12, <2>14 DEF Effect
<1> QED BY <1>1, <1>2

LEMMA VectorActs ==
    ASSUME Typed, client = "vectors", VectorNext
    PROVE  \E v \in Vectors : \E b : Acts(v, b)
<1>1. PICK v \in Vectors :
          \/ Add(v) \/ RemoveValue(v) \/ Clear(v) \/ Sort(v) \/ Renew(v)
          \/ \E w \in Vectors : AddVector(v, w) \/ CopyAssign(v, w) \/ MoveAssign(v, w)
          \/ \E n \in 0 .. MaxSize :
                 Insert(v, n) \/ RemoveIndex(v, n) \/ Resize(v, n) \/ Expand(v, n) \/ ExpandTo(v, n) \/ Reserve(v, n)
  BY Zenon DEF VectorNext
<1>2. calls < MaxCalls
  BY <1>1 DEF Add, RemoveValue, Clear, Sort, Renew, AddVector, CopyAssign, MoveAssign, Insert, RemoveIndex,
              Resize, Expand, ExpandTo, Reserve, Call
<1> SUFFICES \E b : Acts(v, b)
  OBVIOUS
<1>3. /\ Sound(memory) /\ Suits(v) /\ v \in Objects
      /\ ~MovedFrom(v) => Callable(memory, v)
      /\ \A w \in Vectors : ~MovedFrom(w) => Callable(memory, w)
  BY <1>2, CallIs DEF Suits
<1>4. Call(v) => Callable(memory, v)
  BY <1>3 DEF Call
<1>5. CASE Add(v)
  <2>1. Callable(memory, v)
    BY <1>4, <1>5 DEF Add
  <2>2. PICK a : a = Added(memory, v)
    OBVIOUS
  <2>3. Effect(memory, a, v) /\ \A x \in Elem : Effect(memory, Written(a, v, Slot(Size(memory, v), x)), v)
    BY <2>1, <2>2, AddedEffect
  <2>4. Remember(a) \/ Put(v, a, Size(memory, v))
    BY <1>5, <2>2, Zenon DEF Add
  <2>5. CASE Remember(a)
    BY <2>3, <2>5, EffectActs
  <2>6. CASE Put(v, a, Size(memory, v))
    <3> HIDE <2>2
    <3> QED BY <1>2, <2>3, <2>6, PassedInto DEF Effect
  <2> QED BY <2>4, <2>5, <2>6
<1>6. CASE RemoveValue(v)
  <2>1. Callable(memory, v)
    BY <1>4, <1>6 DEF RemoveValue
  <2>2. PICK x \in Values : Remember(Removed(memory, v, x))
    BY <1>6 DEF RemoveValue
  <2>3. PICK b : b = Removed(memory, v, x)
    OBVIOUS
  <2>4. Effect(memory, b, v)
    BY <2>1, <2>3, RemovedEffect
  <2> QED BY <2>2, <2>3, <2>4, EffectActs
<1>7. CASE Clear(v)
  <2>1. Callable(memory, v) /\ Remember(Sized(memory, v, 0))
    BY <1>4, <1>7 DEF Clear
  <2>2. PICK b : b = Sized(memory, v, 0)
    OBVIOUS
  <2>3. Effect(memory, b, v)
    BY <2>1, <2>2, ClearedEffect
  <2> QED BY <2>1, <2>2, <2>3, EffectActs
<1>8. CASE Sort(v)
  <2>1. Callable(memory, v) /\ Unset \notin ToSet(Elements(memory, v))
    BY <1>4, <1>8 DEF Sort, HasUnset
  <2>2. PICK t \in Sortings(Elements(memory, v)) : Remember(Sorted(memory, v, t))
    BY <1>8 DEF Sort
  <2>3. PICK b : b = Sorted(memory, v, t)
    OBVIOUS
  <2>4. Effect(memory, b, v)
    BY <2>1, <2>3, SortedEffect
  <2> QED BY <2>2, <2>3, <2>4, EffectActs
<1>9. CASE Renew(v)
  <2>1. PICK b : b = SetBuffer(memory, v, Null, 0, 0, TRUE)
    OBVIOUS
  <2>2. Effect(memory, b, v)
    BY <1>3, <2>1, RenewEffect
  <2>3. Remember(b)
    BY <1>9, <2>1, Zenon DEF Renew
  <2> HIDE <2>1
  <2> QED BY <2>2, <2>3, EffectActs
<1>10. ASSUME NEW w \in Vectors, AddVector(v, w) \/ CopyAssign(v, w) \/ MoveAssign(v, w)
       PROVE  \E b : Acts(v, b)
  <2>1. CASE AddVector(v, w)
    <3>1. Callable(memory, v) /\ Callable(memory, w)
      BY <1>3, <1>4, <2>1 DEF AddVector
    <3>2. PICK b : b = AddedVector(memory, v, w)
      OBVIOUS
    <3>3. Effect(memory, b, v)
      BY <3>1, <3>2, AddedVectorEffect
    <3>4. Remember(b)
      BY <2>1, <3>2, Zenon DEF AddVector
    <3> QED BY <3>3, <3>4, EffectActs
  <2>2. CASE CopyAssign(v, w)
    <3>1. Callable(memory, v) /\ Callable(memory, w)
      BY <1>3, <1>4, <2>2 DEF CopyAssign
    <3>2. PICK b : b = CopyAssigned(memory, v, w)
      OBVIOUS
    <3>3. Effect(memory, b, v)
      BY <3>1, <3>2, CopyAssignedEffect
    <3>4. Remember(b)
      BY <2>2, <3>2, Zenon DEF CopyAssign
    <3> QED BY <3>3, <3>4, EffectActs
  <2>3. CASE MoveAssign(v, w)
    <3>1. PICK b : b = MoveAssigned(memory, v, w)
      OBVIOUS
    <3>2. Sound(b) /\ (Moves(memory, b, v, w) \/ Effect(memory, b, v))
      BY <1>3, <3>1, MoveEffect
    <3>3. Remember(b)
      BY <2>3, <3>1, Zenon DEF MoveAssign
    <3> QED BY <3>2, <3>3 DEF Acts
  <2> QED BY <1>10, <2>1, <2>2, <2>3
<1>11. ASSUME NEW n \in Nat,
              Insert(v, n) \/ RemoveIndex(v, n) \/ Resize(v, n) \/ Expand(v, n) \/ ExpandTo(v, n) \/ Reserve(v, n)
       PROVE  \E b : Acts(v, b)
  <2>1. Callable(memory, v)
    BY <1>4, <1>11 DEF Insert, RemoveIndex, Resize, Expand, ExpandTo, Reserve
  <2> QED BY <1>2, <1>11, <2>1, IndexedActs
<1>12. 0 .. MaxSize \subseteq Nat
  BY VectorOK
<1> QED BY <1>1, <1>5, <1>6, <1>7, <1>8, <1>9, <1>10, <1>11, <1>12

-----------------------------------------------------------------------------
(* What the abstract specification sees *)

\* What the abstract specification sees of the vectors, and of the maps
Seqs == [v \in Vectors |-> IF MovedFrom(v) THEN Unspecified ELSE Elements(memory, v)]
Functions == [m \in Maps |-> IF m \in copied THEN Unspecified ELSE [k \in Keys |-> Get(m, k)]]

LEMMA SeqsIs ==
    ASSUME NEW v \in Vectors
    PROVE  /\ Seqs[v] = Content(memory, v) /\ Seqs'[v] = Content(memory', v)
<1>1. MovedFrom(v) <=> Gone(memory.vectors[v])
  BY MemoryIs DEF MovedFrom, Gone
<1>2. (MovedFrom(v) <=> Gone(memory.vectors[v]))'
  BY DEF MovedFrom, Gone, memory
<1>3. Seqs[v] = Content(memory, v)
  BY <1>1 DEF Seqs, Content
<1>4. Seqs'[v] = Content(memory', v)
  BY <1>2 DEF Seqs, Content
<1> QED BY <1>3, <1>4

LEMMA FunctionsStay ==
    ASSUME \A m \in Maps \ copied : memory'.vectors[m] = memory.vectors[m] /\ Slots(memory', m) = Slots(memory, m),
           copied' = copied
    PROVE  Functions' = Functions
<1>1. ASSUME NEW m \in Maps \ copied, NEW k \in Keys PROVE Get(m, k)' = Get(m, k)
  <2>1. Slots(memory, m)' = Slots(memory, m)
    BY <1>1
  <2>2. Capacity(m)' = Capacity(m)
    BY <1>1 DEF Capacity, memory
  <2>3. Find(m, k)' = Find(m, k)
    BY <2>1, <2>2, Zenon DEF Find
  <2> QED BY <2>1, <2>3, Zenon DEF Get
<1> QED BY <1>1 DEF Functions

\* The content of a vector is a sequence, not Unspecified, unless it was moved from.
LEMMA ContentIs ==
    ASSUME NEW m, Sound(m), client = "vectors", NEW v \in Vectors
    PROVE  IF Gone(m.vectors[v]) THEN Content(m, v) = Unspecified
           ELSE Content(m, v) = Elements(m, v) /\ Content(m, v) # Unspecified
<1>1. Suits(v)
  BY ConstantsApart DEF Suits
<1>2. PICK s : s = Elements(m, v)
  OBVIOUS
<1>3. s \in Seq(Values \cup {Unset})
  BY <1>1, <1>2, ElementsIs
<1>4. s # Unspecified
  BY <1>3, UnspecifiedOK
<1> QED BY <1>2, <1>4, Zenon DEF Content

LEMMA OneChanges ==
    ASSUME Sound(memory), client = "vectors", NEW v \in Vectors, NEW b, memory' = b, Effect(memory, b, v)
    PROVE  Abstract!ChangeOne \/ Seqs' = Seqs
<1>1. Sound(b) /\ Others(memory, b, v) /\ Changes(memory, b, v)
  BY DEF Effect
<1>2. \A w \in Vectors \ {v} : Seqs'[w] = Seqs[w]
  <2> SUFFICES ASSUME NEW w \in Vectors \ {v} PROVE Seqs'[w] = Seqs[w]
    OBVIOUS
  <2>1. Content(b, w) = Content(memory, w)
    BY <1>1, OtherElements, ConstantsApart
  <2> QED BY <2>1, SeqsIs
<1>3. Seqs[v] = Content(memory, v) /\ Seqs'[v] = Content(b, v)
  BY SeqsIs
<1>4. Seqs = [w \in Vectors |-> Seqs[w]] /\ Seqs' = [w \in Vectors |-> Seqs'[w]]
  BY DEF Seqs
<1>5. CASE Content(b, v) = Content(memory, v)
  BY <1>2, <1>3, <1>4, <1>5
<1>6. CASE Content(b, v) = <<>>
  <2>1. Seqs'[v] = <<>>
    BY <1>3, <1>6
  <2> QED BY <1>2, <2>1 DEF Abstract!ChangeOne, Seqs
<1>7. CASE /\ ~Gone(memory.vectors[v]) /\ ~Gone(b.vectors[v])
           /\ \/ Abstract!ChangedSeq(Elements(memory, v), Elements(b, v))
              \/ \E w \in Vectors :
                     /\ ~Gone(memory.vectors[w])
                     /\ Elements(b, v) \in {Elements(memory, w), Elements(memory, v) \o Elements(memory, w)}
  <2>1. /\ Seqs[v] = Elements(memory, v) /\ Seqs[v] # Unspecified
        /\ Seqs'[v] = Elements(b, v) /\ Seqs'[v] # Unspecified
    BY <1>1, <1>3, <1>7, ContentIs
  <2>2. \A w \in Vectors : ~Gone(memory.vectors[w]) => Seqs[w] = Elements(memory, w) /\ Seqs[w] # Unspecified
    BY SeqsIs, ContentIs
  <2>3. \/ Abstract!ChangedSeq(Seqs[v], Seqs'[v])
        \/ \E w \in Vectors : Seqs[w] # Unspecified /\ Seqs'[v] \in {Seqs[w], Seqs[v] \o Seqs[w]}
    BY <1>7, <2>1, <2>2
  <2> QED BY <1>2, <2>1, <2>3 DEF Abstract!ChangeOne, Seqs
<1> QED BY <1>1, <1>5, <1>6, <1>7 DEF Changes

LEMMA OneMoves ==
    ASSUME NEW v \in Vectors, NEW w \in Vectors, NEW b, memory' = b, Moves(memory, b, v, w)
    PROVE  Abstract!Move
<1>1. \A u \in Vectors : Seqs[u] = Content(memory, u) /\ Seqs'[u] = Content(b, u)
  BY SeqsIs
<1>2. /\ Seqs'[v] = IF v = w THEN <<>> ELSE Seqs[w]
      /\ v # w => Seqs'[w] \in {Unspecified, Seqs[w]} /\ (Seqs[w] # <<>> => Seqs'[w] = Unspecified)
      /\ \A u \in Vectors \ {v, w} : Seqs'[u] = Seqs[u]
  BY <1>1 DEF Moves
<1> QED BY <1>2 DEF Abstract!Move, Seqs

LEMMA VectorRefines ==
    ASSUME Typed, client = "vectors", VectorNext, UNCHANGED mapVars
    PROVE  Abstract!Next \/ (Seqs' = Seqs /\ Functions' = Functions)
<1>1. PICK v \in Vectors : \E b : Acts(v, b)
  BY VectorActs
<1>2. PICK b : Acts(v, b)
  BY <1>1
<1>3. Sound(b) /\ Remember(b) /\ (Effect(memory, b, v) \/ \E w \in Vectors : Moves(memory, b, v, w))
  BY <1>2 DEF Acts, Effect
<1>4. memory' = b
  BY <1>3, RememberSound
<1>5. Sound(memory) /\ copied' = copied
  <2>1. calls < MaxCalls
    BY VectorCalls
  <2> QED BY <2>1, CallIs DEF mapVars
<1>6. CASE Effect(memory, b, v)
  <2>1. Functions' = Functions
    <3>1. \A m \in Maps : b.vectors[m] = memory.vectors[m] /\ Slots(b, m) = Slots(memory, m)
      BY <1>6, OtherElements, ConstantsApart DEF Effect
    <3> QED BY <1>4, <1>5, <3>1, FunctionsStay
  <2>2. Abstract!ChangeOne \/ Seqs' = Seqs
    BY <1>4, <1>5, <1>6, OneChanges
  <2> QED BY <2>1, <2>2 DEF Abstract!Next, Functions
<1>7. ASSUME NEW w \in Vectors, Moves(memory, b, v, w)
      PROVE  Abstract!Next \/ (Seqs' = Seqs /\ Functions' = Functions)
  <2>1. Functions' = Functions
    <3>1. \A m \in Maps : b.vectors[m] = memory.vectors[m] /\ Slots(b, m) = Slots(memory, m)
      BY <1>7, ConstantsApart DEF Moves
    <3> QED BY <1>4, <1>5, <3>1, FunctionsStay
  <2>2. Abstract!Move
    BY <1>4, <1>7, OneMoves
  <2> QED BY <2>1, <2>2 DEF Abstract!Next, Functions
<1> QED BY <1>3, <1>6, <1>7

-----------------------------------------------------------------------------
(* What a table answers *)

\* The value of a key in the table s of c slots
Looked(s, c, k) ==
    LET used == {i \in FindNode(s, c, k) : s[i].state = "USED"}
    IN  IF used = {} THEN None ELSE s[Min(used)].value

FunctionOf(s, c) == [k \in Keys |-> Looked(s, c, k)]

LEMMA LookedIs ==
    ASSUME NEW s, NEW c, IsTable(s, c), Placed(s, c), NEW k \in Keys
    PROVE  /\ (\A i \in UsedOf(s) : s[i].key # k) => Looked(s, c, k) = None
           /\ \A i \in UsedOf(s) : s[i].key = k => Looked(s, c, k) = s[i].value
<1>1. c \in Nat /\ DOMAIN s = 0 .. c - 1
  BY DEF IsTable
<1>2. PICK F : F = FindNode(s, c, k)
  OBVIOUS
<1>3. F = Searched(s, Home(k, c), k)
  BY <1>2, Zenon DEF FindNode
<1>4. PICK U : U = {i \in F : s[i].state = "USED"}
  OBVIOUS
<1>5. Looked(s, c, k) = IF U = {} THEN None ELSE s[Min(U)].value
  BY <1>2, <1>4, Zenon DEF Looked
<1>6. ASSUME \A i \in UsedOf(s) : s[i].key # k PROVE Looked(s, c, k) = None
  <2>1. \A i \in F : i \in 0 .. c - 1 /\ Ends(s[i], k)
    BY <1>1, <1>3, SearchedIn
  <2>2. U = {}
    BY <1>1, <1>4, <1>6, <2>1 DEF UsedOf, Ends, IsAvailable
  <2> QED BY <1>5, <2>2
<1>7. ASSUME NEW i \in UsedOf(s), s[i].key = k PROVE Looked(s, c, k) = s[i].value
  <2>1. F = {i}
    BY <1>3, <1>7 DEF Placed
  <2>2. U = {i} /\ i \in 0 .. c
    BY <1>1, <1>4, <2>1 DEF UsedOf
  <2>3. Min(U) \in U
    <3>1. U \subseteq 0 .. c /\ U # {}
      BY <2>2
    <3> QED BY <1>1, <3>1, MinIn
  <2>4. Min(U) = i
    BY <2>2, <2>3
  <2> QED BY <1>5, <2>2, <2>4
<1> QED BY <1>6, <1>7

\* What a map answers is a function from keys to values.
LEMMA FunctionIs ==
    ASSUME NEW s, NEW c, IsTable(s, c), Placed(s, c)
    PROVE  FunctionOf(s, c) \in [Keys -> Values \cup {None}]
<1>1. ASSUME NEW k \in Keys PROVE Looked(s, c, k) \in Values \cup {None}
  <2>1. ASSUME NEW i \in UsedOf(s) PROVE s[i].value \in Values
    <3>1. s[i] \in Nodes /\ s[i].state = "USED"
      BY DEF UsedOf, IsTable
    <3> QED BY <3>1 DEF Nodes, UnusedNode, RemovedNode
  <2> QED BY <2>1, LookedIs
<1> QED BY <1>1 DEF FunctionOf

\* Tables with the same entries are the same function.
LEMMA SameEntries ==
    ASSUME NEW s, NEW c, IsTable(s, c), Placed(s, c), NEW t, NEW d, IsTable(t, d), Placed(t, d),
           \A i \in UsedOf(s) : \E j \in UsedOf(t) : t[j] = s[i],
           \A j \in UsedOf(t) : \E i \in UsedOf(s) : t[j] = s[i]
    PROVE  FunctionOf(t, d) = FunctionOf(s, c)
<1>1. ASSUME NEW k \in Keys PROVE Looked(t, d, k) = Looked(s, c, k)
  <2>1. CASE \E i \in UsedOf(s) : s[i].key = k
    <3>1. PICK i \in UsedOf(s) : s[i].key = k
      BY <2>1
    <3>2. PICK j \in UsedOf(t) : t[j] = s[i]
      OBVIOUS
    <3>3. Looked(s, c, k) = s[i].value /\ Looked(t, d, k) = t[j].value
      BY <3>1, <3>2, LookedIs
    <3> QED BY <3>2, <3>3
  <2>2. CASE \A i \in UsedOf(s) : s[i].key # k
    <3>1. \A j \in UsedOf(t) : t[j].key # k
      BY <2>2
    <3> QED BY <2>2, <3>1, LookedIs
  <2> QED BY <2>1, <2>2
<1> QED BY <1>1 DEF FunctionOf

\* No entry, no value.
LEMMA BareFunction ==
    ASSUME NEW s, NEW c, IsTable(s, c), Placed(s, c), UsedOf(s) = {}
    PROVE  FunctionOf(s, c) = [k \in Keys |-> None]
<1>1. \A k \in Keys : Looked(s, c, k) = None
  BY LookedIs
<1> QED BY <1>1 DEF FunctionOf

\* A node put where the search for its key ends gives that key its value, and no other.
LEMMA StoreFunction ==
    ASSUME NEW s, NEW c, IsTable(s, c), Placed(s, c),
           NEW node \in Nodes, node.state = "USED", NEW i, Searched(s, Home(node.key, c), node.key) = {i},
           c = Power[KeyBits] => i = node.key,
           NEW t, With(s, c, t, i, node)
    PROVE  /\ FunctionOf(t, c)[node.key] = node.value
           /\ \A k \in Keys : k # node.key => FunctionOf(t, c)[k] = FunctionOf(s, c)[k]
<1>1. /\ IsTable(t, c) /\ Placed(t, c) /\ i \in 0 .. c - 1
      /\ UsedOf(t) = UsedOf(s) \cup {i}
      /\ s[i].state = "USED" => s[i].key = node.key
  BY StorePlaced
<1>2. node.key \in Keys
  BY NodeIs
<1>3. t[i] = node /\ \A j \in 0 .. c - 1 : j # i => t[j] = s[j]
  BY DEF With
<1>4. UsedOf(s) \subseteq 0 .. c - 1
  BY UsedFinite
<1>5. Looked(t, c, node.key) = node.value
  BY <1>1, <1>2, <1>3, LookedIs
<1>6. ASSUME NEW k \in Keys, k # node.key PROVE Looked(t, c, k) = Looked(s, c, k)
  <2>1. CASE \E j \in UsedOf(s) : s[j].key = k
    <3>1. PICK j \in UsedOf(s) : s[j].key = k
      BY <2>1
    <3>2. j # i
      BY <1>1, <1>6, <3>1 DEF UsedOf
    <3>3. j \in UsedOf(t) /\ t[j] = s[j]
      BY <1>1, <1>3, <1>4, <3>2
    <3>4. Looked(s, c, k) = s[j].value
      BY <3>1, LookedIs
    <3>5. Looked(t, c, k) = t[j].value
      BY <1>1, <3>1, <3>3, LookedIs
    <3> QED BY <3>3, <3>4, <3>5
  <2>2. CASE \A j \in UsedOf(s) : s[j].key # k
    <3>1. \A j \in UsedOf(t) : t[j].key # k
      BY <1>1, <1>3, <1>4, <1>6, <2>2
    <3>2. Looked(s, c, k) = None
      BY <2>2, LookedIs
    <3>3. Looked(t, c, k) = None
      BY <1>1, <3>1, LookedIs
    <3> QED BY <3>2, <3>3
  <2> QED BY <2>1, <2>2
<1> QED BY <1>2, <1>5, <1>6 DEF FunctionOf

\* The table twice as large is the same function once every slot is passed.
LEMMA CarriedFunction ==
    ASSUME NEW s, NEW c, IsTable(s, c), Placed(s, c), NEW t, Partial(s, c, t, c)
    PROVE  FunctionOf(t, 2 * c) = FunctionOf(s, c)
<1>1. PICK d : d = 2 * c
  OBVIOUS
<1>2. IsTable(t, d) /\ Placed(t, d) /\ CarriedFrom(s, c, t, c) /\ AsMany(s, t, c)
  BY <1>1 DEF Partial
<1>3. PICK S : S = UsedOf(s)
  OBVIOUS
<1>4. PICK T : T = UsedOf(t)
  OBVIOUS
<1>5. IsFiniteSet(S) /\ S \subseteq 0 .. c - 1 /\ DOMAIN s = 0 .. c - 1
  BY <1>3, UsedFinite DEF IsTable
<1>6. Cardinality(T) = Cardinality(S)
  <2>1. S \cap (0 .. c - 1) = S
    BY <1>5
  <2> QED BY <1>2, <1>3, <1>4, <2>1, Zenon DEF AsMany
<1>7. \A i \in T : \E j \in S : t[i] = s[j]
  <2> SUFFICES ASSUME NEW i \in T PROVE \E j \in S : t[i] = s[j]
    OBVIOUS
  <2>1. PICK j \in 0 .. c - 1 : t[i] = s[j]
    BY <1>2, <1>4 DEF CarriedFrom
  <2>2. t[i].state = "USED"
    BY <1>4 DEF UsedOf
  <2> QED BY <1>3, <1>5, <2>1, <2>2 DEF UsedOf
<1>8. PICK g : g = [i \in T |-> CHOOSE j \in S : t[i] = s[j]]
  OBVIOUS
<1>9. \A i \in T : g[i] \in S /\ t[i] = s[g[i]]
  BY <1>7, <1>8
<1>10. g \in [T -> S]
  BY <1>8, <1>9
<1>11. \A i, j \in T : g[i] = g[j] => i = j
  <2> SUFFICES ASSUME NEW i \in T, NEW j \in T, g[i] = g[j] PROVE i = j
    OBVIOUS
  <2>1. t[i].key = t[j].key
    BY <1>9
  <2>2. Searched(t, Home(t[i].key, d), t[i].key) = {i} /\ Searched(t, Home(t[j].key, d), t[j].key) = {j}
    BY <1>2, <1>4 DEF Placed
  <2> QED BY <2>1, <2>2
<1> HIDE <1>3, <1>4, <1>8
<1>12. g \in Injection(T, S)
  BY <1>10, <1>11, Zenon DEF Injection, IsInjective
<1>13. g \in Surjection(T, S)
  BY <1>5, <1>6, <1>12, FS_Injection
<1>14. \A j \in S : \E i \in T : g[i] = j
  BY <1>13 DEF Surjection
<1>15. \A j \in S : \E i \in T : t[i] = s[j]
  BY <1>9, <1>14
<1>16. FunctionOf(t, d) = FunctionOf(s, c)
  BY <1>2, <1>3, <1>4, <1>7, <1>15, SameEntries
<1> QED BY <1>1, <1>16

-----------------------------------------------------------------------------
(* The steps of a map *)

LEMMA FunctionsAre ==
    ASSUME NEW m \in Maps
    PROVE  /\ Functions[m] = IF m \in copied THEN Unspecified
                             ELSE FunctionOf(Slots(memory, m), memory.vectors[m].capacity)
           /\ Functions'[m] = IF m \in copied' THEN Unspecified
                              ELSE FunctionOf(Slots(memory', m), memory'.vectors[m].capacity)
<1>1. Capacity(m) = memory.vectors[m].capacity
  BY MemoryIs DEF Capacity
<1>2. Capacity(m)' = memory'.vectors[m].capacity
  BY DEF Capacity, memory
<1>3. Slots(memory, m)' = Slots(memory', m)
  BY DEF Slots
<1>4. ASSUME NEW k \in Keys PROVE Get(m, k) = Looked(Slots(memory, m), memory.vectors[m].capacity, k)
  BY <1>1, Zenon DEF Get, Find, Looked
<1>5. ASSUME NEW k \in Keys PROVE Get(m, k)' = Looked(Slots(memory', m), memory'.vectors[m].capacity, k)
  <2>1. Find(m, k)' = FindNode(Slots(memory', m), memory'.vectors[m].capacity, k)
    BY <1>2, <1>3, Zenon DEF Find
  <2> QED BY <1>3, <2>1, Zenon DEF Get, Looked
<1> QED BY <1>4, <1>5 DEF Functions, FunctionOf

LEMMA TableIs ==
    ASSUME IInv, client = "maps", NEW m \in Maps \ copied
    PROVE  /\ IsTable(Slots(memory, m), memory.vectors[m].capacity)
           /\ Placed(Slots(memory, m), memory.vectors[m].capacity)
           /\ Functions[m] = FunctionOf(Slots(memory, m), memory.vectors[m].capacity)
           /\ Functions[m] # Unspecified
<1>1. /\ IsTable(Slots(memory, m), memory.vectors[m].capacity)
      /\ Placed(Slots(memory, m), memory.vectors[m].capacity)
  BY DEF IInv, Entries, Tabled, Entry
<1>2. Functions[m] = FunctionOf(Slots(memory, m), memory.vectors[m].capacity)
  BY FunctionsAre
<1>3. Functions[m] \in [Keys -> Values \cup {None}]
  BY <1>1, <1>2, FunctionIs
<1> QED BY <1>1, <1>2, <1>3, UnspecifiedOK

LEMMA TableThen ==
    ASSUME IInv', client' = "maps", NEW m \in Maps \ copied'
    PROVE  /\ IsTable(Slots(memory', m), memory'.vectors[m].capacity)
           /\ Placed(Slots(memory', m), memory'.vectors[m].capacity)
           /\ Functions'[m] = FunctionOf(Slots(memory', m), memory'.vectors[m].capacity)
<1>1. /\ IsTable(Slots(memory', m), memory'.vectors[m].capacity)
      /\ Placed(Slots(memory', m), memory'.vectors[m].capacity)
  BY DEF IInv, Entries, Tabled, Entry
<1> QED BY <1>1, FunctionsAre

\* The other maps and the vectors stay the functions and the sequences they were.
LEMMA OthersStay ==
    ASSUME NEW m \in Maps, Others(memory, memory', m), copied' \ {m} = copied \ {m}
    PROVE  Seqs' = Seqs /\ \A p \in Maps \ {m} : Functions'[p] = Functions[p]
<1>1. PICK b : b = memory'
  OBVIOUS
<1>2. Others(memory, b, m)
  BY <1>1
<1> HIDE <1>1
<1>3. ASSUME NEW v \in Vectors PROVE Seqs'[v] = Seqs[v]
  <2>1. v \in Objects /\ v # m
    BY ConstantsApart
  <2>2. Content(b, v) = Content(memory, v)
    BY <1>2, <2>1, OtherElements
  <2> QED BY <1>1, <2>2, SeqsIs
<1>4. ASSUME NEW p \in Maps \ {m} PROVE Functions'[p] = Functions[p]
  <2>1. p \in Objects /\ p # m
    BY ConstantsApart
  <2>2. b.vectors[p] = memory.vectors[p] /\ Slots(b, p) = Slots(memory, p)
    BY <1>2, <2>1, OtherElements
  <2>3. p \in copied' <=> p \in copied
    OBVIOUS
  <2> QED BY <1>1, <2>2, <2>3, FunctionsAre
<1> QED BY <1>3, <1>4 DEF Seqs

LEMMA UnseenStay ==
    ASSUME Unseen(memory, memory'), copied' = copied
    PROVE  Seqs' = Seqs /\ Functions' = Functions
<1>1. PICK b : b = memory'
  OBVIOUS
<1>2. \A p \in Objects : b.vectors[p] = memory.vectors[p] /\ Slots(b, p) = Slots(memory, p)
  BY <1>1 DEF Unseen
<1>3. Functions' = Functions
  BY <1>1, <1>2, FunctionsStay, ConstantsApart
<1>4. ASSUME NEW v \in Vectors PROVE Seqs'[v] = Seqs[v]
  <2>1. v \in Objects
    BY ConstantsApart
  <2>2. b.vectors[v] = memory.vectors[v] /\ Slots(b, v) = Slots(memory, v)
    BY <1>2, <2>1
  <2>3. Size(b, v) = Size(memory, v)
    BY <2>2, Zenon DEF Size
  <2>4. \A i : Element(b, v, i) = Element(memory, v, i)
    BY <2>2, Zenon DEF Element
  <2>5. Elements(b, v) = Elements(memory, v)
    BY <2>3, <2>4, Zenon DEF Elements
  <2>6. Content(b, v) = Content(memory, v)
    BY <2>2, <2>5, Zenon DEF Content
  <2> QED BY <1>1, <2>6, SeqsIs
<1> QED BY <1>3, <1>4 DEF Seqs

\* One key with a value is one put.
LEMMA PutIs ==
    ASSUME NEW f, NEW g, NEW key \in Keys, g[key] \in Values, \A k \in Keys : k # key => g[k] = f[k]
    PROVE  Abstract!PutIn(f, g)
<1>1. PICK keys : keys = {k \in Keys : g[k] # f[k]}
  OBVIOUS
<1>2. keys \subseteq {key} /\ \A k \in keys : g[k] \in Values
  BY <1>1
<1>3. Cardinality(keys) <= 1
  <2>1. IsFiniteSet({key}) /\ Cardinality({key}) = 1
    BY FS_Singleton
  <2>2. keys \in SUBSET {key}
    BY <1>2
  <2> QED BY <2>1, <2>2, FS_Subset
<1>4. Abstract!Cardinality(keys) <= 1
  BY <1>3, SameCount
<1> QED BY <1>1, <1>2, <1>4, Zenon DEF Abstract!PutIn

\* One map changes.
LEMMA MapChanges ==
    ASSUME NEW m \in Maps, Others(memory, memory', m), copied' \ {m} = copied \ {m},
           \/ Functions'[m] \in {Functions[m], Unspecified, [k \in Keys |-> None]}
           \/ Functions[m] # Unspecified /\ Abstract!PutIn(Functions[m], Functions'[m])
    PROVE  Abstract!Next \/ (Seqs' = Seqs /\ Functions' = Functions)
<1>1. Seqs' = Seqs /\ \A p \in Maps \ {m} : Functions'[p] = Functions[p]
  BY OthersStay
<1>2. CASE Functions'[m] = Functions[m]
  BY <1>1, <1>2 DEF Functions
<1>3. CASE \/ Functions'[m] \in {Unspecified, [k \in Keys |-> None]}
           \/ Functions[m] # Unspecified /\ Abstract!PutIn(Functions[m], Functions'[m])
  <2>1. Abstract!ChangedMap(Functions[m], Functions'[m])
    BY <1>3 DEF Abstract!ChangedMap, Abstract!Empty
  <2> QED BY <1>1, <2>1 DEF Abstract!Next, Abstract!ChangeMap, Functions, Seqs
<1> QED BY <1>2, <1>3

LEMMA FoundRefines ==
    ASSUME IInv, client = "maps", Found
    PROVE  Abstract!Next \/ (Seqs' = Seqs /\ Functions' = Functions)
<1>1. PICK m : m = job.map
  OBVIOUS
<1>2. PICK k : k = job.key
  OBVIOUS
<1>3. job.at = "find" /\ copied' = copied /\ client' = client
  BY DEF Found
<1>4. m \in Maps /\ k \in Keys /\ job.value \in Values
  BY <1>1, <1>2, <1>3, JobIs DEF IInv
<1>5. PICK c : c = vectors[m].capacity
  OBVIOUS
<1>6. /\ IInv' /\ Others(memory, memory', m)
      /\ m \notin copied =>
             /\ memory'.vectors[m].capacity = c
             /\ Puts(Slots(memory, m), c, Slots(memory', m), JobNode)
  BY <1>1, <1>5, FoundKeeps
<1>7. CASE m \in copied
  <2>1. Functions'[m] = Functions[m]
    BY <1>3, <1>4, <1>7, FunctionsAre
  <2> QED BY <1>3, <1>4, <1>6, <2>1, MapChanges
<1>8. CASE m \notin copied
  <2>1. memory.vectors[m].capacity = c
    BY <1>5, MemoryIs
  <2>2. PICK s : s = Slots(memory, m)
    OBVIOUS
  <2>3. PICK t : t = Slots(memory', m)
    OBVIOUS
  <2>4. PICK node : node = JobNode
    OBVIOUS
  <2>5. IsTable(s, c) /\ Placed(s, c) /\ Functions[m] = FunctionOf(s, c) /\ Functions[m] # Unspecified
    BY <1>4, <1>8, <2>1, <2>2, TableIs
  <2>6. Functions'[m] = FunctionOf(t, c)
    BY <1>3, <1>4, <1>6, <1>8, <2>3, FunctionsAre
  <2>7. node \in Nodes /\ node.key = k /\ node.state = "USED" /\ node.value = job.value
    <3>1. node = [key |-> k, value |-> job.value, state |-> "USED"]
      BY <1>2, <2>4, Zenon DEF JobNode
    <3> QED BY <1>4, <3>1, NodeIs
  <2>8. PICK i : /\ Searched(s, Home(node.key, c), node.key) = {i} /\ (c = Power[KeyBits] => i = node.key)
                 /\ With(s, c, t, i, node)
    BY <1>6, <1>8, <2>2, <2>3, <2>4, Zenon DEF Puts
  <2>9. FunctionOf(t, c)[node.key] = node.value /\ \A l \in Keys : l # node.key => FunctionOf(t, c)[l] = FunctionOf(s, c)[l]
    BY <2>5, <2>7, <2>8, StoreFunction
  <2> HIDE <2>4
  <2>10. Abstract!PutIn(Functions[m], Functions'[m])
    <3>1. PICK f : f = FunctionOf(s, c)
      OBVIOUS
    <3>2. PICK g : g = FunctionOf(t, c)
      OBVIOUS
    <3>3. g[k] \in Values /\ \A l \in Keys : l # k => g[l] = f[l]
      BY <1>4, <2>7, <2>9, <3>1, <3>2
    <3>4. Abstract!PutIn(f, g)
      BY <1>4, <3>3, PutIs
    <3> QED BY <2>5, <2>6, <3>1, <3>2, <3>4
  <2> QED BY <1>3, <1>4, <1>6, <2>5, <2>10, MapChanges
<1> QED BY <1>7, <1>8

LEMMA SetTableRefines ==
    ASSUME IInv, client = "maps", SetTable
    PROVE  Abstract!Next \/ (Seqs' = Seqs /\ Functions' = Functions)
<1>1. PICK m : m = job.map
  OBVIOUS
<1>2. job.at = "rehash" /\ copied' = copied /\ client' = client
  BY DEF SetTable
<1>3. m \in Maps
  BY <1>1, <1>2, JobIs DEF IInv
<1>4. PICK c : c = vectors[m].capacity
  OBVIOUS
<1>5. /\ Others(memory, memory', m)
      /\ m \notin copied => /\ Partial(Slots(memory, m), c, Slots(memory', m), c)
                            /\ memory'.vectors[m].capacity = 2 * c
  BY <1>1, <1>4, SetTableKeeps
<1>6. Functions'[m] = Functions[m]
  <2>1. CASE m \in copied
    BY <1>2, <1>3, <2>1, FunctionsAre
  <2>2. CASE m \notin copied
    <3>1. memory.vectors[m].capacity = c
      BY <1>4, MemoryIs
    <3>2. PICK s : s = Slots(memory, m)
      OBVIOUS
    <3>3. PICK t : t = Slots(memory', m)
      OBVIOUS
    <3>4. IsTable(s, c) /\ Placed(s, c) /\ Functions[m] = FunctionOf(s, c)
      BY <1>3, <2>2, <3>1, <3>2, TableIs
    <3>5. Functions'[m] = FunctionOf(t, 2 * c)
      BY <1>2, <1>3, <1>5, <2>2, <3>3, FunctionsAre
    <3>6. Partial(s, c, t, c)
      BY <1>5, <2>2, <3>2, <3>3
    <3>7. FunctionOf(t, 2 * c) = FunctionOf(s, c)
      BY <3>4, <3>6, CarriedFunction
    <3> QED BY <3>4, <3>5, <3>7
  <2> QED BY <2>1, <2>2
<1> QED BY <1>2, <1>3, <1>5, <1>6, MapChanges

LEMMA ClearMapRefines ==
    ASSUME IInv, client = "maps", NEW m \in Maps, ClearMap(m)
    PROVE  Abstract!Next \/ (Seqs' = Seqs /\ Functions' = Functions)
<1>1. IInv' /\ Others(memory, memory', m) /\ (m \notin copied => UsedOf(Slots(memory', m)) = {})
  BY ClearMapKeeps
<1>2. copied' = copied /\ client' = client
  BY DEF ClearMap, mapVars
<1>3. CASE m \in copied
  <2>1. Functions'[m] = Functions[m]
    BY <1>2, <1>3, FunctionsAre
  <2> QED BY <1>1, <1>2, <2>1, MapChanges
<1>4. CASE m \notin copied
  <2>1. Functions'[m] = [k \in Keys |-> None]
    BY <1>1, <1>2, <1>4, TableThen, BareFunction
  <2> QED BY <1>1, <1>2, <2>1, MapChanges
<1> QED BY <1>3, <1>4

LEMMA CopyMapRefines ==
    ASSUME IInv, client = "maps", NEW m \in Maps, NEW n \in Maps, CopyMap(m, n)
    PROVE  Abstract!Next \/ (Seqs' = Seqs /\ Functions' = Functions)
<1>1. /\ Others(memory, memory', m)
      /\ m = n => Slots(memory', m) = Slots(memory, m) /\ memory'.vectors[m].capacity = memory.vectors[m].capacity
  BY CopyMapKeeps
<1>2. copied' = IF m = n THEN copied ELSE copied \cup {m}
  BY DEF CopyMap
<1>3. Functions'[m] \in {Functions[m], Unspecified}
  <2>1. CASE m = n
    BY <1>1, <1>2, <2>1, FunctionsAre
  <2>2. CASE m # n
    BY <1>2, <2>2, FunctionsAre
  <2> QED BY <2>1, <2>2
<1>4. copied' \ {m} = copied \ {m}
  BY <1>2
<1> QED BY <1>1, <1>3, <1>4, MapChanges

LEMMA RenewMapRefines ==
    ASSUME IInv, client = "maps", NEW m \in Maps, RenewMap(m)
    PROVE  Abstract!Next \/ (Seqs' = Seqs /\ Functions' = Functions)
<1>1. IInv' /\ Others(memory, memory', m) /\ UsedOf(Slots(memory', m)) = {}
  BY RenewMapKeeps
<1>2. copied' = copied \ {m} /\ client' = client
  BY DEF RenewMap
<1>3. Functions'[m] = [k \in Keys |-> None]
  BY <1>1, <1>2, TableThen, BareFunction
<1>4. copied' \ {m} = copied \ {m}
  BY <1>2
<1> QED BY <1>1, <1>3, <1>4, MapChanges

LEMMA MapRefines ==
    ASSUME IInv, client = "maps", MapNext
    PROVE  Abstract!Next \/ (Seqs' = Seqs /\ Functions' = Functions)
<1>1. ASSUME NEW m \in Maps, NEW k \in Keys, NEW x \in Values, AddEntry(m, k, x)
      PROVE  Seqs' = Seqs /\ Functions' = Functions
  <2>1. memory' = memory /\ copied' = copied
    BY <1>1 DEF AddEntry, memory
  <2> QED BY <2>1, UnseenStay DEF Unseen
<1>2. ASSUME NEW m \in Maps, NEW n \in Maps, CopyMap(m, n)
      PROVE  Abstract!Next \/ (Seqs' = Seqs /\ Functions' = Functions)
  BY <1>2, CopyMapRefines
<1>3. ASSUME NEW m \in Maps, ClearMap(m)
      PROVE  Abstract!Next \/ (Seqs' = Seqs /\ Functions' = Functions)
  BY <1>3, ClearMapRefines
<1>4. ASSUME NEW m \in Maps, RenewMap(m)
      PROVE  Abstract!Next \/ (Seqs' = Seqs /\ Functions' = Functions)
  BY <1>4, RenewMapRefines
<1>5. CASE Found
  BY <1>5, FoundRefines
<1>6. CASE Grow
  <2>1. copied' = copied
    BY <1>6 DEF Grow
  <2> QED BY <1>6, <2>1, GrowKeeps, UnseenStay
<1>7. CASE Rehash
  <2>1. copied' = copied
    BY <1>7 DEF Rehash
  <2> QED BY <1>7, <2>1, RehashKeeps, UnseenStay
<1>8. CASE SetTable
  BY <1>8, SetTableRefines
<1> QED BY <1>1, <1>2, <1>3, <1>4, <1>5, <1>6, <1>7, <1>8 DEF MapNext

\* Each step is one of the abstract specification's, or is not seen there.
LEMMA NextRefines ==
    ASSUME IInv, [Next]_vars
    PROVE  [Abstract!Next]_<<Seqs, Functions>>
<1>1. CASE client = "vectors" /\ VectorNext /\ UNCHANGED mapVars
  BY <1>1, VectorRefines DEF IInv
<1>2. CASE client = "maps" /\ MapNext
  BY <1>2, MapRefines
<1>3. CASE UNCHANGED vars
  <2>1. memory' = memory /\ copied' = copied
    BY <1>3 DEF memory, vars, vectorVars, mapVars
  <2> QED BY <2>1, UnseenStay DEF Unseen
<1> QED BY <1>1, <1>2, <1>3 DEF Next

LEMMA InitRefines ==
    ASSUME Init
    PROVE  Abstract!Init
<1>1. IInv /\ copied = {} /\ client \in {"vectors", "maps"}
  BY InitKeeps DEF Init
<1>2. /\ memory.vectors = vectors /\ memory.arrays = arrays
  BY MemoryIs
<1>3. /\ \A o \in Maps : vectors[o] = NewMap(o)
      /\ \A o \in Objects \ Maps : vectors[o] = NewVector
      /\ \A a \in Maps : arrays[a] = StackSlots
  BY ConstantsApart DEF Init
<1>4. ASSUME NEW v \in Vectors PROVE Seqs[v] = <<>>
  <2>1. vectors[v] = NewVector
    BY <1>3, ConstantsApart
  <2>2. NewVector.size = 0 /\ NewVector.capacity = 0
    BY Zenon DEF NewVector
  <2>3. ~Gone(memory.vectors[v])
    BY <1>2, <2>1, <2>2 DEF Gone
  <2>4. Size(memory, v) = 0
    BY <1>2, <2>1, <2>2 DEF Size
  <2>5. Elements(memory, v) = <<>>
    BY <2>4 DEF Elements
  <2> QED BY <2>3, <2>5, SeqsIs, Zenon DEF Content
<1>5. ASSUME NEW m \in Maps PROVE Functions[m] = [k \in Keys |-> None]
  <2>1. Slots(memory, m) = StackSlots /\ memory.vectors[m].capacity = StackCapacity
    BY <1>2, <1>3, StackIs DEF Slots
  <2>2. PICK n \in 0 .. KeyBits : StackCapacity = Power[n]
    BY StackIs
  <2>3. PICK s : s = StackSlots
    OBVIOUS
  <2>4. IsTable(s, StackCapacity) /\ Placed(s, StackCapacity) /\ UsedOf(s) = {}
    BY <2>2, <2>3, StackIs, BarePlaced
  <2> QED BY <1>1, <2>1, <2>3, <2>4, FunctionsAre, BareFunction
<1>6. Seqs = [v \in Vectors |-> <<>>]
  BY <1>4 DEF Seqs
<1>7. Functions = [m \in Maps |-> [k \in Keys |-> None]]
  BY <1>5 DEF Functions
<1> QED BY <1>6, <1>7 DEF Abstract!Init, Seqs, Functions

\* Collections: whatever is called of as many vectors and maps as there are, by each call
\* a vector changes as a sequence would and a map as a function would, and no other one
\* changes; what add() carries to a larger table on its way is not seen (vector.hpp, hash_map.hpp).
THEOREM ContainersAreCollections == Spec => ImplementsCollections
<1>1. Init => Abstract!Init
  BY InitRefines
<1>2. IInv /\ [Next]_vars => [Abstract!Next]_<<Seqs, Functions>>
  BY NextRefines
<1> QED BY <1>1, <1>2, Invariance, PTL DEF Spec, ImplementsCollections, Abstract!Spec, Seqs, Functions

=============================================================================
