------------------------------- MODULE Vector -------------------------------
(***************************************************************************)
(* Gorilla::Vector (src/src/container/vector.hpp): a growing array, kept   *)
(* by a pointer, a capacity, a size and a bit telling whether the array is *)
(* the vector's own to delete.                                             *)
(*                                                                         *)
(* A memory is a record of the three variables below.  The operations are  *)
(* functions from a memory to a memory, so that one may call another, and  *)
(* every public function of the class is one action that stores what its   *)
(* operation returns.                                                      *)
(***************************************************************************)
EXTENDS Integers, Sequences, FiniteSets, FiniteSetsExt, SequencesExt

CONSTANTS
    Vectors,        \* the vectors of the program
    Objects,        \* those, and the vectors inside other containers
    Values,         \* integers, the elements the program adds
    Unset,            \* the value of an element nobody has set
    Blank,          \* object -> what the constructor of its elements leaves
    MaxSize,        \* bound: the largest size and index the program asks for
    MaxCalls,       \* bound: the calls of a behaviour
    MaxArrays       \* bound: the heap arrays alive at once

VARIABLES
    vectors,        \* object -> its members
    arrays,         \* address -> the slots of an array; no slots where none is
    leaked,         \* heap arrays no vector refers to any more
    undefined,      \* the program has done what the language does not define
    calls

\* No call allocates more than one array that it leaves allocated.
ASSUME VectorOK ==
    /\ Vectors \subseteq Objects
    /\ Values \subseteq Int
    /\ MaxSize \in Nat
    /\ MaxCalls \in Nat /\ MaxArrays \in Nat /\ MaxCalls < MaxArrays

Null == 0
Heap == 1 .. MaxArrays
NoSlots == <<>>
NewVector == [array |-> Null, capacity |-> 0, size |-> 0, heap |-> TRUE]

memory == [vectors |-> vectors, arrays |-> arrays, leaked |-> leaked, undefined |-> undefined]

-----------------------------------------------------------------------------
(* The memory *)

Slots(m, o) == m.arrays[m.vectors[o].array]
Size(m, o) == m.vectors[o].size
Element(m, o, i) == IF i \in DOMAIN Slots(m, o) THEN Slots(m, o)[i] ELSE Unset
Elements(m, o) == [i \in 1 .. Size(m, o) |-> Element(m, o, i - 1)]

Allocated(m, id, o, capacity) == [m EXCEPT !.arrays[id] = [i \in 0 .. capacity - 1 |-> Blank[o]]]
FreeAddress(m) == Min({id \in Heap : m.arrays[id] = NoSlots})

Slot(i, x) == [j \in {i} |-> x]
Over(part, slots) == [i \in DOMAIN slots |-> IF i \in DOMAIN part THEN part[i] ELSE slots[i]]

\* A store at an address where there is no such slot is undefined.
Stored(m, address, part) ==
    IF DOMAIN part \subseteq DOMAIN m.arrays[address]
    THEN [m EXCEPT !.arrays[address] = Over(part, @)]
    ELSE [m EXCEPT !.undefined = TRUE]

Written(m, o, part) == Stored(m, m.vectors[o].array, part)
Sized(m, o, n) == [m EXCEPT !.vectors[o].size = n]

SetBuffer(m, o, array, size, capacity, heap) ==
    LET old == m.vectors[o]
        deletes == old.array # Null /\ old.heap
    IN  [m EXCEPT !.vectors[o] = [array |-> array, capacity |-> capacity, size |-> size, heap |-> heap],
                  !.arrays[old.array] = IF deletes THEN NoSlots ELSE @,
                  !.undefined = @ \/ (deletes /\ m.arrays[old.array] = NoSlots)]

Copied(m, id, o) == Stored(m, id, [i \in 0 .. Size(m, o) - 1 |-> Element(m, o, i)])

Moved(m, o, id, capacity, copy) ==
    SetBuffer(IF copy /\ m.vectors[o].array # Null THEN Copied(m, id, o) ELSE m,
              o, id, Size(m, o), capacity, TRUE)

Reserved(m, o, capacity, copy) ==
    IF capacity <= m.vectors[o].capacity
    THEN m
    ELSE Moved(Allocated(m, FreeAddress(m), o, capacity), o, FreeAddress(m), capacity, copy)

-----------------------------------------------------------------------------
(* The functions of the class *)

\* Mutant: the larger array starts without the elements.
Grown_NotCopied(m, o, n) == IF n > m.vectors[o].capacity THEN Reserved(m, o, 2 * n, FALSE) ELSE m

\* Room for n elements, twice that when it has to be made.
Grown(m, o, n) == IF n > m.vectors[o].capacity THEN Reserved(m, o, 2 * n, TRUE) ELSE m

Added(m, o) == Sized(Grown(m, o, Size(m, o) + 1), o, Size(m, o) + 1)

Joined(m, n, o, p) ==
    Sized(Written(n, o, [i \in Size(m, o) .. Size(m, o) + Size(m, p) - 1 |-> Element(n, p, i - Size(m, o))]),
          o, Size(m, o) + Size(m, p))

AddedVector(m, o, p) ==
    IF Size(m, p) = 0 THEN m ELSE Joined(m, Grown(m, o, Size(m, o) + Size(m, p)), o, p)

ExpandedTo(m, o, index) ==
    IF Size(m, o) <= index THEN Sized(Reserved(m, o, index + 1, TRUE), o, index + 1) ELSE m

\* memmove() of what stands at an index and behind it
Shifted(m, o, index) ==
    Written(m, o, [i \in index + 1 .. Size(m, o) - 1 |-> Element(m, o, i - 1)])

Opened(m, o, index) ==
    IF Size(m, o) <= index THEN ExpandedTo(m, o, index) ELSE Shifted(Added(m, o), o, index)

\* Mutant: the index behind the last one is accepted.
RemovedIndex_Behind(m, o, index) ==
    IF index <= Size(m, o)
    THEN Written(Sized(m, o, Size(m, o) - 1), o, Slot(index, Element(m, o, Size(m, o) - 1)))
    ELSE m

RemovedIndex(m, o, index) ==
    IF index < Size(m, o)
    THEN Written(Sized(m, o, Size(m, o) - 1), o, Slot(index, Element(m, o, Size(m, o) - 1)))
    ELSE m

FindIndex(m, o, x) == SelectInSeq(Elements(m, o), LAMBDA y : y = x) - 1
Removed(m, o, x) == IF FindIndex(m, o, x) = -1 THEN m ELSE RemovedIndex(m, o, FindIndex(m, o, x))

Resized(m, o, n) == Sized(Reserved(m, o, n, FALSE), o, n)
Expanded(m, o, n) == Sized(Grown(m, o, Size(m, o) + n), o, Size(m, o) + n)
Filled(m, o, first, x) == Written(m, o, [i \in first .. Size(m, o) - 1 |-> x])

CopyInto(m, o, p) == Written(m, o, [i \in 0 .. Size(m, o) - 1 |-> Element(m, p, i)])
CopyAssigned(m, o, p) ==
    IF Size(m, p) = 0
    THEN Sized(m, o, 0)
    ELSE CopyInto(Reserved(Sized(m, o, Size(m, p)), o, Size(m, p), FALSE), o, p)

\* Mutant: the other keeps its array.
Taken_NotReset(m, o, p) ==
    IF Size(m, p) = 0 THEN m ELSE [m EXCEPT !.vectors[o] = m.vectors[p]]

\* The members of the other are taken, its array only is reset.
Taken(m, o, p) ==
    IF Size(m, p) = 0
    THEN m
    ELSE [m EXCEPT !.vectors[o] = m.vectors[p],
                   !.vectors[p].array = Null,
                   !.leaked = IF m.vectors[o].heap THEN @ \cup ({m.vectors[o].array} \ {Null}) ELSE @]
MoveAssigned(m, o, p) == Taken(Sized(m, o, 0), o, p)

\* The sequence s in ascending order.
Sortings(s) ==
    {t \in [DOMAIN s -> ToSet(s)] :
        /\ \A i, j \in DOMAIN t : i < j => t[i] <= t[j]
        /\ \A x \in ToSet(s) : Cardinality({i \in DOMAIN s : s[i] = x}) = Cardinality({i \in DOMAIN t : t[i] = x})}

Sorted(m, o, t) == Written(m, o, [i \in 0 .. Size(m, o) - 1 |-> t[i + 1]])

-----------------------------------------------------------------------------
(* The calls of a program *)

MovedFrom(o) == vectors[o].array = Null /\ vectors[o].capacity > 0
HasUnset(o) == Unset \in ToSet(Elements(memory, o))

Remember(m) ==
    /\ vectors' = m.vectors
    /\ arrays' = m.arrays
    /\ leaked' = m.leaked
    /\ undefined' = m.undefined

\* A program calls a vector it has moved from only to delete or to assign it.
Call(v) == ~undefined /\ calls < MaxCalls /\ ~MovedFrom(v) /\ calls' = calls + 1

\* What a program passes to put into a vector: a value, or a reference to an
\* element of that vector, which reads anything once the array is another.
Passed(v, m) ==
    Values \cup
    IF m.vectors[v].array = vectors[v].array
    THEN {Element(m, v, i) : i \in 0 .. Size(memory, v) - 1}
    ELSE IF Size(memory, v) > 0 THEN {Unset} ELSE {}

Put(v, m, index) == \E x \in Passed(v, m) : Remember(Written(m, v, Slot(index, x)))

Add(v) ==
    /\ Call(v)
    /\ Size(memory, v) < MaxSize
    /\ Remember(Added(memory, v)) \/ Put(v, Added(memory, v), Size(memory, v))

AddVector(v, w) ==
    /\ Call(v)
    /\ ~MovedFrom(w)
    /\ Size(memory, v) + Size(memory, w) <= MaxSize
    /\ Remember(AddedVector(memory, v, w))

Insert(v, index) ==
    /\ Call(v)
    /\ index <= MaxSize /\ Size(memory, v) < MaxSize
    /\ Put(v, Opened(memory, v, index), index)

RemoveValue(v) ==
    /\ Call(v)
    /\ ~HasUnset(v)
    /\ \E x \in Values : Remember(Removed(memory, v, x))

RemoveIndex(v, index) == Call(v) /\ Remember(RemovedIndex(memory, v, index))

Resize(v, n) ==
    /\ Call(v)
    /\ \/ Remember(Resized(memory, v, n))
       \/ \E x \in Values : Remember(Filled(Resized(memory, v, n), v, 0, x))

Expand(v, n) ==
    /\ Call(v)
    /\ Size(memory, v) + n <= MaxSize
    /\ Remember(Expanded(memory, v, n))

ExpandTo(v, index) ==
    /\ Call(v)
    /\ index < MaxSize
    /\ \/ Remember(ExpandedTo(memory, v, index))
       \/ \E x \in Values : Remember(Filled(ExpandedTo(memory, v, index), v, Size(memory, v), x))

Reserve(v, n) == Call(v) /\ Remember(Reserved(memory, v, n, TRUE))

CopyAssign(v, w) == Call(v) /\ ~MovedFrom(w) /\ Remember(CopyAssigned(memory, v, w))

MoveAssign(v, w) ==
    /\ ~undefined /\ calls < MaxCalls /\ calls' = calls + 1
    /\ Remember(MoveAssigned(memory, v, w))

Clear(v) == Call(v) /\ Remember(Sized(memory, v, 0))

Sort(v) ==
    /\ Call(v)
    /\ ~HasUnset(v)
    /\ \E t \in Sortings(Elements(memory, v)) : Remember(Sorted(memory, v, t))

\* The destructor, and the constructor of another vector in its place
Renew(v) ==
    /\ ~undefined /\ calls < MaxCalls /\ calls' = calls + 1
    /\ Remember(SetBuffer(memory, v, Null, 0, 0, TRUE))

VectorNext ==
    \E v \in Vectors :
        \/ Add(v) \/ RemoveValue(v) \/ Clear(v) \/ Sort(v) \/ Renew(v)
        \/ \E w \in Vectors : AddVector(v, w) \/ CopyAssign(v, w) \/ MoveAssign(v, w)
        \/ \E n \in 0 .. MaxSize :
               Insert(v, n) \/ RemoveIndex(v, n) \/ Resize(v, n) \/ Expand(v, n) \/ ExpandTo(v, n) \/ Reserve(v, n)

vectorVars == <<vectors, arrays, leaked, undefined, calls>>
=============================================================================
