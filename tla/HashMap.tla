------------------------------ MODULE HashMap ------------------------------
(***************************************************************************)
(* Gorilla::HashMap (src/src/container/hash_map.hpp): an open table kept   *)
(* in the array of a Vector of nodes, first inside the map, later on the   *)
(* heap.  Also the program that uses vectors and maps, one call at a time. *)
(*                                                                         *)
(* A key is its own hash.  add() is a loop that doubles the table until    *)
(* the probing meets a node; it is modelled by one step for every round of *)
(* the loop and for every node the doubling carries over.                  *)
(***************************************************************************)
EXTENDS Vector

CONSTANTS
    Maps,
    Keys,           \* naturals of KeyBits bits
    KeyBits,
    StackCapacity,  \* HASH_MAP_STACK_CAPACITY
    None,           \* what get() and operator[] return of a key they do not find
    Unspecified     \* the contents of a container its source does not define

VARIABLES
    copied,         \* the maps operator= has written
    client,         \* the kind of container this program uses
    job             \* the call of add() that is running

mapVars == <<copied, client, job>>
vars == <<vectorVars, mapVars>>

Power[n \in 0 .. KeyBits] == IF n = 0 THEN 1 ELSE 2 * Power[n - 1]
AllOnes == Power[KeyBits] - 1
UnusedNode == [key |-> Unset, value |-> Unset, state |-> "UNUSED"]
RemovedNode == [key |-> AllOnes, value |-> AllOnes, state |-> "REMOVED"]
NoJob == [at |-> "return"]

Blanks == [o \in Vectors \cup Maps |-> IF o \in Maps THEN UnusedNode ELSE Unset]
ASSUME HashMapOK ==
    /\ Objects = Vectors \cup Maps /\ Blank = Blanks
    /\ Maps \cap (Vectors \cup {Null} \cup Heap) = {}
    /\ KeyBits \in Nat /\ Keys \subseteq 0 .. AllOnes
    /\ \E n \in 0 .. KeyBits : StackCapacity = Power[n]

\* Nothing else is written as "unspecified" is.
ASSUME UnspecifiedOK ==
    Unspecified \notin Seq(Values \cup {Unset}) \cup [Keys -> Values \cup {None}]

\* The array inside a map has the map's name for its address.
NewMap(m) == [array |-> m, capacity |-> StackCapacity, size |-> 0, heap |-> FALSE]
StackSlots == [i \in 0 .. StackCapacity - 1 |-> UnusedNode]

Init ==
    /\ vectors = [o \in Objects |-> IF o \in Maps THEN NewMap(o) ELSE NewVector]
    /\ arrays = [a \in {Null} \cup Heap \cup Maps |-> IF a \in Maps THEN StackSlots ELSE NoSlots]
    /\ leaked = {}
    /\ undefined = FALSE
    /\ calls = 0
    /\ copied = {}
    /\ client \in {"vectors", "maps"}
    /\ job = NoJob

-----------------------------------------------------------------------------
(* Finding a key *)

\* a & b, for each b
Masked[a \in 0 .. AllOnes] ==
    [b \in 0 .. AllOnes |->
        IF a = 0 THEN 0 ELSE (a % 2) * (b % 2) + 2 * Masked[a \div 2][b \div 2]]

Home(key, capacity) == Masked[key][(capacity - 1) % Power[KeyBits]]

IsAvailable(node) == node.state # "USED"

\* The slot of each step: each is one further from the last than that was.
Probe(first, step) == first + (step * (step + 1)) \div 2

Hits(slots, first, key) ==
    {step \in 0 .. Cardinality(DOMAIN slots) :
        /\ Probe(first, step) \in DOMAIN slots
        /\ \/ IsAvailable(slots[Probe(first, step)])
           \/ slots[Probe(first, step)].key = key}

FirstHit(first, hits) == IF hits = {} THEN {} ELSE {Probe(first, Min(hits))}
Searched(slots, first, key) == FirstHit(first, Hits(slots, first, key))

\* The first available node, or the one of the key, if the probing meets one
FindNode(slots, capacity, key) == Searched(slots, Home(key, capacity), key)

Capacity(m) == vectors[m].capacity
Find(m, key) == FindNode(Slots(memory, m), Capacity(m), key)

Get(m, key) ==
    LET used == {i \in Find(m, key) : Slots(memory, m)[i].state = "USED"}
    IN  IF used = {} THEN None ELSE Slots(memory, m)[Min(used)].value

\* The slots an Iterator stops at
Used(m) == {i \in DOMAIN Slots(memory, m) : Slots(memory, m)[i].state = "USED"}

-----------------------------------------------------------------------------
(* add() *)

Idle == ~undefined /\ job = NoJob /\ calls < MaxCalls /\ calls' = calls + 1

AddEntry(m, key, value) ==
    /\ Idle
    /\ job' = [at |-> "find", map |-> m, key |-> key, value |-> value]
    /\ UNCHANGED <<vectors, arrays, leaked, undefined, copied, client>>

\* resize() may move the nodes away from under the one that was found.
Place(i) ==
    Remember(Stored(IF IsAvailable(Slots(memory, job.map)[i])
                    THEN Resized(memory, job.map, Size(memory, job.map) + 1)
                    ELSE memory,
                    vectors[job.map].array,
                    Slot(i, [key |-> job.key, value |-> job.value, state |-> "USED"])))

Found ==
    /\ ~undefined /\ job.at = "find"
    /\ \E i \in Find(job.map, job.key) : Place(i)
    /\ job' = NoJob
    /\ UNCHANGED <<calls, copied, client>>

\* Mutant: the shift is left out.
Doubled_Same(capacity) == capacity

Doubled(capacity) == 2 * capacity

\* reserve() does nothing unless more is asked for than there is.
Grow ==
    /\ ~undefined /\ job.at = "find"
    /\ Find(job.map, job.key) = {}
    /\ IF Doubled(Capacity(job.map)) > Capacity(job.map)
       THEN /\ Remember(Allocated(memory, FreeAddress(memory), job.map, Doubled(Capacity(job.map))))
            /\ job' = [at |-> "rehash", map |-> job.map, key |-> job.key, value |-> job.value,
                       array |-> FreeAddress(memory), element |-> 0]
       ELSE UNCHANGED <<vectors, arrays, leaked, undefined, job>>
    /\ UNCHANGED <<calls, copied, client>>

\* Mutant: the nodes are not probed for.
Carried_AtHome(m, array, node) ==
    Stored(m, array, Slot(Home(node.key, Cardinality(DOMAIN m.arrays[array])), node))

\* A node that is not found is the null pointer.
Carried(m, array, node) ==
    LET found == FindNode(m.arrays[array], Cardinality(DOMAIN m.arrays[array]), node.key)
    IN  IF found = {} THEN [m EXCEPT !.undefined = TRUE] ELSE Stored(m, array, [i \in found |-> node])

Rehash ==
    /\ ~undefined /\ job.at = "rehash" /\ job.element < Capacity(job.map)
    /\ LET node == Slots(memory, job.map)[job.element]
       IN  Remember(IF node.state # "UNUSED" THEN Carried(memory, job.array, node) ELSE memory)
    /\ job' = [job EXCEPT !.element = @ + 1]
    /\ UNCHANGED <<calls, copied, client>>

SetTable ==
    /\ ~undefined /\ job.at = "rehash" /\ job.element = Capacity(job.map)
    /\ Remember(SetBuffer(memory, job.map, job.array, Size(memory, job.map), Doubled(Capacity(job.map)), TRUE))
    /\ job' = [at |-> "find", map |-> job.map, key |-> job.key, value |-> job.value]
    /\ UNCHANGED <<calls, copied, client>>

-----------------------------------------------------------------------------
(* The other calls *)

\* memset(-1) over every node
ClearMap(m) ==
    /\ Idle
    /\ Remember(Sized(Written(memory, m, [i \in 0 .. Capacity(m) - 1 |-> RemovedNode]), m, 0))
    /\ UNCHANGED mapVars

\* The vector copies as many nodes as there are entries, from the first one.
CopyMap(m, n) ==
    /\ Idle
    /\ Remember(CopyAssigned(memory, m, n))
    /\ copied' = IF m = n THEN copied ELSE copied \cup {m}
    /\ UNCHANGED <<client, job>>

RenewMap(m) ==
    /\ Idle
    /\ LET bare == SetBuffer(memory, m, Null, 0, 0, TRUE)
       IN  Remember([bare EXCEPT !.vectors[m] = NewMap(m), !.arrays[m] = StackSlots])
    /\ copied' = copied \ {m}
    /\ UNCHANGED <<client, job>>

MapNext ==
    \/ \E m \in Maps :
           \/ \E k \in Keys, x \in Values : AddEntry(m, k, x)
           \/ \E n \in Maps : CopyMap(m, n)
           \/ ClearMap(m) \/ RenewMap(m)
    \/ Found \/ Grow \/ Rehash \/ SetTable

Next ==
    \/ client = "vectors" /\ VectorNext /\ UNCHANGED mapVars
    \/ client = "maps" /\ MapNext

\* The thread that called add() runs it.
Spec == Init /\ [][Next]_vars /\ WF_vars(Found \/ Grow \/ Rehash \/ SetTable)

-----------------------------------------------------------------------------
(* Properties *)

\* Every vector holds an array or none, a capacity and a size; every slot a value, or a node.
TypeOK ==
    /\ \A o \in Objects :
           /\ vectors[o].array \in DOMAIN arrays
           /\ vectors[o].capacity \in Nat /\ vectors[o].size \in Nat /\ vectors[o].heap \in BOOLEAN
    /\ \A a \in DOMAIN arrays : \A i \in DOMAIN arrays[a] :
           IF client = "vectors" /\ a \notin Maps
           THEN arrays[a][i] \in Values \cup {Unset}
           ELSE arrays[a][i] \in [key : Keys \cup {Unset, AllOnes}, value : Values \cup {Unset, AllOnes},
                                  state : {"REMOVED", "UNUSED", "USED"}]
    /\ calls \in 0 .. MaxCalls
    /\ copied \subseteq Maps
    /\ job.at \in {"return", "find", "rehash"}

\* The arrays of new[] are each the array of one vector, as long as the vector
\* says and at least as long as its size: none is deleted twice or used after
\* it, none is lost but by the moving assignment (set_buffer, operator=).
ArraysOwned ==
    /\ TypeOK
    /\ \A o \in Objects :
           \/ MovedFrom(o)
           \/ DOMAIN arrays[vectors[o].array] = 0 .. vectors[o].capacity - 1 /\ vectors[o].size <= vectors[o].capacity
    /\ \A o, p \in Objects : vectors[o].array = vectors[p].array => o = p \/ vectors[o].array = Null
    /\ \A a \in Heap :
           arrays[a] # NoSlots =>
               \/ a \in leaked /\ \A o \in Objects : vectors[o].array # a
               \/ \E o \in Objects : vectors[o].array = a /\ vectors[o].heap
               \/ job.at = "rehash" /\ job.array = a
    /\ undefined => copied # {}

\* Whatever was added, cleared and carried to larger tables before: each entry
\* of a map is where find_node looks for its key, each node is counted once, and
\* neither reserve nor add meets a null or a dangling node (hash_map.hpp:137, 225).
EntriesFound ==
    client = "maps" =>
        \A m \in Maps \ copied :
            /\ \A i \in Used(m) : Find(m, Slots(memory, m)[i].key) = {i}
            /\ Size(memory, m) = Cardinality(Used(m))
            /\ undefined /\ job.at = "rehash" => job.map # m

\* add() ends: doubling the table parts the keys that met at its end.
AddEnds == job.at # "return" ~> job.at = "return" \/ undefined

\* A vector is a sequence, a map a function.
Abstract ==
    INSTANCE Collections WITH
        seq <- [v \in Vectors |-> IF MovedFrom(v) THEN Unspecified ELSE Elements(memory, v)],
        map <- [m \in Maps |-> IF m \in copied THEN Unspecified ELSE [k \in Keys |-> Get(m, k)]]

\* Every call changes the containers as a sequence or a function would, and
\* changes no other container; the rounds of add() are not seen.
ImplementsCollections == Abstract!Spec
=============================================================================
