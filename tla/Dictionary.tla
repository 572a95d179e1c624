------------------------------ MODULE Dictionary ------------------------------
(***************************************************************************)
(* src/src/container/dictionary.cpp and dictionary_node.{hpp,cpp}: a tree  *)
(* of named values.  The data of the nodes lie one behind the other in     *)
(* pages and are linked by the place they lie at; the datum made last may  *)
(* change its size, and moves to a new page when there is no room.         *)
(*                                                                         *)
(* A unit of memory is 4 bytes, a name is its hash, and a place is kept in *)
(* "data" only as long as links lead there from the root.  Callers name a  *)
(* node that is in the tree, by a DictionaryNode they got after the datum  *)
(* last moved; they add to objects and arrays only, and set the root to    *)
(* nothing else.                                                           *)
(***************************************************************************)
EXTENDS Integers, Sequences, SequencesExt, FiniteSets

CONSTANTS Names, NoName,
          PageSize,    \* m_page_size
          Word,        \* the offset of a place is kept modulo this
          Values,      \* formats of a fixed size that nodes are set to
          Lengths,     \* sizes of characters and bytes
          MaxNodes,    \* bound: nodes in the tree
          MaxPages,    \* bound: pages in use
          MaxTotal,    \* bound: nodes, the root among them, and pages together
          Avoided      \* what callers do not do, see Careless

\* BOOLEAN stands for all formats of its size (the numbers of up to 32 bits),
\* and INTEGER64 for the numbers of 64 bits.
Containers == {"OBJECT", "ARRAY"}
Fixed == Containers \cup {"ZERO", "BOOLEAN", "INTEGER64"}
Formats == Fixed \cup {"STRING", "BUFFER"}

ASSUME DictionaryOK ==
    /\ NoName \notin Names
    /\ PageSize \in Nat \ {0} /\ Word \in Nat /\ PageSize <= Word
    /\ Values \subseteq Fixed
    /\ Lengths \subseteq Nat \ {0} /\ \E l \in Lengths : \A k \in Lengths : k <= l
    /\ MaxNodes \in Nat
    /\ MaxPages \in Nat \ {0} /\ MaxPages < Word
    /\ MaxTotal \in Nat

\* What goes wrong in the dictionary, and a run may leave out.
Careless == {"nested move",      \* a datum whose parent is not the root moves
             "add after remove", \* a parent whose LastChildId is wrong gets a child
             "split datum",      \* a datum over pages that do not lie side by side
            "long copy"}        \* a copy of old bytes past the end of the new place

VARIABLES m_pages,            \* how many pages are in use
          slots,              \* the array of m_pages: the allocation of each page
          data,               \* the datum at each place
          m_current_data,     \* where the next datum is put
          m_current_id,       \* the place the next datum is linked by
          m_current_offset,
          m_hash_offsets      \* the names that are stored

vars == <<m_pages, slots, data, m_current_data, m_current_id, m_current_offset,
          m_hash_offsets>>

Root == <<-1, 0>>                       \* m_root is not in a page
Invalid == <<Word - 1, Word - 1>>       \* DictionaryId::INVALID

\* get_data_size_internal of a format
Base(format) ==
    CASE format \in Containers -> 4
      [] format = "ZERO"       -> 2
      [] format = "BOOLEAN"    -> 3
      [] format = "INTEGER64"  -> 4
      [] format = "STRING"     -> 3
      [] format = "BUFFER"     -> 5

\* get_data_size_internal of a datum: "extra" is the capacity, or length + 1.
Size(datum) == Base(datum.format) + datum.extra

Store(where, place, datum) ==
    [p \in DOMAIN where \cup {place} |-> IF p = place THEN datum ELSE where[p]]

\* The children of p as FirstChildId and the links list them.
Chain(where, p) ==
    LET met[k \in 1 .. MaxNodes + 1] ==
            IF k = 1 THEN where[p].first
            ELSE IF met[k - 1] \in DOMAIN where THEN where[met[k - 1]].next ELSE Invalid
    IN  [k \in {j \in 1 .. MaxNodes + 1 : met[j] # Invalid} |-> met[k]]

\* Places with the root among them that no link leads out of.
Closed(where) ==
    {S \in SUBSET DOMAIN where :
        /\ Root \in S
        /\ \A p \in S : {where[p].first, where[p].next} \cap DOMAIN where \subseteq S}

\* The places the links from the root lead to.
Reached(where) ==
    LET closed == Closed(where)
    IN  {p \in DOMAIN where : \A S \in closed : p \in S}

\* LastChildId leads to the last child, if there is one.
LastIsLast(where, p) ==
    LET chain == Chain(where, p)
    IN  where[p].last = IF chain = <<>> THEN Invalid ELSE Last(chain)

\* get_id_internal: the first child with that hash.
Find(parent, name) ==
    LET chain == Chain(data, parent)
        hits  == {i \in DOMAIN chain : data[chain[i]].hash = name}
    IN  IF hits = {} THEN Invalid ELSE chain[Min(hits)]

-----------------------------------------------------------------------------
(* Memory.  The operators below take the memory as a record and return it. *)
(* It is legal until an assertion fails or what callers avoid happens.     *)

Memory == [pages |-> m_pages, slots |-> slots, data |-> data, at |-> m_current_data,
           id |-> m_current_id, offset |-> m_current_offset, legal |-> TRUE]

Becomes(m) ==
    /\ m.legal
    /\ m.pages <= MaxPages
    /\ LET reached == Reached(m.data)
       IN  /\ Cardinality(reached) + m.pages <= MaxTotal
           /\ data' = [p \in reached |-> m.data[p]]
    /\ m_pages' = m.pages
    /\ slots' = m.slots
    /\ m_current_data' = m.at
    /\ m_current_id' = m.id
    /\ m_current_offset' = m.offset

\* add_page_internal and allocate_page_internal.  The array keeps its slots
\* when the dictionary is cleared, and pages that are in it are used again.
AddPage(m, count) ==
    LET new   == m.pages + count
        last  == IF m.slots = <<>> THEN 0 ELSE Last(m.slots)
        array == IF new <= Len(m.slots) THEN m.slots
                 ELSE [i \in 1 .. new |-> IF i <= m.pages THEN m.slots[i] ELSE last + 1]
    IN  [m EXCEPT !.pages = new, !.slots = array,
                  !.id = <<m.pages, 0>>, !.at = <<m.pages, 0>>, !.offset = 0,
                  !.legal = @ /\ \/ "split datum" \notin Avoided
                                 \/ \A i \in m.pages + 1 .. new : array[i] = array[new]]

\* Slip: the size is not counted.
PageFull_NotSize(m, size) == m.offset >= PageSize

\* There is no room for "size" in the page.
PageFull(m, size) == m.offset + size >= PageSize

\* allocate_data_internal: the place is m_current_data as it was.
Allocated(m, size) ==
    LET n == IF PageFull(m, size) THEN AddPage(m, size \div PageSize + 1) ELSE m
    IN  [memory |-> [n EXCEPT !.at = <<@[1], @[2] + size>>], place |-> n.at]

\* Slip: the link of the child before is forgotten.
Patched_NotSibling(m, p) ==
    LET To(id) == IF id = p THEN m.id ELSE id
    IN  [m.data EXCEPT ![Root].first = To(@), ![Root].last = To(@)]

\* The links that lead to p, a child of the root, lead to m_current_id.  The
\* call of get_parent_data_internal returns the root whoever is the parent.
Patched(m, p) ==
    LET chain  == Chain(m.data, Root)
        To(id) == IF id = p THEN m.id ELSE id
    IN  IF p \notin ToSet(chain) THEN m.data
        ELSE [q \in DOMAIN m.data |->
                IF q = Root THEN [m.data[q] EXCEPT !.first = To(@), !.last = To(@)]
                ELSE IF q \in ToSet(chain) THEN [m.data[q] EXCEPT !.next = To(@)]
                ELSE m.data[q]]

\* Slips: where the datum lies, m_current_id or m_current_data is forgotten.
Reallocated_IdStays(m, p, size) ==
    LET end == p[2] + size
    IN  [memory |-> [m EXCEPT !.at = <<p[1], end>>, !.offset = end,
                              !.legal = @ /\ m.offset + size <= PageSize],
         place |-> p]

Reallocated_DataStays(m, p, size) ==
    LET end == p[2] + size
    IN  [memory |-> [m EXCEPT !.offset = end, !.id = <<@[1], end % Word>>,
                              !.legal = @ /\ m.offset + size <= PageSize],
         place |-> p]

\* reallocate_data_internal of the datum at p.  That it is the last one is asserted;
\* moving, it is linked where the old one was and the caller gives it its value.
Reallocated(m, p, size) ==
    LET last  == m.at = <<p[1], p[2] + Size(m.data[p])>>
        moves == m.offset + size > PageSize
        legal == last /\ \/ ~moves
                         \/ "nested move" \notin Avoided
                         \/ p \in ToSet(Chain(m.data, Root))
        new   == Allocated(m, size)
        end   == p[2] + size
    IN  IF moves
        THEN [memory |-> [new.memory EXCEPT
                            !.data = Store(Patched(new.memory, p), new.place, m.data[p]),
                            !.offset = PageSize, !.id = <<@[1], PageSize % Word>>,
                            !.legal = @ /\ legal],
              place |-> new.place]
        ELSE [memory |-> [m EXCEPT !.at = <<p[1], end>>, !.offset = end,
                                   !.id = <<@[1], end % Word>>, !.legal = @ /\ legal],
              place |-> p]

\* Do "size" units from p lie in pages that were allocated together?
Inside(m, p, size) ==
    LET last == (p[1] * PageSize + p[2] + size - 1) \div PageSize
    IN  last < m.pages /\ \A i \in p[1] .. last : m.slots[i + 1] = m.slots[p[1] + 1]

Same(m, p) == [memory |-> m, place |-> p]

Datum(format, extra, hash, next) ==
    [format |-> format, extra |-> extra, hash |-> hash, next |-> next,
     first |-> Invalid, last |-> Invalid]

\* The memory of r when the datum that was at p has its new value.
Placed(r, p, format, extra) ==
    LET old == r.memory.data[p]
    IN  [r.memory EXCEPT !.data = Store(@, r.place, Datum(format, extra, old.hash, old.next))]

-----------------------------------------------------------------------------
Init ==
    /\ m_pages = 0 /\ slots = <<>>
    /\ data = [p \in {Root} |-> Datum("OBJECT", 0, NoName, Invalid)]
    /\ m_current_data = <<0, 0>> /\ m_current_id = <<0, 0>>
    /\ m_current_offset = PageSize
    /\ m_hash_offsets = {}

\* The end of create_data_internal: the parent, and the child that was its last
\* one, get the link.
Linked(where, parent, id, format) ==
    [q \in DOMAIN where |->
        IF q = parent
        THEN [where[q] EXCEPT !.first = IF @ = Invalid THEN id ELSE @,
                              !.last = id, !.format = format]
        ELSE IF where[parent].first # Invalid /\ q = where[parent].last
        THEN [where[q] EXCEPT !.next = id]
        ELSE where[q]]

\* Slip: the parent stays what it is.
ParentFormat_Stays(parent, name) == data[parent].format

\* A child without a name makes its parent an array.
ParentFormat(parent, name) == IF name = NoName THEN "ARRAY" ELSE data[parent].format

\* add: create_data_internal of an object.  The hash of a node without a name is
\* what the memory held before.
AddNode(parent, name) ==
    /\ data[parent].format \in Containers
    /\ data[parent].first # Invalid => data[parent].last \in DOMAIN data
    /\ "add after remove" \in Avoided => LastIsLast(data, parent)
    /\ Cardinality(DOMAIN data) <= MaxNodes
    /\ LET r      == Allocated(Memory, Base("OBJECT"))
           offset == r.memory.offset + Base("OBJECT")
           format == ParentFormat(parent, name)
       IN  \E hash \in IF name = NoName THEN Names \cup {NoName} ELSE {name} :
           /\ Becomes([r.memory EXCEPT
                  !.data = Linked(Store(@, r.place, Datum("OBJECT", 0, hash, Invalid)),
                                  parent, r.memory.id, format),
                  !.offset = offset,
                  !.id = <<@[1], offset % Word>>])
    /\ m_hash_offsets' = m_hash_offsets \cup ({name} \ {NoName})

\* Slip: the child before becomes the last one whatever comes behind.
Unlinked_RestDropped(parent, id) ==
    LET chain == Chain(data, parent)
        k     == CHOOSE i \in DOMAIN chain : chain[i] = id
        previous == IF k = 1 THEN Invalid ELSE chain[k - 1]
    IN  [q \in DOMAIN data |->
            IF q = parent
            THEN [data[q] EXCEPT !.first = IF k = 1 THEN data[id].next ELSE @, !.last = previous]
            ELSE IF q = previous THEN [data[q] EXCEPT !.next = Invalid] ELSE data[q]]

\* The links without the child "id".  The new LastChildId is that of the other
\* case: the child before, unless there is none behind.
Unlinked(parent, id) ==
    LET chain == Chain(data, parent)
        k     == CHOOSE i \in DOMAIN chain : chain[i] = id
        previous == IF k = 1 THEN Invalid ELSE chain[k - 1]
        next  == data[id].next
    IN  [q \in DOMAIN data |->
            IF q = parent
            THEN [data[q] EXCEPT !.first = IF k = 1 THEN next ELSE @,
                                 !.last = IF next = Invalid THEN next ELSE previous]
            ELSE IF q = previous THEN [data[q] EXCEPT !.next = next] ELSE data[q]]

\* remove
RemoveNode(parent, name) ==
    LET id == Find(parent, name)
    IN  /\ data[parent].format \in Containers
        /\ id # Invalid
        /\ Becomes([Memory EXCEPT !.data = Unlinked(parent, id)])
        /\ UNCHANGED m_hash_offsets

\* The memory of r with the new value, and all else as it was.
Changed(r, p, format, extra) ==
    /\ Becomes(Placed(r, p, format, extra))
    /\ UNCHANGED m_hash_offsets

\* set_bool and the like, set_object, set_array, set_null
SetFixed(p, format) ==
    /\ p = Root => format \in Containers
    /\ format # data[p].format
    /\ Changed(IF Size(data[p]) = Base(format) THEN Same(Memory, p)
               ELSE Reallocated(Memory, p, Base(format)),
               p, format, 0)

\* set_string
SetString(p, length) ==
    /\ p # Root
    /\ Changed(IF data[p].format = "STRING" /\ data[p].extra = length THEN Same(Memory, p)
               ELSE Reallocated(Memory, p, Base("STRING") + length),
               p, "STRING", length)

\* set_buffer_internal up to "modify"
BufferPlace(m, p, bytes) ==
    IF m.data[p].format = "BUFFER" /\ m.data[p].extra = bytes THEN Same(m, p)
    ELSE Reallocated(m, p, Base("BUFFER") + bytes)

\* set_buffer_uint8 and the like
SetBuffer(p, bytes) ==
    /\ p # Root
    /\ Changed(BufferPlace(Memory, p, bytes), p, "BUFFER", bytes)

\* set_buffer_string_internal: the buffer grows by a length, which takes one
\* unit, and characters.  When it moves, all its old bytes are copied.
Grown(r, length) ==
    LET m    == r.memory
        old  == m.data[r.place]
        size == r.bytes + 1 + length
        new  == BufferPlace(m, r.place, size)
        fits == \/ "long copy" \notin Avoided
                \/ old.format # "BUFFER"
                \/ new.place = r.place
                \/ Inside(new.memory, new.place, Size(old))
    IN  [memory |-> [Placed(new, r.place, "BUFFER", size) EXCEPT !.legal = @ /\ fits],
         place  |-> new.place, bytes |-> size]

\* set_buffer_string of two strings
SetBufferStrings(p, length, second) ==
    /\ p # Root
    /\ LET r == Grown([memory |-> Memory, place |-> p, bytes |-> 0], length)
       IN  Becomes(Grown(r, second).memory)
    /\ UNCHANGED m_hash_offsets

\* Slip: the root keeps its links.
Clear_RootKeepsLinks ==
    /\ m_pages' = 0
    /\ data' = [p \in {Root} |-> data[p]]
    /\ m_current_offset' = PageSize
    /\ m_hash_offsets' = {}
    /\ UNCHANGED <<slots, m_current_data, m_current_id>>

\* clear.  The pages stay allocated and in their slots.
Clear ==
    /\ m_pages' = 0
    /\ data' = [p \in {Root} |-> [data[p] EXCEPT !.first = Invalid, !.last = Invalid]]
    /\ m_current_offset' = PageSize
    /\ m_hash_offsets' = {}
    /\ UNCHANGED <<slots, m_current_data, m_current_id>>

Next ==
    \/ \E p \in DOMAIN data :
        \/ \E name \in Names \cup {NoName} : AddNode(p, name)
        \/ \E name \in Names : RemoveNode(p, name)
        \/ \E format \in Values : SetFixed(p, format)
        \/ \E length \in Lengths :
            \/ SetString(p, length)
            \/ \E second \in Lengths : SetBufferStrings(p, length, second)
        \/ \E bytes \in Lengths \cup {0} : SetBuffer(p, bytes)
    \/ Clear

Spec == Init /\ [][Next]_vars

-----------------------------------------------------------------------------
Ids == (0 .. MaxPages - 1) \X (0 .. Word - 1) \cup {Root, Invalid}

\* The largest number of bytes: two of the longest strings.
Longest == CHOOSE l \in Lengths : \A k \in Lengths : k <= l

Extras == 0 .. 2 * (1 + Longest)

\* Variables keep their types, and every place that is linked holds a datum.
TypeOK ==
    /\ m_pages \in 0 .. MaxPages
    /\ slots \in Seq(Nat \ {0}) /\ m_pages <= Len(slots)
    /\ DOMAIN data \subseteq Ids \ {Invalid}
    /\ \A p \in DOMAIN data :
        /\ data[p].format \in Formats /\ data[p].extra \in Extras
        /\ data[p].hash \in Names \cup {NoName}
        /\ {data[p].next, data[p].first} \subseteq DOMAIN data \cup {Invalid}
    /\ m_current_data \in Nat \X Nat
    /\ m_current_id \in (0 .. MaxPages - 1) \X (0 .. Word - 1)
    /\ m_current_offset \in Nat
    /\ m_hash_offsets \subseteq Names

\* A datum is where m_current_data was, but is linked by m_current_id, and room
\* is counted by m_current_offset: as long as anything fits in the page, the
\* three agree.
IdIsPlace ==
    ~PageFull(Memory, Base("ZERO")) =>
        /\ m_current_id = m_current_data
        /\ m_current_offset = m_current_data[2]

\* Every datum lies inside memory that was allocated in one piece, whatever
\* pages were used before the dictionary was cleared.
DataInside ==
    \A p \in DOMAIN data \ {Root} : Inside(Memory, p, Size(data[p]))

Units(p) ==
    {p[1] * PageSize + p[2] + i : i \in 0 .. Size(data[p]) - 1}

\* No two data share memory, and what is added next is put behind them all.
DataApart ==
    \A p \in DOMAIN data \ {Root} :
        /\ \A q \in DOMAIN data \ {Root, p} : Units(p) \cap Units(q) = {}
        /\ \/ PageFull(Memory, Base("ZERO"))
           \/ \A u \in Units(p) : u < m_current_data[1] * PageSize + m_current_data[2]

\* Whatever was added, moved and cleared before: the place of the next datum,
\* which three fields keep apart, is one, and every datum has its own memory.
DataPlaced == IdIsPlace /\ DataInside /\ DataApart

\* Every child of an object can tell its name: only arrays have others.
ObjectsNamed ==
    \A p \in DOMAIN data :
        data[p].format = "OBJECT" =>
            \A i \in DOMAIN Chain(data, p) : data[Chain(data, p)[i]].hash \in m_hash_offsets

\* A datum that needed a new page lies there in the tree: none is lost when it
\* moves ("patch parent and siblings", src/src/container/dictionary.cpp:289).
NoneLost == [][m_pages' > m_pages => \E p \in DOMAIN data' : p[1] >= m_pages]_vars

\* LastChildId leads to the last child, also after the last one is removed
\* ("handle the remove of the last one", src/src/container/dictionary.cpp:152).
LastLinked == \A p \in DOMAIN data : LastIsLast(data, p)

\* The tree the data stand for.
Content ==
    LET node[k \in 0 .. MaxNodes] ==
        [p \in DOMAIN data |->
            [format |-> data[p].format, extra |-> data[p].extra,
             kids |-> IF k = 0 THEN <<>>
                      ELSE LET chain == Chain(data, p)
                           IN  [i \in DOMAIN chain |->
                                [title |-> data[chain[i]].hash, node |-> node[k - 1][chain[i]]]]]]
    IN  node[MaxNodes][Root]

Tree == INSTANCE NamedTree WITH
    tree <- Content, Titles <- Names \cup {NoName}, MaxDepth <- MaxNodes

\* Wherever data lie and move, and whatever was removed, the dictionary is a
\* tree: a call changes the one node it names, and all others keep their
\* title, value and order.
ImplementsTree == Tree!Spec
=============================================================================
