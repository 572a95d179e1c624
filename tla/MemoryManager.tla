---------------------------- MODULE MemoryManager ----------------------------
(***************************************************************************)
(* src/src/memory/memory_manager.{hpp,cpp}: allocations cut out of pages.  *)
(* A page is a PageHeader followed by chunks; every chunk, allocated or    *)
(* free, begins with an AllocationHeader.  Free chunks are listed in       *)
(* m_frees in no order of address; a page is given back when its last      *)
(* allocation is.                                                          *)
(*                                                                         *)
(* The caller is one thread that deallocates only what it was given, once. *)
(* A chunk is named by the page it lies in and the offset of its header.   *)
(* Statistics are integers: where the code's 64 bits would wrap they are   *)
(* negative.                                                               *)
(***************************************************************************)
EXTENDS Integers, Sequences, FiniteSets, FiniteSetsExt, SequencesExt

CONSTANTS Pages,            \* addresses Memory::allocate can return
          Sizes,            \* sizes the caller asks for
          PageSizes,        \* arguments of set_page_size
          InitialPageSize,
          PageHeaderSize,   \* sizeof(PageHeader)
          HeaderSize,       \* sizeof(AllocationHeader)
          Domains,          \* arguments of set_domain
          DomainWord,       \* 256: the header keeps the domain in a byte
          MaxAllocations,   \* bound: allocations in a behaviour
          Null

ASSUME ManagerOK ==
    /\ IsFiniteSet(Pages) /\ Null \notin Pages
    /\ Sizes \subseteq Nat
    /\ PageSizes \subseteq Nat /\ InitialPageSize \in Nat
    /\ PageHeaderSize \in Nat \ {0} /\ HeaderSize \in Nat \ {0}
    /\ Domains \subseteq Nat /\ DomainWord \in Nat \ {0}
    /\ MaxAllocations \in Nat

VARIABLES m_default_page_size,
          m_domain,
          m_pages,      \* m_pages[i]: the array of m_pages, slots past its
                        \* size included: they keep what they held
          page_count,   \* m_pages.m_size
          m_frees,
          page_header,  \* page_header[p]: the page at address p; one that is
                        \* not allocated has size 0
          header,       \* header[c]: the AllocationHeader of chunk c, while
                        \* c is allocated or free
          m_statistics,
          live,         \* ghost: the chunks the caller has
          allocations,  \* number of calls of allocate so far
          sound,        \* ghost: no step has yet lost track of a size or of
                        \* a page, see Deallocate
          corrupted     \* memory that was given back or is the caller's has
                        \* been read or written: nothing is known after that

vars == <<m_default_page_size, m_domain, m_pages, page_count, m_frees,
          page_header, header, m_statistics, live, allocations, sound, corrupted>>

Slots     == 0 .. MaxAllocations - 1
NoPage    == [size |-> 0, allocation_count |-> 0]
Allocated == {p \in Pages : page_header[p].size # 0}

\* A chunk whose page was given back: it can not be read.
Dangling(c) == c \notin DOMAIN header

\* The units of page c.page that a chunk of some size at c takes.
Place(c, size) == [page : {c.page}, offset : c.offset .. c.offset + size - 1]

\* The total size of some chunks.
SizeOf(chunks) == MapThenSumSet(LAMBDA c : header[c].size, chunks)

\* The figures by domain, with a size more for one of them.
Charged(figures, domain, size) == [figures EXCEPT ![domain + 1] = @ + size]

\* Slip: the hole is not filled.
RemoveIndex_LastOnly(s, i) == SubSeq(s, 1, Len(s) - 1)

\* Vector::remove_index: the last element fills the hole.
RemoveIndex(s, i) ==
    [j \in 1 .. Len(s) - 1 |-> IF j = i THEN s[Len(s)] ELSE s[j]]

-----------------------------------------------------------------------------
Init ==
    /\ m_default_page_size = InitialPageSize
    /\ m_domain    = 0
    /\ m_pages     = [i \in Slots |-> Null]
    /\ page_count  = 0
    /\ m_frees     = <<>>
    /\ page_header = [p \in Pages |-> NoPage]
    /\ header      = [c \in {} |-> 0]
    /\ m_statistics = [memory_allocated |-> 0, memory_used |-> 0,
                       page_allocated |-> 0, allocation_used |-> 0,
                       allocation_unused |-> 0, domains_allocated |-> <<0>>]
    /\ live        = {}
    /\ allocations = 0
    /\ sound       = TRUE
    /\ corrupted   = FALSE

SetPageSize(size) ==
    /\ ~corrupted
    /\ m_default_page_size' = size
    /\ UNCHANGED <<m_domain, m_pages, page_count, m_frees, page_header, header,
                   m_statistics, live, allocations, sound, corrupted>>

SetDomain(domain) ==
    /\ ~corrupted
    /\ m_domain' = domain
    /\ m_statistics' = [m_statistics EXCEPT !.domains_allocated =
          @ \o [i \in 1 .. domain + 1 - Len(@) |-> 0]]
    /\ UNCHANGED <<m_default_page_size, m_pages, page_count, m_frees, page_header,
                   header, live, allocations, sound, corrupted>>

-----------------------------------------------------------------------------
(* allocate *)

\* The free chunks the search can take: the first that is large enough.
Fitting(needed) ==
    {i \in DOMAIN m_frees : ~Dangling(m_frees[i]) /\ header[m_frees[i]].size >= needed}

\* The search reads the header of a chunk whose page is gone.
SearchFails(needed) ==
    \E i \in DOMAIN m_frees :
        Dangling(m_frees[i]) /\ \A j \in 1 .. i - 1 : j \notin Fitting(needed)

\* What the second half of allocate starts from: the chunk, its position in
\* m_frees (0: it is not there), the pages and the statistics.
FromFrees(needed) ==
    LET i == Min(Fitting(needed))
    IN  [chunk |-> m_frees[i], index |-> i, frees |-> m_frees, count |-> page_count,
         pages |-> m_pages, page_header |-> page_header, header |-> header,
         statistics |-> m_statistics]

\* A new page: at least the default size.  Its one chunk is listed in m_frees
\* only where the default size was large enough.
FromNewPage(needed, p) ==
    LET size   == Max({PageHeaderSize + needed, m_default_page_size})
        chunk  == [page |-> p, offset |-> PageHeaderSize]
        listed == needed < m_default_page_size
    IN  [chunk |-> chunk,
         index |-> IF listed THEN Len(m_frees) + 1 ELSE 0,
         frees |-> IF listed THEN Append(m_frees, chunk) ELSE m_frees,
         count |-> page_count + 1,
         pages |-> [m_pages EXCEPT ![page_count] = p],
         page_header |-> [page_header EXCEPT ![p] = [size |-> size, allocation_count |-> 0]],
         header |-> [c \in DOMAIN header \cup {chunk} |->
                        IF c = chunk THEN [domain |-> 0, page_index |-> page_count,
                                           size |-> size - PageHeaderSize]
                        ELSE header[c]],
         statistics |-> [m_statistics EXCEPT !.memory_allocated = @ + size,
                                             !.memory_used = @ + PageHeaderSize,
                                             !.page_allocated = @ + 1,
                                             !.allocation_unused = @ + (IF listed THEN 1 ELSE 0)]]

\* The second half: the allocation takes the front of the chunk.  What is left
\* stays in m_frees in its place, or goes with the allocation where it is no
\* larger than a header.
Carve(s, needed) ==
    LET h     == s.header[s.chunk]
        rest  == h.size - needed
        split == s.index # 0 /\ rest > HeaderSize
        size  == IF s.index # 0 /\ ~split THEN h.size ELSE needed
        next  == [s.chunk EXCEPT !.offset = @ + needed]
        owner == s.pages[h.page_index]
        domain == m_domain % DomainWord
    IN  /\ m_frees' = IF split THEN [s.frees EXCEPT ![s.index] = next]
                      ELSE IF s.index # 0 THEN RemoveIndex(s.frees, s.index)
                      ELSE s.frees
        /\ m_pages' = s.pages
        /\ page_count' = s.count
        /\ page_header' = [s.page_header EXCEPT ![owner].allocation_count = @ + 1]
        /\ header' =
             [c \in DOMAIN s.header \cup (IF split THEN {next} ELSE {}) |->
                 IF c = s.chunk THEN [h EXCEPT !.domain = domain, !.size = size]
                 ELSE IF split /\ c = next THEN [h EXCEPT !.size = rest]
                 ELSE s.header[c]]
        /\ m_statistics' =
             [s.statistics EXCEPT !.allocation_used = @ + 1,
                                  !.memory_used = @ + size,
                                  !.allocation_unused = @ - (IF s.index # 0 /\ ~split
                                                             THEN 1 ELSE 0),
                                  !.domains_allocated = Charged(@, domain, size)]
        /\ live' = live \cup {s.chunk}
        \* The stores go to the chunk and to the header of what is left, which
        \* may not lie where there is a header.
        /\ LET stored == Place(s.chunk, IF split THEN needed + HeaderSize ELSE size)
           IN  corrupted' =
                 \/ s.page_header[owner].size = 0
                 \/ s.chunk.offset + size > s.page_header[s.chunk.page].size
                 \/ split /\ next \in DOMAIN s.header
                 \/ \E c \in live : stored \cap Place(c, header[c].size) # {}

Allocate(size) ==
    LET needed == HeaderSize + size
    IN  /\ ~corrupted
        /\ allocations < MaxAllocations
        /\ allocations' = allocations + 1
        /\ IF SearchFails(needed)
           THEN /\ corrupted' = TRUE
                /\ UNCHANGED <<m_pages, page_count, m_frees, page_header, header,
                               m_statistics, live>>
           ELSE IF Fitting(needed) # {}
           THEN Carve(FromFrees(needed), needed)
           ELSE \E p \in Pages \ Allocated : Carve(FromNewPage(needed, p), needed)
        /\ UNCHANGED <<m_default_page_size, m_domain, sound>>

-----------------------------------------------------------------------------
(* deallocate *)

\* Slip: memory_used is not brought down.
Returned_UsedKept(a) ==
    LET h == header[a]
    IN  [m_statistics EXCEPT !.allocation_used = @ - 1,
                             !.domains_allocated = Charged(@, h.domain, h.size)]

\* The figures after the chunk a is given back.  The domain figure goes up.
Returned(a) ==
    LET h == header[a]
    IN  [m_statistics EXCEPT !.allocation_used = @ - 1,
                             !.memory_used = @ - h.size,
                             !.domains_allocated = Charged(@, h.domain, h.size)]

\* Slip: the free chunks of the page stay in the list.
Dropped_None(frees, i) == frees

\* The list without the chunks whose header names page slot i; they leave it
\* from the back.
Dropped(frees, i) ==
    LET rest[k \in 1 .. Len(frees) + 1] ==
            IF k > Len(frees) THEN frees
            ELSE IF header[frees[k]].page_index = i THEN RemoveIndex(rest[k + 1], k)
            ELSE rest[k + 1]
    IN  rest[1]

\* Slips: the count is not brought down; it is tested before it is.
OneLess_Same(page) == page_header
LastAllocation_BeforeDecrement(page) == page_header[page].allocation_count = 0

\* --page_header->allocation_count, and the test of its result.
OneLess(page) == [page_header EXCEPT ![page].allocation_count = @ - 1]
LastAllocation(page) == page_header[page].allocation_count = 1

\* The mapping f on the chunks S.
OnlyOf(f, S) == [c \in S |-> f[c]]

\* The page has no allocation left and is given back, with its free chunks.
\* The last page takes its slot in m_pages, but the headers in that page keep
\* the slot they had.
GiveBack(a, page) ==
    LET h     == header[a]
        slot  == h.page_index
        frees == Dropped(m_frees, slot)
        gone  == {i \in DOMAIN m_frees : header[m_frees[i]].page_index = slot}
        kept  == {c \in DOMAIN header \ {a} :
                     c.page # page /\ \A i \in gone : m_frees[i] # c}
    IN  /\ m_frees' = frees
        /\ m_pages' = [m_pages EXCEPT ![slot] =
                          IF slot < page_count THEN m_pages[page_count - 1] ELSE @]
        /\ page_count' = IF slot < page_count THEN page_count - 1 ELSE page_count
        /\ page_header' = [page_header EXCEPT ![page] = NoPage]
        /\ header' = OnlyOf(header, kept)
        /\ m_statistics' =
             [Returned(a) EXCEPT
                 !.allocation_unused = @ - Cardinality(gone),
                 !.page_allocated = @ - 1,
                 !.memory_used = @ - PageHeaderSize,
                 !.memory_allocated = @ - PageHeaderSize - h.size
                                        - SizeOf({m_frees[i] : i \in gone})]
        /\ sound' = (sound /\ slot = page_count - 1)
        /\ corrupted' = \E c \in live \ {a} : c.page = page

\* The chunk becomes free.  It is joined to the first free chunk of the list
\* that ends where it begins or begins where it ends, and only to that one.
\* In the second case the code adds the size of the chunk to itself.
Join(a, page) ==
    LET size == header[a].size
        EndsAt(c, end) == c.page = end.page /\ c.offset + header[c].size = end.offset
        joined == {i \in DOMAIN m_frees : EndsAt(m_frees[i], a) \/ EndsAt(a, m_frees[i])}
        i == Min(joined)
        free == m_frees[i]
    IN  /\ IF joined = {}
           THEN /\ m_frees' = Append(m_frees, a)
                /\ header' = header
                /\ sound' = sound
           ELSE IF EndsAt(free, a)
           THEN /\ m_frees' = m_frees
                /\ header' = OnlyOf([header EXCEPT ![free].size = @ + size],
                                    DOMAIN header \ {a})
                /\ sound' = sound
           ELSE /\ m_frees' = [m_frees EXCEPT ![i] = a]
                /\ header' = OnlyOf([header EXCEPT ![a].size = @ + size],
                                    DOMAIN header \ {free})
                /\ sound' = (sound /\ header[free].size = size)
        /\ m_statistics' = [Returned(a) EXCEPT
               !.allocation_unused = @ + (IF joined = {} THEN 1 ELSE 0)]
        /\ page_header' = OneLess(page)
        /\ UNCHANGED <<m_pages, page_count, corrupted>>

Deallocate(a) ==
    LET page == m_pages[header[a].page_index]
    IN  /\ ~corrupted
        /\ a \in live
        /\ live' = live \ {a}
        /\ IF \/ page \notin Allocated
              \/ \E i \in DOMAIN m_frees : Dangling(m_frees[i])
           THEN /\ corrupted' = TRUE
                /\ UNCHANGED <<m_pages, page_count, m_frees, page_header, header,
                               m_statistics, sound>>
           ELSE IF LastAllocation(page)
           THEN GiveBack(a, page)
           ELSE Join(a, page)
        /\ UNCHANGED <<m_default_page_size, m_domain, allocations>>

Next ==
    \/ \E size \in PageSizes : SetPageSize(size)
    \/ \E domain \in Domains : SetDomain(domain)
    \/ \E size \in Sizes : Allocate(size)
    \/ \E a \in live : Deallocate(a)

Spec == Init /\ [][Next]_vars

-----------------------------------------------------------------------------
Frees == ToSet(m_frees)
Chunks == [page : Pages, offset : Nat]
Headers == [domain : Nat, page_index : Nat, size : Nat]
PageHeaders == [size : Nat, allocation_count : Int]
Statistics == [memory_allocated : Int, memory_used : Int, page_allocated : Int,
               allocation_used : Int, allocation_unused : Int, domains_allocated : Seq(Int)]

\* Every variable has its type, and the chunks with a header are those that
\* the caller or m_frees has.
TypeOK ==
    /\ m_default_page_size \in Nat
    /\ m_domain \in Nat
    /\ m_pages \in [Slots -> Pages \cup {Null}]
    /\ page_count \in 0 .. MaxAllocations
    /\ m_frees \in Seq(Chunks)
    /\ page_header \in [Pages -> PageHeaders]
    /\ live \subseteq Chunks
    /\ header \in [DOMAIN header -> Headers]
    /\ m_statistics \in Statistics
    /\ allocations \in 0 .. MaxAllocations
    /\ sound \in BOOLEAN
    /\ corrupted \in BOOLEAN
    /\ sound => /\ DOMAIN header = live \cup Frees
                /\ live \cap Frees = {}
                /\ Len(m_frees) = Cardinality(Frees)

\* While no size and no page was lost track of, the chunks of every page cut it
\* up exactly: no unit of it is in two chunks, none is in no chunk, and so no
\* two allocations share memory whatever was split, reused and joined before.
Tiling ==
    TypeOK /\ (sound =>
        /\ \A c \in live \cup Frees :
              /\ c.page \in Allocated /\ header[c].size >= HeaderSize
              /\ c.offset >= PageHeaderSize
              /\ c.offset + header[c].size <= page_header[c.page].size
        /\ \A p \in Allocated : \A unit \in PageHeaderSize .. page_header[p].size - 1 :
              Cardinality({c \in live \cup Frees :
                 c.page = p /\ unit \in c.offset .. c.offset + header[c].size - 1}) = 1)

\* Until then every chunk is charged to the page it lies in, and the count that
\* decides when a page is given back is that of its allocations.
PagesCounted ==
    sound =>
        /\ ~corrupted
        /\ Allocated = {m_pages[i] : i \in 0 .. page_count - 1}
        /\ \A c \in live \cup Frees : header[c].page_index < page_count
                                      /\ m_pages[header[c].page_index] = c.page
        /\ \A p \in Allocated :
              page_header[p].allocation_count = Cardinality({c \in live : c.page = p})

\* The figures that do not depend on the size of a free chunk are right as
\* long as no memory was corrupted, lost sizes and moved pages included.
FiguresExact ==
    corrupted \/
        /\ m_statistics.allocation_used = Cardinality(live)
        /\ m_statistics.allocation_unused = Len(m_frees)
        /\ m_statistics.page_allocated = Cardinality(Allocated)
        /\ m_statistics.memory_used = SizeOf(live) + PageHeaderSize * Cardinality(Allocated)

\* What is allocated is exactly the pages: none is kept without an allocation.
PagesExact ==
    sound =>
        /\ m_statistics.memory_allocated
             = MapThenSumSet(LAMBDA p : page_header[p].size, Allocated)
        /\ \A p \in Allocated : \E c \in live : c.page = p

\* Both, after every split, reuse, join and page given back (memory_manager.cpp:118, 164).
StatisticsExact == FiguresExact /\ PagesExact

-----------------------------------------------------------------------------
(* What the comments and the test of the manager say. *)

\* unit-tests.cpp:1168, test_memory: once everything is deallocated,
\* memory_allocated is 0 again.
AllReturned == live = {} => m_statistics.memory_allocated = 0

\* memory_manager.cpp:148: deallocating updates the domain of the allocation:
\* the figure of a domain is what is allocated in it.
DomainsExact ==
    \A d \in DOMAIN m_statistics.domains_allocated :
        m_statistics.domains_allocated[d]
            = SizeOf({c \in live : header[c].domain = d - 1})

\* memory_manager.cpp:148: deallocating gives back the memory at the address,
\* and no page but the one it lies in.
OwnPageOnly ==
    [][\A p \in Allocated \ Allocated' : \E a \in live \ live' : a.page = p]_vars
=============================================================================
