--------------------------- MODULE DictionaryProofs ---------------------------
(* Proofs about Dictionary. *)
EXTENDS Dictionary, FiniteSetTheorems, SequenceTheorems, WellFoundedInduction, TLAPS

-----------------------------------------------------------------------------
(* Numbers *)

LEMMA TimesAscends ==
    ASSUME NEW a \in Nat, NEW b \in Nat, NEW c \in Nat, a <= b
    PROVE  a * c <= b * c /\ a * c \in Nat /\ (a + 1) * c = a * c + c
<1>1. PICK d \in Nat : b = a + d
  <2>1. b - a \in Nat /\ b = a + (b - a)
    OBVIOUS
  <2> QED BY <2>1
<1>2. b * c = a * c + d * c
  BY <1>1
<1>3. d * c \in Nat /\ a * c \in Nat
  OBVIOUS
<1> QED BY <1>2, <1>3

\* The first unit of a page
Edge(n) == n * PageSize

LEMMA EdgeIs ==
    /\ PageSize \in Nat /\ PageSize > 0
    /\ \A n \in Nat : Edge(n) \in Nat /\ Edge(n + 1) = Edge(n) + PageSize
    /\ \A n, k \in Nat : Edge(n + k) = Edge(n) + Edge(k)
    /\ \A n, k \in Nat : n <= k => Edge(n) <= Edge(k)
    /\ \A n, k \in Nat : n < k => Edge(n) + PageSize <= Edge(k)
<1>1. PageSize \in Nat /\ PageSize > 0
  BY DictionaryOK
<1>2. ASSUME NEW n \in Nat PROVE Edge(n) \in Nat /\ Edge(n + 1) = Edge(n) + PageSize
  BY <1>1, TimesAscends DEF Edge
<1>3. ASSUME NEW n \in Nat, NEW k \in Nat PROVE Edge(n + k) = Edge(n) + Edge(k)
  BY <1>1 DEF Edge
<1>4. ASSUME NEW n \in Nat, NEW k \in Nat, n <= k PROVE Edge(n) <= Edge(k)
  BY <1>1, <1>4, TimesAscends DEF Edge
<1>5. ASSUME NEW n \in Nat, NEW k \in Nat, n < k PROVE Edge(n) + PageSize <= Edge(k)
  <2>1. n + 1 \in Nat /\ n + 1 <= k
    BY <1>5
  <2> QED BY <1>2, <1>4, <2>1
<1> QED BY <1>1, <1>2, <1>3, <1>4, <1>5

\* The page of a unit, counted from the first page
LEMMA PageOf ==
    ASSUME NEW x \in Nat
    PROVE  /\ x \div PageSize \in Nat
           /\ x < Edge(x \div PageSize + 1)
           /\ \A n \in Nat : Edge(n) <= x => n <= x \div PageSize
           /\ \A n \in Nat : x < Edge(n) => x \div PageSize < n
<1>1. PageSize \in Nat /\ PageSize > 0
  BY DictionaryOK
<1>2. PICK q, r : q = x \div PageSize /\ r = x % PageSize
  OBVIOUS
<1>3. q \in Nat /\ r \in 0 .. PageSize - 1 /\ x = PageSize * q + r
  BY <1>1, <1>2
<1>4. PageSize * q = q * PageSize /\ (q + 1) * PageSize = q * PageSize + PageSize
  BY <1>1, <1>3, TimesAscends
<1>5. Edge(q) = q * PageSize /\ Edge(q) \in Nat /\ Edge(q + 1) = Edge(q) + PageSize
  BY <1>3, EdgeIs DEF Edge
<1>6. Edge(q) <= x /\ x < Edge(q + 1)
  BY <1>1, <1>3, <1>4, <1>5
<1>7. ASSUME NEW n \in Nat, Edge(n) <= x PROVE n <= q
  <2> SUFFICES ASSUME q < n PROVE FALSE
    BY <1>3
  <2>1. Edge(q) + PageSize <= Edge(n) /\ Edge(n) \in Nat
    BY <1>3, EdgeIs
  <2> QED BY <1>1, <1>5, <1>6, <1>7, <2>1
<1>8. ASSUME NEW n \in Nat, x < Edge(n) PROVE q < n
  <2> SUFFICES ASSUME n <= q PROVE FALSE
    BY <1>3
  <2>1. Edge(n) <= Edge(q) /\ Edge(n) \in Nat
    BY <1>3, EdgeIs
  <2> QED BY <1>5, <1>6, <1>8, <2>1
<1> QED BY <1>2, <1>3, <1>6, <1>7, <1>8

LEMMA LeastSet ==
    ASSUME NEW S, IsFiniteSet(S), NEW bad, bad \subseteq SUBSET S, bad # {}
    PROVE  \E T \in bad : \A U \in bad : U \subseteq T => U = T
<1>1. bad \subseteq FiniteSubsetsOf(S)
  BY FS_FiniteSubsetsOfFinite
<1>2. IsWellFoundedOn(StrictSubsetOrdering(S), FiniteSubsetsOf(S))
  BY FS_StrictSubsetOrderingWellFounded
<1>3. PICK T \in bad : \A U \in bad : ~ (<<U, T>> \in StrictSubsetOrdering(S))
  BY <1>1, <1>2, WFMin
<1> QED BY <1>3 DEF StrictSubsetOrdering

LEMMA LeastNumber ==
    ASSUME NEW n \in Nat, NEW bad, bad \subseteq 0 .. n, bad # {}
    PROVE  \E k \in bad : \A m \in bad : k <= m
<1> DEFINE below == {0 .. (k - 1) : k \in bad}
<1>1. below \subseteq SUBSET (0 .. n) /\ below # {}
  <2> SUFFICES ASSUME NEW k \in bad PROVE 0 .. (k - 1) \subseteq 0 .. n
    OBVIOUS
  <2>1. k \in 0 .. n
    OBVIOUS
  <2> QED BY <2>1
<1>2. PICK S : S = 0 .. n /\ IsFiniteSet(S)
  BY FS_Interval
<1>3. PICK T \in below : \A U \in below : U \subseteq T => U = T
  <2>1. IsFiniteSet(S) /\ below \subseteq SUBSET S /\ below # {}
    BY <1>1, <1>2
  <2>2. PICK W : W = below
    OBVIOUS
  <2>3. \E T \in W : \A U \in W : U \subseteq T => U = T
    <3>1. IsFiniteSet(S) /\ W \subseteq SUBSET S /\ W # {}
      BY <2>1, <2>2, Zenon
    <3> HIDE <2>1, <2>2, <1>2
    <3> QED BY <3>1, LeastSet
  <2> QED BY <2>2, <2>3, Zenon
<1>4. PICK k \in bad : T = 0 .. (k - 1)
  OBVIOUS
<1>5. ASSUME NEW m \in bad, m < k PROVE FALSE
  <2>1. 0 .. (m - 1) \in below /\ 0 .. (m - 1) \subseteq T
    BY <1>4, <1>5
  <2>2. m \notin 0 .. (m - 1) /\ m \in 0 .. (k - 1)
    BY <1>5
  <2> QED BY <1>3, <1>4, <2>1, <2>2
<1> QED BY <1>5

LEMMA MinIn ==
    ASSUME NEW n \in Nat, NEW S, S \subseteq 0 .. n, S # {}
    PROVE  Min(S) \in S /\ \A y \in S : Min(S) <= y
<1>1. \E x \in S : \A y \in S : x <= y
  BY LeastNumber
<1> QED BY <1>1 DEF Min

-----------------------------------------------------------------------------
(* The links of a node *)

\* What the links say: "first" leads to a child, "next" to a child of the same parent.
Kin(d, par) ==
    /\ \A p \in DOMAIN d :
           /\ d[p].first # Invalid => d[p].first \in DOMAIN d \ {Root} /\ par[d[p].first] = p
           /\ d[p].last \in DOMAIN d => d[p].last # Root /\ par[d[p].last] = p
    /\ \A p \in DOMAIN d \ {Root} :
           d[p].next # Invalid => d[p].next \in DOMAIN d \ {Root} /\ par[d[p].next] = par[p]
    /\ Root \in DOMAIN d /\ d[Root].next = Invalid
    /\ Invalid \notin DOMAIN d

\* f is the function of the links, up to the n-th, that Chain follows.
Follows(f, d, p, n) ==
    f = [k \in 1 .. n |-> IF k = 1 THEN d[p].first
                          ELSE IF f[k - 1] \in DOMAIN d THEN d[f[k - 1]].next ELSE Invalid]

LEMMA FollowsExists ==
    ASSUME NEW d, NEW p, NEW n \in Nat
    PROVE  \E f : Follows(f, d, p, n)
<1>1. PICK bad : bad = {k \in 0 .. n : ~ \E f : Follows(f, d, p, k)}
  OBVIOUS
<1> SUFFICES ASSUME bad # {} PROVE FALSE
  BY <1>1
<1>2. PICK k \in bad : \A m \in bad : k <= m
  <2>1. bad \subseteq 0 .. n
    BY <1>1
  <2> HIDE <1>1
  <2> QED BY <2>1, LeastNumber
<1>3. k \in 0 .. n /\ ~ \E f : Follows(f, d, p, k)
  BY <1>1
<1>4. k # 0
  <2>1. PICK f : f = [i \in 1 .. 0 |-> 0]
    OBVIOUS
  <2>2. f = [i \in 1 .. 0 |-> IF i = 1 THEN d[p].first
                              ELSE IF f[i - 1] \in DOMAIN d THEN d[f[i - 1]].next ELSE Invalid]
    BY <2>1
  <2>3. Follows(f, d, p, 0)
    BY <2>2, Zenon DEF Follows
  <2> QED BY <1>3, <2>3
<1>5. PICK f : Follows(f, d, p, k - 1)
  <2>1. k - 1 \in 0 .. n /\ k - 1 \notin bad
    BY <1>2, <1>3, <1>4
  <2> QED BY <1>1, <2>1
<1>6. PICK g : g = [i \in 1 .. k |->
                       IF i = k THEN IF k = 1 THEN d[p].first
                                     ELSE IF f[k - 1] \in DOMAIN d THEN d[f[k - 1]].next ELSE Invalid
                       ELSE f[i]]
  OBVIOUS
<1>7. \A i \in 1 .. k - 1 : f[i] = IF i = 1 THEN d[p].first
                                  ELSE IF f[i - 1] \in DOMAIN d THEN d[f[i - 1]].next ELSE Invalid
  BY <1>5, Zenon DEF Follows
<1>8. \A i \in 1 .. k : g[i] = IF i = 1 THEN d[p].first
                              ELSE IF g[i - 1] \in DOMAIN d THEN d[g[i - 1]].next ELSE Invalid
  <2> SUFFICES ASSUME NEW i \in 1 .. k
               PROVE  g[i] = IF i = 1 THEN d[p].first
                             ELSE IF g[i - 1] \in DOMAIN d THEN d[g[i - 1]].next ELSE Invalid
    OBVIOUS
  <2>1. i # 1 => g[i - 1] = f[i - 1]
    BY <1>3, <1>4, <1>6
  <2>2. CASE i = k
    BY <1>6, <2>1, <2>2
  <2>3. CASE i # k
    <3>1. i \in 1 .. k - 1 /\ g[i] = f[i]
      BY <1>3, <1>6, <2>3
    <3> QED BY <1>7, <2>1, <3>1
  <2> QED BY <2>2, <2>3
<1>9. g = [i \in 1 .. k |-> g[i]]
  BY <1>6
<1>10. Follows(g, d, p, k)
  BY <1>8, <1>9, Zenon DEF Follows
<1> QED BY <1>3, <1>10

\* What Chain lists are children, each the "next" of the one before.
LEMMA ChainIs ==
    ASSUME NEW d, NEW par, Kin(d, par), NEW p \in DOMAIN d
    PROVE  LET chain == Chain(d, p) IN
           /\ DOMAIN chain \subseteq 1 .. MaxNodes + 1
           /\ \A k \in DOMAIN chain : /\ chain[k] \in DOMAIN d \ {Root} /\ par[chain[k]] = p
                                      /\ k # 1 => k - 1 \in DOMAIN chain /\ chain[k] = d[chain[k - 1]].next
                                      /\ k = 1 => chain[k] = d[p].first
<1>0. MaxNodes \in Nat
  BY DictionaryOK
<1>1. PICK n \in Nat : n = MaxNodes + 1
  BY <1>0
<1> DEFINE met == CHOOSE f : Follows(f, d, p, n)
<1>2. Chain(d, p) = [k \in {j \in 1 .. n : met[j] # Invalid} |-> met[k]]
  BY <1>1 DEF Chain, Follows
<1>3. Follows(met, d, p, n)
  BY FollowsExists
<1> HIDE DEF met
<1>4. \A k \in 1 .. n : met[k] = IF k = 1 THEN d[p].first
                                ELSE IF met[k - 1] \in DOMAIN d THEN d[met[k - 1]].next ELSE Invalid
  BY <1>3, Zenon DEF Follows
<1>5. PICK bad : bad = {k \in 1 .. n : met[k] # Invalid /\ ~ (met[k] \in DOMAIN d \ {Root} /\ par[met[k]] = p)}
  OBVIOUS
<1>6. bad = {}
  <2> SUFFICES ASSUME bad # {} PROVE FALSE
    OBVIOUS
  <2>1. PICK k \in bad : \A m \in bad : k <= m
    <3>1. bad \subseteq 0 .. n
      BY <1>5
    <3> HIDE <1>5
    <3> QED BY <3>1, LeastNumber
  <2>2. k \in 1 .. n /\ met[k] # Invalid /\ ~ (met[k] \in DOMAIN d \ {Root} /\ par[met[k]] = p)
    BY <1>5
  <2>3. k # 1
    <3> SUFFICES ASSUME k = 1 PROVE FALSE
      OBVIOUS
    <3>1. met[k] = d[p].first
      BY <1>4, <2>2
    <3> QED BY <2>2, <3>1 DEF Kin
  <2>4. k - 1 \in 1 .. n /\ k - 1 \notin bad
    BY <2>1, <2>2, <2>3
  <2>5. met[k - 1] \in DOMAIN d /\ met[k] = d[met[k - 1]].next
    BY <1>4, <2>2, <2>3
  <2>6. met[k - 1] # Invalid
    BY <2>5 DEF Kin
  <2>7. met[k - 1] \in DOMAIN d \ {Root} /\ par[met[k - 1]] = p
    BY <1>5, <2>4, <2>6
  <2> QED BY <2>2, <2>5, <2>7 DEF Kin
<1>7. \A k \in 1 .. n : met[k] # Invalid => met[k] \in DOMAIN d \ {Root} /\ par[met[k]] = p
  BY <1>5, <1>6
<1>8. \A k \in 1 .. n : met[k] # Invalid /\ k # 1 =>
          /\ k - 1 \in 1 .. n /\ met[k - 1] # Invalid /\ met[k] = d[met[k - 1]].next
  <2> SUFFICES ASSUME NEW k \in 1 .. n, met[k] # Invalid, k # 1
               PROVE  k - 1 \in 1 .. n /\ met[k - 1] # Invalid /\ met[k] = d[met[k - 1]].next
    OBVIOUS
  <2>1. met[k - 1] \in DOMAIN d /\ met[k] = d[met[k - 1]].next
    BY <1>4
  <2> QED BY <2>1 DEF Kin
<1>9. \A k \in 1 .. n : k = 1 => met[k] = d[p].first
  BY <1>4
<1>10. PICK chain : chain = Chain(d, p)
  OBVIOUS
<1>11. DOMAIN chain = {j \in 1 .. n : met[j] # Invalid} /\ \A k \in DOMAIN chain : chain[k] = met[k]
  BY <1>2, <1>10
<1> HIDE <1>2
<1> QED BY <1>1, <1>7, <1>8, <1>9, <1>10, <1>11

-----------------------------------------------------------------------------
(* The invariant, of a memory *)

\* What Avoided says, for the provers
Whole == "split datum" \in Avoided

IsMemory(m) ==
    m = [pages |-> m.pages, slots |-> m.slots, data |-> m.data, at |-> m.at,
         id |-> m.id, offset |-> m.offset, legal |-> m.legal]

\* No assertion has failed.
Fine(m) == m.legal

IsDatum(x) ==
    /\ x = [format |-> x.format, extra |-> x.extra, hash |-> x.hash, next |-> x.next,
            first |-> x.first, last |-> x.last]
    /\ x.format \in Formats /\ x.extra \in Extras /\ x.hash \in Names \cup {NoName}

\* The place of a datum in the page k below n
Spots(n) == (0 .. n - 1) \X (0 .. Word - 1)

Shaped(m) ==
    /\ IsMemory(m)
    /\ m.pages \in Nat /\ m.slots \in Seq(Nat \ {0}) /\ m.pages <= Len(m.slots)
    /\ m.at \in Nat \X Nat /\ m.offset \in Nat /\ m.legal \in BOOLEAN
    /\ m.id \in Spots(MaxPages)
    /\ Root \in DOMAIN m.data /\ DOMAIN m.data \ {Root} \subseteq Spots(m.pages)
    /\ \A p \in DOMAIN m.data : IsDatum(m.data[p]) /\ m.data[p].last \in Spots(MaxPages) \cup {Invalid}
    /\ m.data[Root].format \in Containers /\ m.data[Root].extra = 0

\* The first unit of a place, and the one behind the datum there
Addr(p) == Edge(p[1]) + p[2]
End(m, p) == Addr(p) + Size(m.data[p])

\* A place that was used, and is not in the midst of another datum
Marked(m, a) ==
    /\ a < Addr(m.at) /\ a < Edge(m.pages)
    /\ \A q \in DOMAIN m.data \ {Root} : a <= Addr(q) \/ End(m, q) <= a

Laid(m) ==
    /\ m.offset < PageSize => m.id = m.at /\ m.at[2] = m.offset /\ m.at[1] < m.pages
    /\ \A p \in DOMAIN m.data \ {Root} : End(m, p) <= Edge(m.pages) /\ End(m, p) <= Addr(m.at)
    /\ \A p, q \in DOMAIN m.data \ {Root} : p # q => End(m, p) <= Addr(q) \/ End(m, q) <= Addr(p)
    /\ \A p \in DOMAIN m.data : m.data[p].last # Invalid => Marked(m, Addr(m.data[p].last))
    /\ Whole => \A p \in DOMAIN m.data \ {Root} : Inside(m, p, Size(m.data[p]))

\* Only the children of arrays have no name.
Titled(d, par, offsets) ==
    \A c \in DOMAIN d \ {Root} :
        par[c] \in DOMAIN d /\ d[par[c]].format = "OBJECT" => d[c].hash \in offsets

\* Some function tells the parents.
IsTree(d, offsets) == \E par : Kin(d, par) /\ Titled(d, par, offsets)

Good(m, offsets) == Shaped(m) /\ Laid(m) /\ IsTree(m.data, offsets)

-----------------------------------------------------------------------------
(* Sizes and places *)

LEMMA LongestIs ==
    /\ Longest \in Lengths /\ \A k \in Lengths : k <= Longest /\ k \in Nat /\ k > 0
    /\ Longest \in Nat /\ Longest > 0
    /\ \A x \in Extras : x \in Nat
<1>1. \E l \in Lengths : \A k \in Lengths : k <= l
  BY DictionaryOK
<1>2. Longest \in Lengths /\ \A k \in Lengths : k <= Longest
  BY <1>1 DEF Longest
<1>3. Lengths \subseteq Nat \ {0}
  BY DictionaryOK
<1> QED BY <1>2, <1>3 DEF Extras

LEMMA SizeIs ==
    /\ \A f \in Formats : Base(f) \in Nat /\ Base(f) >= 2
    /\ \A f \in Containers : Base(f) = 4 /\ f \in Formats
    /\ \A x : IsDatum(x) => Size(x) \in Nat /\ Size(x) >= 2 /\ x.extra \in Nat
<1>1. \A f \in Formats : Base(f) \in {2, 3, 4, 5}
  BY DEF Formats, Fixed, Containers, Base
<1>2. \A f \in Containers : Base(f) = 4 /\ f \in Formats
  BY DEF Formats, Fixed, Containers, Base
<1>3. ASSUME NEW x, IsDatum(x) PROVE Size(x) \in Nat /\ Size(x) >= 2 /\ x.extra \in Nat
  <2>1. Base(x.format) \in {2, 3, 4, 5} /\ x.extra \in Nat
    BY <1>1, <1>3, LongestIs DEF IsDatum
  <2> QED BY <2>1 DEF Size
<1> QED BY <1>1, <1>2, <1>3

LEMMA AddrIs ==
    /\ PageSize \in Nat /\ PageSize > 0 /\ Word \in Nat /\ PageSize <= Word /\ MaxPages \in Nat /\ MaxPages < Word
    /\ \A p \in Nat \X Nat : Addr(p) \in Nat /\ Edge(p[1]) \in Nat /\ Edge(p[1]) <= Addr(p)
    /\ \A n \in Nat : \A p \in Spots(n) : p \in Nat \X Nat /\ p # Root /\ p[1] < n /\ p[2] < Word
    /\ \A n \in Nat : n <= MaxPages => \A p \in Spots(n) : p # Invalid
    /\ Root # Invalid
<1>1. PageSize \in Nat /\ PageSize > 0 /\ Word \in Nat /\ PageSize <= Word /\ MaxPages \in Nat /\ MaxPages < Word
  <2>1. PageSize \in Nat \ {0} /\ Word \in Nat /\ PageSize <= Word /\ MaxPages \in Nat \ {0} /\ MaxPages < Word
    BY DictionaryOK
  <2> QED BY <2>1
<1>2. ASSUME NEW p \in Nat \X Nat PROVE Addr(p) \in Nat /\ Edge(p[1]) \in Nat /\ Edge(p[1]) <= Addr(p)
  <2>1. p[1] \in Nat /\ p[2] \in Nat
    OBVIOUS
  <2>2. Edge(p[1]) \in Nat
    BY <2>1, EdgeIs
  <2> QED BY <2>1, <2>2 DEF Addr
<1>3. ASSUME NEW n \in Nat, NEW p \in Spots(n) PROVE p \in Nat \X Nat /\ p # Root /\ p[1] < n /\ p[2] < Word
  <2>1. p \in (0 .. n - 1) \X (0 .. Word - 1)
    BY DEF Spots
  <2>2. p[1] \in 0 .. n - 1 /\ p[2] \in 0 .. Word - 1 /\ p = <<p[1], p[2]>>
    BY <2>1
  <2>3. p[1] \in Nat /\ p[2] \in Nat /\ p[1] # -1
    BY <1>1, <2>2
  <2>4. p # Root
    BY <2>3 DEF Root
  <2> QED BY <1>1, <2>2, <2>3, <2>4
<1>4. ASSUME NEW n \in Nat, n <= MaxPages, NEW p \in Spots(n) PROVE p # Invalid
  BY <1>1, <1>4 DEF Spots, Invalid
<1>5. Root # Invalid
  BY <1>1 DEF Root, Invalid
<1> QED BY <1>1, <1>2, <1>3, <1>4, <1>5

LEMMA InsideIs ==
    ASSUME NEW m, NEW p, NEW size, NEW last, last = (Addr(p) + size - 1) \div PageSize
    PROVE  Inside(m, p, size) <=>
               last < m.pages /\ \A i \in p[1] .. last : m.slots[i + 1] = m.slots[p[1] + 1]
<1>1. last = (p[1] * PageSize + p[2] + size - 1) \div PageSize
  BY Zenon DEF Addr, Edge
<1> QED BY <1>1, Zenon DEF Inside

LEMMA AddPageIs ==
    ASSUME NEW m, Shaped(m), NEW count \in Nat, count > 0, NEW n, n = AddPage(m, count)
    PROVE  /\ IsMemory(n) /\ n.data = m.data /\ n.pages = m.pages + count
           /\ n.at = <<m.pages, 0>> /\ n.id = <<m.pages, 0>> /\ n.offset = 0
           /\ n.slots \in Seq(Nat \ {0}) /\ n.pages <= Len(n.slots)
           /\ \A i \in 1 .. m.pages : n.slots[i] = m.slots[i]
           /\ n.legal \in BOOLEAN
           /\ Fine(n) => Fine(m) /\ (Whole =>
                                         \A i \in m.pages + 1 .. n.pages : n.slots[i] = n.slots[n.pages])
<1>1. /\ IsMemory(m) /\ m.pages \in Nat /\ m.slots \in Seq(Nat \ {0}) /\ m.pages <= Len(m.slots)
      /\ m.legal \in BOOLEAN
  BY DEF Shaped
<1>2. PICK new, array, legal :
          /\ new = m.pages + count
          /\ array = IF new <= Len(m.slots) THEN m.slots
                     ELSE [i \in 1 .. new |-> IF i <= m.pages THEN m.slots[i]
                                               ELSE (IF m.slots = <<>> THEN 0 ELSE Last(m.slots)) + 1]
          /\ legal = (m.legal /\ \/ "split datum" \notin Avoided
                                 \/ \A i \in m.pages + 1 .. new : array[i] = array[new])
          /\ n = [m EXCEPT !.pages = new, !.slots = array, !.id = <<m.pages, 0>>, !.at = <<m.pages, 0>>,
                           !.offset = 0, !.legal = legal]
  BY Zenon DEF AddPage
<1>3. PICK last : last = IF m.slots = <<>> THEN 0 ELSE Last(m.slots)
  OBVIOUS
<1>4. /\ n = [m EXCEPT !.pages = new, !.slots = array, !.id = <<m.pages, 0>>, !.at = <<m.pages, 0>>,
                       !.offset = 0, !.legal = legal]
      /\ array = IF new <= Len(m.slots) THEN m.slots
                 ELSE [i \in 1 .. new |-> IF i <= m.pages THEN m.slots[i] ELSE last + 1]
      /\ new = m.pages + count
  BY <1>2, <1>3, Zenon
<1>5. /\ IsMemory(n) /\ n.pages = new /\ n.slots = array /\ n.id = <<m.pages, 0>> /\ n.at = <<m.pages, 0>>
      /\ n.offset = 0 /\ n.legal = legal /\ n.data = m.data
  BY <1>1, <1>4 DEF IsMemory
<1>6. /\ array \in Seq(Nat \ {0}) /\ new <= Len(array) /\ \A i \in 1 .. m.pages : array[i] = m.slots[i]
  <2>1. CASE new <= Len(m.slots)
    BY <1>1, <1>4, <2>1
  <2>2. CASE ~ (new <= Len(m.slots))
    <3>1. last \in Nat
      <4>1. CASE m.slots = <<>>
        BY <1>3, <4>1
      <4>2. CASE m.slots # <<>>
        <5>1. Len(m.slots) \in 1 .. Len(m.slots)
          BY <1>1, <4>2, EmptySeq, LenProperties
        <5>2. m.slots[Len(m.slots)] \in Nat
          BY <1>1, <5>1, ElementOfSeq
        <5> QED BY <1>3, <4>2, <5>2 DEF Last
      <4> QED BY <4>1, <4>2
    <3>2. new \in Nat /\ m.pages <= new
      BY <1>1, <1>4
    <3>3. array = [i \in 1 .. new |-> IF i <= m.pages THEN m.slots[i] ELSE last + 1]
      BY <1>4, <2>2
    <3>4. \A i \in 1 .. new : (IF i <= m.pages THEN m.slots[i] ELSE last + 1) \in Nat \ {0}
      BY <1>1, <3>1, <3>2
    <3>5. array \in [1 .. new -> Nat \ {0}]
      BY <3>3, <3>4
    <3>6. array \in Seq(Nat \ {0}) /\ Len(array) = new
      <4>1. array \in Seq(Nat \ {0})
        BY <3>2, <3>5, SeqDef
      <4>2. DOMAIN array = 1 .. new
        BY <3>3
      <4> QED BY <3>2, <4>1, <4>2, LenProperties
    <3> QED BY <1>1, <3>2, <3>3, <3>6
  <2> QED BY <2>1, <2>2
<1>7. legal \in BOOLEAN
  BY <1>2, Zenon
<1>8. ASSUME Fine(n)
      PROVE  Fine(m) /\ (Whole => \A i \in m.pages + 1 .. new : array[i] = array[new])
  BY <1>2, <1>5, <1>8, Zenon DEF Fine, Whole
<1>9. /\ IsMemory(n) /\ n.data = m.data /\ n.pages = m.pages + count
      /\ n.at = <<m.pages, 0>> /\ n.id = <<m.pages, 0>> /\ n.offset = 0
  BY <1>4, <1>5
<1>10. n.legal \in BOOLEAN
  BY <1>5, <1>7, Zenon
<1>11. n.slots \in Seq(Nat \ {0}) /\ n.pages <= Len(n.slots) /\ \A i \in 1 .. m.pages : n.slots[i] = m.slots[i]
  BY <1>5, <1>6
<1>12. n.pages = new /\ n.slots = array
  BY <1>5
<1> QED BY <1>8, <1>9, <1>10, <1>11, <1>12, Zenon

LEMMA AllocatedShape ==
    ASSUME NEW m, Shaped(m), NEW size \in Nat, NEW n, n = Allocated(m, size).memory
    PROVE  IsMemory(n) /\ n.legal \in BOOLEAN
<1>1. PICK b : b = IF PageFull(m, size) THEN AddPage(m, size \div PageSize + 1) ELSE m
  OBVIOUS
<1>2. n = [b EXCEPT !.at = <<b.at[1], b.at[2] + size>>]
  BY <1>1 DEF Allocated
<1>3. IsMemory(b) /\ b.legal \in BOOLEAN
  <2>1. CASE PageFull(m, size)
    <3>1. PICK k : k = size \div PageSize + 1
      OBVIOUS
    <3>2. k \in Nat /\ k > 0
      BY <3>1, PageOf
    <3>3. b = AddPage(m, k)
      BY <1>1, <2>1, <3>1
    <3> QED BY <3>2, <3>3, AddPageIs
  <2>2. CASE ~PageFull(m, size)
    BY <1>1, <2>2 DEF Shaped
  <2> QED BY <2>1, <2>2
<1>4. IsMemory(n) /\ n.legal = b.legal
  BY <1>2, <1>3 DEF IsMemory
<1> QED BY <1>3, <1>4

\* What Allocated takes: n is the memory then, and p the place of "size" units.
Taken(m, n, p, size) ==
    /\ Fine(m) /\ IsMemory(n) /\ n.legal \in BOOLEAN /\ n.data = m.data /\ n.pages \in Nat /\ m.pages <= n.pages
    /\ n.slots \in Seq(Nat \ {0}) /\ n.pages <= Len(n.slots)
    /\ \A i \in 1 .. m.pages : n.slots[i] = m.slots[i]
    /\ p \in Spots(n.pages) /\ p \notin DOMAIN m.data /\ p # Root /\ p # Invalid
    /\ n.id = p /\ n.offset = p[2] /\ n.at = <<p[1], p[2] + size>>
    /\ Addr(p) + size <= Edge(n.pages)
    /\ \A a \in Nat : Marked(m, a) => a < Addr(p)
    /\ \A q \in DOMAIN m.data \ {Root} : End(m, q) <= Addr(p)
    /\ Whole => Inside(n, p, size)
    /\ PageFull(m, size) => p = <<m.pages, 0>>

\* Where a new datum goes: behind all others, in pages that are there.
LEMMA AllocatedIs ==
    ASSUME NEW m, Shaped(m), Laid(m), NEW size \in Nat, size > 0, NEW n, n = Allocated(m, size).memory,
           NEW p, p = Allocated(m, size).place, Fine(n), n.pages <= MaxPages
    PROVE  Taken(m, n, p, size)
<1>1. /\ IsMemory(m) /\ m.pages \in Nat /\ m.slots \in Seq(Nat \ {0}) /\ m.pages <= Len(m.slots)
      /\ m.legal \in BOOLEAN /\ m.at \in Nat \X Nat /\ m.offset \in Nat
      /\ Root \in DOMAIN m.data /\ DOMAIN m.data \ {Root} \subseteq Spots(m.pages)
      /\ \A q \in DOMAIN m.data : IsDatum(m.data[q])
  BY DEF Shaped
<1>2. PICK b : b = IF PageFull(m, size) THEN AddPage(m, size \div PageSize + 1) ELSE m
  OBVIOUS
<1>3. n = [b EXCEPT !.at = <<b.at[1], b.at[2] + size>>] /\ p = b.at
  BY <1>2 DEF Allocated
<1>4. PICK k : k = size \div PageSize + 1
  OBVIOUS
<1>5. k \in Nat /\ k > 0 /\ size < Edge(k)
  <2>1. size \div PageSize \in Nat /\ size < Edge(size \div PageSize + 1)
    BY PageOf
  <2> QED BY <1>4, <2>1
<1>6. /\ IsMemory(b) /\ b.data = m.data /\ b.pages \in Nat /\ m.pages <= b.pages
      /\ b.slots \in Seq(Nat \ {0}) /\ b.pages <= Len(b.slots)
      /\ \A i \in 1 .. m.pages : b.slots[i] = m.slots[i]
      /\ b.at \in Nat \X Nat
      /\ b.legal \in BOOLEAN
      /\ Fine(b) => Fine(m)
  <2>1. CASE PageFull(m, size)
    <3>1. b = AddPage(m, k)
      BY <1>2, <1>4, <2>1
    <3>2. /\ IsMemory(b) /\ b.data = m.data /\ b.pages = m.pages + k
          /\ b.at = <<m.pages, 0>> /\ b.slots \in Seq(Nat \ {0}) /\ b.pages <= Len(b.slots)
          /\ (\A i \in 1 .. m.pages : b.slots[i] = m.slots[i]) /\ b.legal \in BOOLEAN /\ (Fine(b) => Fine(m))
      BY <1>5, <3>1, AddPageIs
    <3>3. m.pages + k \in Nat /\ m.pages <= m.pages + k /\ <<m.pages, 0>> \in Nat \X Nat
      BY <1>1, <1>5
    <3> QED BY <3>2, <3>3
  <2>2. CASE ~PageFull(m, size)
    BY <1>1, <1>2, <2>2
  <2> QED BY <2>1, <2>2
<1>7. /\ IsMemory(n) /\ n.pages = b.pages /\ n.slots = b.slots /\ n.data = b.data /\ n.id = b.id
      /\ n.offset = b.offset /\ n.legal \in BOOLEAN /\ Fine(b) /\ n.at = <<b.at[1], b.at[2] + size>>
  <2>1. IsMemory(n) /\ n.pages = b.pages /\ n.slots = b.slots /\ n.data = b.data /\ n.id = b.id
        /\ n.offset = b.offset /\ n.legal = b.legal /\ n.at = <<b.at[1], b.at[2] + size>>
    BY <1>3, <1>6 DEF IsMemory
  <2>2. Fine(b) /\ n.legal \in BOOLEAN
    BY <1>6, <2>1, Zenon DEF Fine
  <2> QED BY <2>1, <2>2
<1> DEFINE placed ==
        /\ p \in Spots(n.pages) /\ n.id = p /\ n.offset = p[2] /\ n.at = <<p[1], p[2] + size>>
        /\ Addr(p) + size <= Edge(n.pages)
        /\ \A a \in Nat : Marked(m, a) => a < Addr(p)
        /\ \A q \in DOMAIN m.data \ {Root} : End(m, q) <= Addr(p)
        /\ Whole => Inside(n, p, size)
        /\ PageFull(m, size) => p = <<m.pages, 0>>
<1>8. ASSUME PageFull(m, size) PROVE placed
  <2>1. b = AddPage(m, k)
    BY <1>2, <1>4, <1>8
  <2>2. /\ b.pages = m.pages + k /\ b.at = <<m.pages, 0>> /\ b.id = <<m.pages, 0>> /\ b.offset = 0
        /\ Fine(b) => (Whole =>
                           \A i \in m.pages + 1 .. b.pages : b.slots[i] = b.slots[b.pages])
    BY <1>5, <2>1, AddPageIs
  <2>3. p = <<m.pages, 0>> /\ p \in Nat \X Nat /\ p[1] = m.pages /\ p[2] = 0
    BY <1>1, <1>3, <2>2
  <2>4. Addr(p) = Edge(m.pages) /\ Edge(m.pages) \in Nat
    BY <1>1, <2>3, AddrIs DEF Addr
  <2>5. Edge(m.pages + k) = Edge(m.pages) + Edge(k) /\ Edge(k) \in Nat
    BY <1>1, <1>5, EdgeIs
  <2>6. Addr(p) + size <= Edge(n.pages) /\ Addr(p) + size - 1 < Edge(n.pages)
    BY <1>5, <1>7, <2>2, <2>4, <2>5
  <2>7. p \in Spots(n.pages)
    <3>1. n.pages = m.pages + k /\ m.pages \in 0 .. (m.pages + k) - 1
      BY <1>1, <1>5, <1>7, <2>2
    <3>2. 0 \in 0 .. Word - 1
      BY AddrIs
    <3>3. <<m.pages, 0>> \in (0 .. (m.pages + k) - 1) \X (0 .. Word - 1)
      BY <3>1, <3>2
    <3>4. Spots(m.pages + k) = (0 .. (m.pages + k) - 1) \X (0 .. Word - 1)
      BY DEF Spots
    <3> QED BY <2>3, <3>1, <3>3, <3>4, Zenon
  <2>8. \A a \in Nat : Marked(m, a) => a < Addr(p)
    BY <2>4 DEF Marked
  <2>9. \A q \in DOMAIN m.data \ {Root} : End(m, q) <= Addr(p)
    BY <2>4 DEF Laid
  <2>10. ASSUME Whole PROVE Inside(n, p, size)
    <3>1. PICK last : last = (Addr(p) + size - 1) \div PageSize
      OBVIOUS
    <3>2. last \in Nat /\ last < n.pages
      <4>1. Addr(p) + size - 1 \in Nat /\ n.pages \in Nat
        BY <1>6, <1>7, <2>4
      <4> QED BY <2>6, <3>1, <4>1, PageOf
    <3>3. \A i \in m.pages + 1 .. n.pages : n.slots[i] = n.slots[n.pages]
      BY <1>7, <2>2, <2>10
    <3>4. \A i \in m.pages .. last : n.slots[i + 1] = n.slots[m.pages + 1]
      <4>1. \A i \in m.pages .. last : i + 1 \in m.pages + 1 .. n.pages
        BY <1>1, <1>5, <1>7, <2>2, <3>2
      <4>2. m.pages + 1 \in m.pages + 1 .. n.pages
        BY <1>1, <1>5, <1>7, <2>2
      <4> QED BY <3>3, <4>1, <4>2
    <3> QED BY <2>3, <3>1, <3>2, <3>4, InsideIs
  <2>11. n.id = p /\ n.offset = p[2] /\ n.at = <<p[1], p[2] + size>>
    BY <1>3, <1>7, <2>2, <2>3
  <2> QED BY <2>3, <2>6, <2>7, <2>8, <2>9, <2>10, <2>11, Zenon
<1>9. ASSUME ~PageFull(m, size) PROVE placed
  <2>1. b = m /\ p = m.at
    BY <1>2, <1>3, <1>9
  <2>2. m.offset + size < PageSize /\ m.offset < PageSize
    BY <1>1, <1>9, AddrIs DEF PageFull
  <2>3. m.id = m.at /\ m.at[2] = m.offset /\ m.at[1] < m.pages
    BY <2>2 DEF Laid
  <2>4. p \in Nat \X Nat /\ p[1] \in Nat /\ p[2] \in Nat /\ p = <<p[1], p[2]>>
    BY <1>1, <2>1
  <2>5. /\ Addr(p) \in Nat /\ Addr(p) = Edge(p[1]) + p[2] /\ Edge(p[1]) \in Nat
        /\ Edge(p[1] + 1) = Edge(p[1]) + PageSize
        /\ Edge(p[1] + 1) <= Edge(m.pages) /\ Edge(m.pages) \in Nat
    <3>1. p[1] \in Nat /\ p[2] \in Nat /\ p[1] < m.pages /\ Edge(p[1]) \in Nat /\ Edge(m.pages) \in Nat
      BY <1>1, <2>1, <2>3, <2>4, EdgeIs
    <3>2. Edge(p[1] + 1) = Edge(p[1]) + PageSize /\ Edge(p[1]) + PageSize <= Edge(m.pages)
      BY <1>1, <2>4, <3>1, EdgeIs
    <3>3. Addr(p) = Edge(p[1]) + p[2]
      BY DEF Addr
    <3>4. PageSize \in Nat
      BY EdgeIs
    <3> QED BY <3>1, <3>2, <3>3, <3>4
  <2>6. Addr(p) + size <= Edge(n.pages) /\ Addr(p) + size - 1 < Edge(p[1] + 1)
    <3>1. n.pages = m.pages /\ p[2] = m.offset /\ p[2] \in Nat
      BY <1>7, <2>1, <2>3, <2>4
    <3>2. PageSize \in Nat /\ p[2] + size < PageSize
      BY <2>2, <3>1, EdgeIs
    <3>3. Addr(p) + size < Edge(p[1] + 1)
      BY <2>5, <3>1, <3>2
    <3> QED BY <2>5, <3>1, <3>2, <3>3
  <2>7. p \in Spots(n.pages)
    <3>1. n.pages = m.pages /\ m.pages \in Nat /\ Word \in Nat /\ PageSize \in Nat /\ PageSize <= Word
      BY <1>1, <1>7, <2>1, AddrIs
    <3>2. p[1] < m.pages /\ p[2] < PageSize
      BY <2>1, <2>2, <2>3
    <3>3. p[1] \in 0 .. n.pages - 1 /\ p[2] \in 0 .. Word - 1
      BY <2>4, <3>1, <3>2
    <3> QED BY <2>4, <3>3 DEF Spots
  <2>8. \A a \in Nat : Marked(m, a) => a < Addr(p)
    BY <2>1 DEF Marked
  <2>9. \A q \in DOMAIN m.data \ {Root} : End(m, q) <= Addr(p)
    BY <2>1 DEF Laid
  <2>10. Inside(n, p, size)
    <3>1. PICK last : last = (Addr(p) + size - 1) \div PageSize
      OBVIOUS
    <3>2. last \in Nat /\ last = p[1]
      <4>1. Addr(p) + size - 1 \in Nat /\ Edge(p[1]) <= Addr(p) + size - 1
        BY <2>4, <2>5
      <4>2. p[1] + 1 \in Nat
        BY <2>4
      <4>3. last \in Nat /\ p[1] <= last /\ last < p[1] + 1
        BY <2>4, <2>6, <3>1, <4>1, <4>2, PageOf
      <4> QED BY <2>4, <4>3
    <3>3. \A i \in p[1] .. last : i = p[1]
      BY <2>4, <3>2
    <3>4. last < n.pages /\ \A i \in p[1] .. last : n.slots[i + 1] = n.slots[p[1] + 1]
      BY <1>7, <2>1, <2>3, <3>2, <3>3
    <3> QED BY <3>1, <3>4, InsideIs
  <2>11. n.id = p /\ n.offset = p[2] /\ n.at = <<p[1], p[2] + size>>
    BY <1>3, <1>7, <2>1, <2>3
  <2> QED BY <1>9, <2>6, <2>7, <2>8, <2>9, <2>10, <2>11, Zenon
<1>10. placed
  BY <1>8, <1>9
<1> HIDE DEF placed
<1>11. p # Root /\ p # Invalid /\ Addr(p) \in Nat
  <2>1. p \in Spots(n.pages)
    BY <1>10 DEF placed
  <2> QED BY <1>6, <1>7, <2>1, AddrIs
<1>12. p \notin DOMAIN m.data
  <2> SUFFICES ASSUME p \in DOMAIN m.data PROVE FALSE
    OBVIOUS
  <2>1. Addr(p) + Size(m.data[p]) <= Addr(p)
    BY <1>10, <1>11 DEF End, placed
  <2>2. Size(m.data[p]) \in Nat /\ Size(m.data[p]) >= 2
    BY <1>1, SizeIs
  <2> QED BY <1>11, <2>1, <2>2
<1>13. /\ Fine(m) /\ IsMemory(n) /\ n.legal \in BOOLEAN /\ n.data = m.data /\ n.pages \in Nat /\ m.pages <= n.pages
       /\ n.slots \in Seq(Nat \ {0}) /\ n.pages <= Len(n.slots)
       /\ \A i \in 1 .. m.pages : n.slots[i] = m.slots[i]
  BY <1>6, <1>7
<1> QED BY <1>10, <1>11, <1>12, <1>13, Zenon DEF placed, Taken

-----------------------------------------------------------------------------
(* The links stay links *)

\* Par without what it says of x; "new" has the parent "above".
Reparented(par, where, x, new, above) ==
    [c \in where |-> LET p == IF c = new THEN above ELSE par[c]
                     IN  IF p = x THEN Invalid ELSE p]

LEMMA SetKin ==
    ASSUME NEW d, NEW par, Kin(d, par), NEW offsets, Titled(d, par, offsets), NEW p \in DOMAIN d,
           NEW x, x.next = d[p].next, x.first = Invalid, x.last = Invalid, x.hash = d[p].hash,
           NEW e, e = Store(d, p, x)
    PROVE  LET kin == Reparented(par, DOMAIN d, p, p, par[p]) IN Kin(e, kin) /\ Titled(e, kin, offsets)
<1>1. PICK kin : kin = Reparented(par, DOMAIN d, p, p, par[p])
  OBVIOUS
<1>2. \A c \in DOMAIN d : kin[c] = IF par[c] = p THEN Invalid ELSE par[c]
  BY <1>1 DEF Reparented
<1>3. DOMAIN e = DOMAIN d /\ \A q \in DOMAIN d : e[q] = IF q = p THEN x ELSE d[q]
  BY DEF Store
<1>4. Kin(e, kin)
  BY <1>2, <1>3 DEF Kin
<1>5. Titled(e, kin, offsets)
  BY <1>2, <1>3 DEF Titled, Kin
<1> QED BY <1>1, <1>4, <1>5

\* Only links change, and they stay what they are or lead to a child of the parent.
LEMMA RelinkedKin ==
    ASSUME NEW d, NEW par, Kin(d, par), NEW offsets, Titled(d, par, offsets), NEW e, DOMAIN e = DOMAIN d,
           \A q \in DOMAIN d :
               /\ e[q].format = "OBJECT" => d[q].format = "OBJECT"
               /\ e[q].hash = d[q].hash
               /\ \/ e[q].first \in {d[q].first, Invalid}
                  \/ e[q].first \in DOMAIN d \ {Root} /\ par[e[q].first] = q
               /\ \/ e[q].last \in {d[q].last, Invalid}
                  \/ e[q].last \in DOMAIN d \ {Root} /\ par[e[q].last] = q
               /\ \/ e[q].next = d[q].next
                  \/ q # Root /\ e[q].next = Invalid
                  \/ q # Root /\ e[q].next \in DOMAIN d \ {Root} /\ par[e[q].next] = par[q]
    PROVE  Kin(e, par) /\ Titled(e, par, offsets)
<1>1. Kin(e, par)
  BY DEF Kin
<1>2. Titled(e, par, offsets)
  BY DEF Titled
<1> QED BY <1>1, <1>2

\* A datum at a new place gets links of its own.
LEMMA NewKin ==
    ASSUME NEW d, NEW par, Kin(d, par), NEW offsets, Titled(d, par, offsets),
           NEW new, new \notin DOMAIN d, new # Invalid, new # Root, \A q \in DOMAIN d : d[q].last # new,
           NEW above \in DOMAIN d \cup {Invalid}, NEW x, x.first = Invalid, x.last = Invalid,
           x.next \in {Invalid, new} \/ (x.next \in DOMAIN d \ {Root} /\ par[x.next] = above),
           above \in DOMAIN d /\ d[above].format = "OBJECT" => x.hash \in offsets,
           NEW e, e = Store(d, new, x)
    PROVE  LET kin == Reparented(par, DOMAIN e, new, new, above) IN
           /\ Kin(e, kin) /\ Titled(e, kin, offsets) /\ kin[new] = above
           /\ \A c \in DOMAIN d : par[c] # new => kin[c] = par[c]
<1>1. PICK kin : kin = Reparented(par, DOMAIN e, new, new, above)
  OBVIOUS
<1>2. DOMAIN e = DOMAIN d \cup {new} /\ e[new] = x /\ \A q \in DOMAIN d : e[q] = d[q]
  BY DEF Store
<1>3. kin[new] = above /\ \A c \in DOMAIN d : kin[c] = IF par[c] = new THEN Invalid ELSE par[c]
  BY <1>1, <1>2 DEF Reparented
<1>4. Kin(e, kin)
  BY <1>2, <1>3 DEF Kin
<1>5. Titled(e, kin, offsets)
  BY <1>2, <1>3 DEF Titled, Kin
<1> QED BY <1>1, <1>3, <1>4, <1>5

LEMMA ReachedKin ==
    ASSUME NEW d, NEW par, Kin(d, par), NEW offsets, Titled(d, par, offsets),
           NEW e, e = [p \in Reached(d) |-> d[p]]
    PROVE  Kin(e, par) /\ Titled(e, par, offsets) /\ Root \in Reached(d) /\ Reached(d) \subseteq DOMAIN d
<1>1. PICK S : S = Reached(d)
  OBVIOUS
<1>2. S = {p \in DOMAIN d : \A C \in Closed(d) : p \in C}
  BY <1>1 DEF Reached
<1>3. \A C \in Closed(d) :
          Root \in C /\ \A p \in C : {d[p].first, d[p].next} \cap DOMAIN d \subseteq C
  BY DEF Closed
<1>4. Root \in DOMAIN d
  BY DEF Kin
<1>5. Root \in S /\ S \subseteq DOMAIN d
  BY <1>2, <1>3, <1>4
<1>6. \A p \in S : {d[p].first, d[p].next} \cap DOMAIN d \subseteq S
  BY <1>2, <1>3
<1>7. DOMAIN e = S /\ \A p \in S : e[p] = d[p]
  BY <1>1
<1>8. Kin(e, par)
  BY <1>5, <1>6, <1>7 DEF Kin
<1>9. Titled(e, par, offsets)
  BY <1>5, <1>7 DEF Titled
<1> QED BY <1>1, <1>5, <1>8, <1>9

\* The function that tells the parents can be one that names nodes only.
LEMMA ParentsExist ==
    ASSUME NEW d, NEW offsets, IsTree(d, offsets)
    PROVE  \E par : /\ Kin(d, par) /\ Titled(d, par, offsets)
                    /\ \A c \in DOMAIN d : par[c] \in DOMAIN d \cup {Invalid}
<1>1. PICK par : Kin(d, par) /\ Titled(d, par, offsets)
  BY DEF IsTree
<1>2. PICK kin : kin = [c \in DOMAIN d |-> IF par[c] \in DOMAIN d THEN par[c] ELSE Invalid]
  OBVIOUS
<1>3. \A c \in DOMAIN d : kin[c] = IF par[c] \in DOMAIN d THEN par[c] ELSE Invalid
  BY <1>2
<1>4. Kin(d, kin)
  BY <1>1, <1>3 DEF Kin
<1>5. Titled(d, kin, offsets)
  BY <1>1, <1>3 DEF Titled, Kin
<1> QED BY <1>3, <1>4, <1>5

LEMMA SetTree ==
    ASSUME NEW d, NEW offsets, IsTree(d, offsets), NEW p \in DOMAIN d,
           NEW x, x.next = d[p].next, x.first = Invalid, x.last = Invalid, x.hash = d[p].hash
    PROVE  IsTree(Store(d, p, x), offsets)
<1>1. PICK par : Kin(d, par) /\ Titled(d, par, offsets)
  BY DEF IsTree
<1>2. PICK e : e = Store(d, p, x)
  OBVIOUS
<1> QED BY <1>1, <1>2, SetKin DEF IsTree

LEMMA ReachedTree ==
    ASSUME NEW d, NEW offsets, IsTree(d, offsets), NEW e, e = [p \in Reached(d) |-> d[p]]
    PROVE  IsTree(e, offsets) /\ Root \in Reached(d) /\ Reached(d) \subseteq DOMAIN d
<1>1. PICK par : Kin(d, par) /\ Titled(d, par, offsets)
  BY DEF IsTree
<1> QED BY <1>1, ReachedKin DEF IsTree

\* A datum with a new link, and the same value
LEMMA NextDatum ==
    ASSUME NEW x, IsDatum(x), NEW a, NEW y, y = [x EXCEPT !.next = a]
    PROVE  /\ IsDatum(y) /\ y.next = a /\ y.first = x.first /\ y.last = x.last
           /\ y.format = x.format /\ y.hash = x.hash /\ y.extra = x.extra
BY DEF IsDatum

LEMMA EndsDatum ==
    ASSUME NEW x, IsDatum(x), NEW a, NEW b, NEW y, y = [x EXCEPT !.first = a, !.last = b]
    PROVE  /\ IsDatum(y) /\ y.next = x.next /\ y.first = a /\ y.last = b
           /\ y.format = x.format /\ y.hash = x.hash /\ y.extra = x.extra
BY DEF IsDatum

\* e has the nodes of d, and some links lead to id, as children of the root.
Relinked(e, d, id, par, p) ==
    /\ DOMAIN e = DOMAIN d
    /\ \A q \in DOMAIN d :
           /\ IsDatum(e[q])
           /\ e[q].format = d[q].format /\ e[q].hash = d[q].hash /\ e[q].extra = d[q].extra
           /\ e[q].first = d[q].first \/ (e[q].first = id /\ q = Root /\ par[p] = Root)
           /\ e[q].last = d[q].last \/ (e[q].last = id /\ q = Root /\ par[p] = Root)
           /\ e[q].next = d[q].next \/ (e[q].next = id /\ q # Root /\ par[p] = Root /\ par[q] = Root)

LEMMA PatchedIs ==
    ASSUME NEW m, NEW p, NEW par, Kin(m.data, par), \A q \in DOMAIN m.data : IsDatum(m.data[q]),
           NEW e, e = Patched(m, p)
    PROVE  Relinked(e, m.data, m.id, par, p)
<1>1. PICK d, id, kids : d = m.data /\ id = m.id /\ kids = ToSet(Chain(m.data, Root))
  OBVIOUS
<1>2. \A q \in kids : q # Root /\ par[q] = Root
  <2>1. Root \in DOMAIN d
    BY <1>1 DEF Kin
  <2>2. PICK chain : chain = Chain(d, Root)
    OBVIOUS
  <2>3. \A k \in DOMAIN chain : chain[k] # Root /\ par[chain[k]] = Root
    BY <1>1, <2>1, <2>2, ChainIs
  <2> QED BY <1>1, <2>2, <2>3 DEF ToSet
<1> DEFINE To(x) == IF x = p THEN id ELSE x
<1>3. e = IF p \notin kids THEN d
          ELSE [q \in DOMAIN d |->
                  IF q = Root THEN [d[q] EXCEPT !.first = To(d[q].first), !.last = To(d[q].last)]
                  ELSE IF q \in kids THEN [d[q] EXCEPT !.next = To(d[q].next)]
                  ELSE d[q]]
  BY <1>1 DEF Patched
<1>4. CASE p \notin kids
  BY <1>1, <1>3, <1>4 DEF Relinked
<1>5. CASE p \in kids
  <2>1. DOMAIN e = DOMAIN d /\ par[p] = Root
    BY <1>2, <1>3, <1>5
  <2>2. ASSUME NEW q \in DOMAIN d
        PROVE  /\ IsDatum(e[q])
               /\ e[q].format = d[q].format /\ e[q].hash = d[q].hash /\ e[q].extra = d[q].extra
               /\ e[q].first = d[q].first \/ (e[q].first = id /\ q = Root)
               /\ e[q].last = d[q].last \/ (e[q].last = id /\ q = Root)
               /\ e[q].next = d[q].next \/ (e[q].next = id /\ q # Root /\ par[q] = Root)
    <3>0. IsDatum(d[q])
      BY <1>1
    <3>1. CASE q = Root
      <4>1. e[q] = [d[q] EXCEPT !.first = To(d[q].first), !.last = To(d[q].last)]
        BY <1>3, <1>5, <3>1
      <4>2. PICK a, b : a = To(d[q].first) /\ b = To(d[q].last)
        OBVIOUS
      <4>3. e[q] = [d[q] EXCEPT !.first = a, !.last = b]
        BY <4>1, <4>2
      <4>4. PICK x, y : x = d[q] /\ y = e[q]
        OBVIOUS
      <4>5. /\ IsDatum(y) /\ y.next = x.next /\ y.first = a /\ y.last = b
            /\ y.format = x.format /\ y.hash = x.hash /\ y.extra = x.extra
        <5>1. IsDatum(x) /\ y = [x EXCEPT !.first = a, !.last = b]
          BY <3>0, <4>3, <4>4
        <5> HIDE DEF To
        <5> QED BY <5>1 DEF IsDatum
      <4> QED BY <3>1, <4>2, <4>4, <4>5
    <3>2. CASE q # Root /\ q \in kids
      <4>1. PICK a : a = To(d[q].next)
        OBVIOUS
      <4>2. e[q] = [d[q] EXCEPT !.next = a]
        BY <1>3, <1>5, <3>2, <4>1
      <4> QED BY <1>2, <3>0, <3>2, <4>1, <4>2, NextDatum
    <3>3. CASE q # Root /\ q \notin kids
      <4>1. e[q] = d[q]
        BY <1>3, <1>5, <3>3
      <4> QED BY <3>0, <4>1
    <3> QED BY <3>1, <3>2, <3>3
  <2> QED BY <1>1, <2>1, <2>2 DEF Relinked
<1> QED BY <1>4, <1>5

LEMMA MoveTree ==
    ASSUME NEW m, NEW offsets, IsTree(m.data, offsets), \A q \in DOMAIN m.data : IsDatum(m.data[q]),
           NEW p \in DOMAIN m.data \ {Root}, m.id \notin DOMAIN m.data, m.id # Invalid, m.id # Root,
           \A q \in DOMAIN m.data : m.data[q].last # m.id,
           NEW x, x.first = Invalid, x.last = Invalid, x.next \in {m.data[p].next, m.id}, x.hash = m.data[p].hash
    PROVE  IsTree(Store(Patched(m, p), m.id, x), offsets)
<1>1. PICK d, new, e, patched : /\ d = m.data /\ new = m.id /\ patched = Patched(m, p)
                                /\ e = Store(Patched(m, p), m.id, x)
  OBVIOUS
<1>2. PICK par : /\ Kin(d, par) /\ Titled(d, par, offsets)
                 /\ \A c \in DOMAIN d : par[c] \in DOMAIN d \cup {Invalid}
  BY <1>1, ParentsExist
<1>3. PICK above, d1 : above = par[p] /\ d1 = Store(d, new, x)
  OBVIOUS
<1>4. /\ new \notin DOMAIN d /\ new # Invalid /\ new # Root /\ p \in DOMAIN d \ {Root}
      /\ \A q \in DOMAIN d : d[q].last # new
      /\ x.next \in {d[p].next, new} /\ x.hash = d[p].hash
  BY <1>1
<1>5. above \in DOMAIN d \cup {Invalid}
  BY <1>2, <1>3, <1>4
<1>6. x.next \in {Invalid, new} \/ (x.next \in DOMAIN d \ {Root} /\ par[x.next] = above)
  BY <1>2, <1>3, <1>4 DEF Kin
<1>7. above \in DOMAIN d /\ d[above].format = "OBJECT" => x.hash \in offsets
  BY <1>2, <1>3, <1>4 DEF Titled
<1>8. PICK kin : /\ Kin(d1, kin) /\ Titled(d1, kin, offsets) /\ kin[new] = above
                 /\ \A c \in DOMAIN d : par[c] # new => kin[c] = par[c]
  BY <1>2, <1>3, <1>4, <1>5, <1>6, <1>7, NewKin
<1>9. \A c \in DOMAIN d : kin[c] = par[c]
  BY <1>2, <1>4, <1>8
<1>10. DOMAIN d1 = DOMAIN d \cup {new} /\ d1[new] = x /\ \A q \in DOMAIN d : d1[q] = d[q]
  BY <1>3, <1>4 DEF Store
<1>11. Relinked(patched, d, new, par, p)
  <2>1. Kin(m.data, par) /\ patched = Patched(m, p)
    BY <1>1, <1>2
  <2>2. Relinked(patched, m.data, m.id, par, p)
    BY <2>1, PatchedIs
  <2> QED BY <1>1, <2>2
<1>12. DOMAIN e = DOMAIN d \cup {new} /\ e[new] = x /\ \A q \in DOMAIN d : e[q] = patched[q]
  <2>1. e = Store(patched, new, x)
    BY <1>1
  <2> QED BY <1>4, <1>11, <2>1 DEF Store, Relinked
<1>13. DOMAIN e = DOMAIN d1
  BY <1>10, <1>12
<1>14. ASSUME NEW q \in DOMAIN d1
       PROVE  /\ e[q].format = "OBJECT" => d1[q].format = "OBJECT"
              /\ e[q].hash = d1[q].hash
              /\ \/ e[q].first \in {d1[q].first, Invalid}
                 \/ e[q].first \in DOMAIN d1 \ {Root} /\ kin[e[q].first] = q
              /\ \/ e[q].last \in {d1[q].last, Invalid}
                 \/ e[q].last \in DOMAIN d1 \ {Root} /\ kin[e[q].last] = q
              /\ \/ e[q].next = d1[q].next
                 \/ q # Root /\ e[q].next = Invalid
                 \/ q # Root /\ e[q].next \in DOMAIN d1 \ {Root} /\ kin[e[q].next] = kin[q]
  <2>1. CASE q = new
    BY <1>10, <1>12, <2>1
  <2>2. CASE q \in DOMAIN d
    <3>1. new \in DOMAIN d1 \ {Root} /\ kin[new] = par[p] /\ kin[q] = par[q] /\ e[q] = patched[q] /\ d1[q] = d[q]
      BY <1>3, <1>4, <1>8, <1>9, <1>10, <1>12, <2>2
    <3> QED BY <1>11, <2>2, <3>1 DEF Relinked
  <2> QED BY <1>10, <2>1, <2>2
<1>15. Kin(e, kin) /\ Titled(e, kin, offsets)
  BY <1>8, <1>13, <1>14, RelinkedKin
<1> QED BY <1>1, <1>15 DEF IsTree

\* What AddNode does to the links
Joined(e, d, new, x, parent, format) ==
    /\ DOMAIN e = DOMAIN d \cup {new} /\ e[new] = x
    /\ \A q \in DOMAIN d :
           /\ IsDatum(e[q]) /\ e[q].hash = d[q].hash /\ e[q].extra = d[q].extra
           /\ e[q].format = IF q = parent THEN format ELSE d[q].format
           /\ e[q].first = d[q].first \/ (q = parent /\ e[q].first = new)
           /\ e[q].last = IF q = parent THEN new ELSE d[q].last
           /\ \/ e[q].next = d[q].next
              \/ d[parent].first # Invalid /\ q = d[parent].last /\ e[q].next = new

LEMMA LinkedIs ==
    ASSUME NEW d, \A q \in DOMAIN d : IsDatum(d[q]), NEW parent \in DOMAIN d, NEW new, new \notin DOMAIN d,
           NEW x, NEW format \in Formats, NEW e, e = Linked(Store(d, new, x), parent, new, format),
           d[parent].last # new
    PROVE  Joined(e, d, new, x, parent, format)
<1>1. PICK w : w = Store(d, new, x)
  OBVIOUS
<1>2. DOMAIN w = DOMAIN d \cup {new} /\ w[new] = x /\ \A q \in DOMAIN d : w[q] = d[q]
  BY <1>1 DEF Store
<1>3. e = [q \in DOMAIN w |->
              IF q = parent
              THEN [w[q] EXCEPT !.first = IF @ = Invalid THEN new ELSE @, !.last = new, !.format = format]
              ELSE IF w[parent].first # Invalid /\ q = w[parent].last
              THEN [w[q] EXCEPT !.next = new]
              ELSE w[q]]
  BY <1>1, Zenon DEF Linked
<1>4. DOMAIN e = DOMAIN d \cup {new}
  BY <1>2, <1>3
<1>5. e[new] = x
  BY <1>2, <1>3
<1>6. ASSUME NEW q \in DOMAIN d
      PROVE  /\ IsDatum(e[q]) /\ e[q].hash = d[q].hash /\ e[q].extra = d[q].extra
             /\ e[q].format = IF q = parent THEN format ELSE d[q].format
             /\ e[q].first = d[q].first \/ (q = parent /\ e[q].first = new)
             /\ e[q].last = IF q = parent THEN new ELSE d[q].last
             /\ \/ e[q].next = d[q].next
                \/ d[parent].first # Invalid /\ q = d[parent].last /\ e[q].next = new
  <2>1. PICK y, z : y = d[q] /\ z = e[q]
    OBVIOUS
  <2>2. CASE q = parent
    <3>1. PICK a : a = IF y.first = Invalid THEN new ELSE y.first
      OBVIOUS
    <3>2. z = [y EXCEPT !.first = a, !.last = new, !.format = format]
      <4>1. q \in DOMAIN w /\ w[q] = y
        BY <1>2, <2>1
      <4>2. e[q] = [w[q] EXCEPT !.first = IF w[q].first = Invalid THEN new ELSE w[q].first,
                                !.last = new, !.format = format]
        BY <1>3, <2>2, <4>1, Zenon
      <4> QED BY <2>1, <3>1, <4>1, <4>2, Zenon
    <3>3. IsDatum(y)
      BY <2>1
    <3>4. /\ IsDatum(z) /\ z.hash = y.hash /\ z.extra = y.extra /\ z.format = format
          /\ z.first = a /\ z.last = new /\ z.next = y.next
      BY <3>2, <3>3 DEF IsDatum
    <3> QED BY <2>1, <2>2, <3>1, <3>4
  <2>3. CASE q # parent /\ d[parent].first # Invalid /\ q = d[parent].last
    <3>1. z = [y EXCEPT !.next = new]
      <4>1. q \in DOMAIN w /\ w[q] = y /\ w[parent] = d[parent]
        BY <1>2, <2>1
      <4>2. e[q] = [w[q] EXCEPT !.next = new]
        BY <1>3, <2>3, <4>1, Zenon
      <4> QED BY <2>1, <4>1, <4>2
    <3>2. IsDatum(y)
      BY <2>1
    <3>3. /\ IsDatum(z) /\ z.hash = y.hash /\ z.extra = y.extra /\ z.format = y.format
          /\ z.first = y.first /\ z.last = y.last /\ z.next = new
      BY <3>1, <3>2, NextDatum
    <3> QED BY <2>1, <2>3, <3>3
  <2>4. CASE q # parent /\ ~ (d[parent].first # Invalid /\ q = d[parent].last)
    <3>1. q \in DOMAIN w /\ w[q] = d[q] /\ w[parent] = d[parent]
      BY <1>2
    <3>2. e[q] = d[q]
      BY <1>3, <2>4, <3>1, Zenon
    <3> QED BY <2>4, <3>2
  <2> QED BY <2>2, <2>3, <2>4
<1> QED BY <1>4, <1>5, <1>6, Zenon DEF Joined

LEMMA JoinTree ==
    ASSUME NEW d, NEW offsets, IsTree(d, offsets), NEW parent \in DOMAIN d,
           NEW new, new \notin DOMAIN d, new # Invalid, new # Root, \A q \in DOMAIN d : d[q].last # new,
           NEW x, x.first = Invalid, x.last = Invalid, x.next = Invalid,
           d[parent].first # Invalid => d[parent].last \in DOMAIN d,
           NEW format, NEW more, offsets \subseteq more,
           format = "OBJECT" => x.hash \in more /\ d[parent].format = "OBJECT",
           NEW e, Joined(e, d, new, x, parent, format)
    PROVE  IsTree(e, more)
<1>1. PICK par : /\ Kin(d, par) /\ Titled(d, par, offsets)
                 /\ \A c \in DOMAIN d : par[c] \in DOMAIN d \cup {Invalid}
  BY ParentsExist
<1>2. PICK kin : kin = [c \in DOMAIN d \cup {new} |-> IF c = new THEN parent ELSE par[c]]
  OBVIOUS
<1>3. kin[new] = parent /\ \A c \in DOMAIN d : kin[c] = par[c] /\ kin[c] # new
  BY <1>1, <1>2
<1>4. /\ DOMAIN e = DOMAIN d \cup {new} /\ e[new] = x
      /\ \A q \in DOMAIN d :
           /\ e[q].hash = d[q].hash
           /\ e[q].format = IF q = parent THEN format ELSE d[q].format
           /\ e[q].first = d[q].first \/ (q = parent /\ e[q].first = new)
           /\ e[q].last = IF q = parent THEN new ELSE d[q].last
           /\ \/ e[q].next = d[q].next
              \/ d[parent].first # Invalid /\ q = d[parent].last /\ e[q].next = new
  BY DEF Joined
<1>5. d[parent].first # Invalid => d[parent].last # Root /\ par[d[parent].last] = parent
  BY <1>1 DEF Kin
<1>6. \A q \in DOMAIN e :
           /\ e[q].first # Invalid => e[q].first \in DOMAIN e \ {Root} /\ kin[e[q].first] = q
           /\ e[q].last \in DOMAIN e => e[q].last # Root /\ kin[e[q].last] = q
  BY <1>1, <1>3, <1>4 DEF Kin
<1>7. ASSUME NEW q \in DOMAIN e \ {Root}, e[q].next # Invalid
      PROVE  e[q].next \in DOMAIN e \ {Root} /\ kin[e[q].next] = kin[q]
  <2>1. CASE q = new
    BY <1>4, <1>7, <2>1
  <2>2. CASE q \in DOMAIN d /\ e[q].next = d[q].next
    <3>1. d[q].next \in DOMAIN d \ {Root} /\ par[d[q].next] = par[q]
      BY <1>1, <1>7, <2>2 DEF Kin
    <3> QED BY <1>3, <1>4, <2>2, <3>1
  <2>3. CASE q \in DOMAIN d /\ d[parent].first # Invalid /\ q = d[parent].last /\ e[q].next = new
    BY <1>3, <1>4, <1>5, <2>3
  <2> QED BY <1>4, <2>1, <2>2, <2>3
<1>8. Root \in DOMAIN e /\ e[Root].next = Invalid /\ Invalid \notin DOMAIN e
  BY <1>1, <1>4, <1>5 DEF Kin
<1>9. Kin(e, kin)
  BY <1>6, <1>7, <1>8 DEF Kin
<1>10. Titled(e, kin, more)
  BY <1>1, <1>3, <1>4 DEF Titled
<1> QED BY <1>9, <1>10 DEF IsTree

LEMMA RemoveTree ==
    ASSUME NEW offsets, IsTree(data, offsets), \A q \in DOMAIN data : IsDatum(data[q]),
           NEW parent \in DOMAIN data, NEW name, Find(parent, name) # Invalid,
           NEW e, e = Unlinked(parent, Find(parent, name))
    PROVE  /\ IsTree(e, offsets) /\ DOMAIN e = DOMAIN data
           /\ \A q \in DOMAIN data :
                  /\ IsDatum(e[q]) /\ e[q].extra = data[q].extra /\ e[q].format = data[q].format
                  /\ e[q].last \in {data[q].last, Invalid} \cup (DOMAIN data \ {Root})
<1>1. PICK par : Kin(data, par) /\ Titled(data, par, offsets)
  BY DEF IsTree
<1> DEFINE chain == Chain(data, parent)
           id == Find(parent, name)
           k == CHOOSE i \in DOMAIN chain : chain[i] = id
           previous == IF k = 1 THEN Invalid ELSE chain[k - 1]
           next == data[id].next
<1>2. e = [q \in DOMAIN data |->
            IF q = parent
            THEN [data[q] EXCEPT !.first = IF k = 1 THEN next ELSE @,
                                 !.last = IF next = Invalid THEN next ELSE previous]
            ELSE IF q = previous THEN [data[q] EXCEPT !.next = next] ELSE data[q]]
  BY Zenon DEF Unlinked
<1> HIDE DEF k, previous, next, id, chain
<1>3. /\ DOMAIN chain \subseteq 1 .. MaxNodes + 1
      /\ \A i \in DOMAIN chain : /\ chain[i] \in DOMAIN data \ {Root} /\ par[chain[i]] = parent
                                 /\ i # 1 => i - 1 \in DOMAIN chain
  BY <1>1, ChainIs DEF chain
<1>4. \E i \in DOMAIN chain : chain[i] = id
  <2>1. PICK hits : hits = {i \in DOMAIN chain : data[chain[i]].hash = name}
    OBVIOUS
  <2>2. id = IF hits = {} THEN Invalid ELSE chain[Min(hits)]
    BY <2>1, Zenon DEF Find, id, chain
  <2>3. MaxNodes + 1 \in Nat /\ hits \subseteq 0 .. MaxNodes + 1 /\ hits \subseteq DOMAIN chain
    BY <1>3, <2>1, DictionaryOK
  <2>4. hits # {}
    BY <2>2 DEF id
  <2>5. Min(hits) \in hits
    BY <2>3, <2>4, MinIn
  <2> QED BY <2>2, <2>3, <2>4, <2>5
<1>6. k \in DOMAIN chain /\ chain[k] = id
  BY <1>4 DEF k
<1>7. previous = (IF k = 1 THEN Invalid ELSE chain[k - 1]) /\ next = data[id].next
  BY DEF previous, next
<1>8. e = [q \in DOMAIN data |->
            IF q = parent
            THEN [data[q] EXCEPT !.first = IF k = 1 THEN next ELSE data[q].first,
                                 !.last = IF next = Invalid THEN next ELSE previous]
            ELSE IF q = previous THEN [data[q] EXCEPT !.next = next] ELSE data[q]]
  BY <1>2, Zenon
<1>9. previous = Invalid \/ (previous \in DOMAIN data \ {Root} /\ par[previous] = parent)
  BY <1>3, <1>6, <1>7
<1>10. next = Invalid \/ (next \in DOMAIN data \ {Root} /\ par[next] = parent)
  BY <1>1, <1>3, <1>6, <1>7 DEF Kin
<1>11. DOMAIN e = DOMAIN data
  BY <1>8
<1>12. ASSUME NEW q \in DOMAIN data
       PROVE  /\ IsDatum(e[q]) /\ e[q].extra = data[q].extra /\ e[q].format = data[q].format
              /\ e[q].hash = data[q].hash
              /\ e[q].first = data[q].first \/ (q = parent /\ e[q].first = next)
              /\ e[q].last = data[q].last \/ (q = parent /\ e[q].last \in {Invalid, previous})
              /\ e[q].next = data[q].next \/ (q = previous /\ e[q].next = next)
  <2>1. PICK y, z : y = data[q] /\ z = e[q]
    OBVIOUS
  <2>2. IsDatum(y)
    BY <2>1
  <2>3. CASE q = parent
    <3>1. PICK a, b : /\ a = (IF k = 1 THEN next ELSE y.first)
                      /\ b = (IF next = Invalid THEN next ELSE previous)
      OBVIOUS
    <3>2. e[q] = [data[q] EXCEPT !.first = IF k = 1 THEN next ELSE data[q].first,
                                 !.last = IF next = Invalid THEN next ELSE previous]
      BY <1>8, <2>3, Zenon
    <3>3. z = [y EXCEPT !.first = a, !.last = b]
      BY <2>1, <3>1, <3>2, Zenon
    <3>4. /\ IsDatum(z) /\ z.hash = y.hash /\ z.extra = y.extra /\ z.format = y.format
          /\ z.first = a /\ z.last = b /\ z.next = y.next
      BY <2>2, <3>3 DEF IsDatum
    <3> QED BY <2>1, <2>3, <3>1, <3>4
  <2>4. CASE q # parent /\ q = previous
    <3>1. e[q] = [data[q] EXCEPT !.next = next]
      BY <1>8, <2>4, Zenon
    <3>2. z = [y EXCEPT !.next = next]
      BY <2>1, <3>1
    <3>3. /\ IsDatum(z) /\ z.hash = y.hash /\ z.extra = y.extra /\ z.format = y.format
          /\ z.first = y.first /\ z.last = y.last /\ z.next = next
      BY <2>2, <3>2, NextDatum
    <3> QED BY <2>1, <2>4, <3>3
  <2>5. CASE q # parent /\ q # previous
    <3>1. e[q] = data[q]
      BY <1>8, <2>5
    <3> QED BY <2>2, <2>1, <3>1
  <2> QED BY <2>3, <2>4, <2>5
<1>13. Kin(e, par) /\ Titled(e, par, offsets)
  <2>1. \A q \in DOMAIN data :
               /\ e[q].format = "OBJECT" => data[q].format = "OBJECT"
               /\ e[q].hash = data[q].hash
               /\ \/ e[q].first \in {data[q].first, Invalid}
                  \/ e[q].first \in DOMAIN data \ {Root} /\ par[e[q].first] = q
               /\ \/ e[q].last \in {data[q].last, Invalid}
                  \/ e[q].last \in DOMAIN data \ {Root} /\ par[e[q].last] = q
               /\ \/ e[q].next = data[q].next
                  \/ q # Root /\ e[q].next = Invalid
                  \/ q # Root /\ e[q].next \in DOMAIN data \ {Root} /\ par[e[q].next] = par[q]
    BY <1>1, <1>9, <1>10, <1>12 DEF Kin
  <2> QED BY <1>1, <1>11, <2>1, RelinkedKin
<1>14. \A q \in DOMAIN data : e[q].last \in {data[q].last, Invalid} \cup (DOMAIN data \ {Root})
  BY <1>9, <1>12
<1> QED BY <1>11, <1>12, <1>13, <1>14 DEF IsTree

-----------------------------------------------------------------------------
(* Data lie where nothing else does *)

LEMMA EndIs ==
    ASSUME NEW m, Shaped(m), NEW q \in DOMAIN m.data \ {Root}
    PROVE  /\ Addr(q) \in Nat /\ End(m, q) \in Nat /\ Addr(q) + 2 <= End(m, q)
           /\ End(m, q) = Addr(q) + Size(m.data[q]) /\ Size(m.data[q]) \in Nat
           /\ q \in Nat \X Nat /\ q[1] < m.pages
<1>1. q \in Spots(m.pages) /\ m.pages \in Nat /\ IsDatum(m.data[q])
  BY DEF Shaped
<1>2. q \in Nat \X Nat /\ q[1] < m.pages
  BY <1>1, AddrIs
<1>3. Addr(q) \in Nat
  BY <1>2, AddrIs
<1>4. Size(m.data[q]) \in Nat /\ Size(m.data[q]) >= 2
  BY <1>1, SizeIs
<1>5. End(m, q) = Addr(q) + Size(m.data[q])
  BY DEF End
<1> QED BY <1>2, <1>3, <1>4, <1>5

\* A piece of memory stays one when pages are added.
LEMMA InsideKept ==
    ASSUME NEW m, NEW n, NEW p \in Nat \X Nat, NEW size \in Nat, size > 0, m.pages \in Nat, n.pages \in Nat,
           m.pages <= n.pages, \A i \in 1 .. m.pages : n.slots[i] = m.slots[i], Inside(m, p, size)
    PROVE  Inside(n, p, size)
<1>1. PICK last : last = (Addr(p) + size - 1) \div PageSize
  OBVIOUS
<1>2. Addr(p) \in Nat /\ Edge(p[1]) <= Addr(p) /\ p[1] \in Nat
  BY AddrIs
<1>3. Addr(p) + size - 1 \in Nat /\ Edge(p[1]) <= Addr(p) + size - 1
  <2>1. Edge(p[1]) \in Nat
    BY <1>2, EdgeIs
  <2> QED BY <1>2, <2>1
<1>4. last \in Nat /\ p[1] <= last
  BY <1>1, <1>2, <1>3, PageOf
<1>5. last < m.pages /\ \A i \in p[1] .. last : m.slots[i + 1] = m.slots[p[1] + 1]
  BY <1>1, InsideIs
<1>6. \A i \in p[1] .. last : i + 1 \in 1 .. m.pages
  BY <1>2, <1>4, <1>5
<1>7. p[1] + 1 \in 1 .. m.pages
  BY <1>2, <1>4, <1>5
<1>8. last < n.pages /\ \A i \in p[1] .. last : n.slots[i + 1] = n.slots[p[1] + 1]
  BY <1>4, <1>5, <1>6, <1>7
<1> QED BY <1>1, <1>8, InsideIs

\* Data that were where they are, with the size they had
LEMMA LaidKept ==
    ASSUME NEW m, Shaped(m), Laid(m), NEW n, n.pages = m.pages, n.slots = m.slots, n.at = m.at, n.id = m.id,
           n.offset = m.offset, DOMAIN n.data \subseteq DOMAIN m.data,
           \A q \in DOMAIN n.data :
               /\ q # Root => Size(n.data[q]) = Size(m.data[q])
               /\ n.data[q].last \in {m.data[q].last, Invalid} \cup (DOMAIN m.data \ {Root})
    PROVE  Laid(n)
<1>1. PICK at, edge : at = Addr(m.at) /\ edge = Edge(m.pages)
  OBVIOUS
<1>2. at \in Nat /\ edge \in Nat
  <2>1. m.at \in Nat \X Nat /\ m.pages \in Nat
    BY DEF Shaped
  <2> QED BY <1>1, <2>1, AddrIs, EdgeIs
<1>3. \A q \in DOMAIN m.data \ {Root} : End(m, q) <= edge /\ End(m, q) <= at
  BY <1>1 DEF Laid
<1>4. \A q \in DOMAIN n.data \ {Root} : End(n, q) = End(m, q) /\ q \in DOMAIN m.data \ {Root}
  BY DEF End
<1>5. \A a \in Nat : Marked(m, a) => Marked(n, a)
  BY <1>1, <1>4 DEF Marked
<1>6. ASSUME NEW q \in DOMAIN n.data, n.data[q].last # Invalid PROVE Marked(n, Addr(n.data[q].last))
  <2>1. CASE n.data[q].last = m.data[q].last
    <3>1. Marked(m, Addr(m.data[q].last))
      BY <1>6, <2>1 DEF Laid
    <3>2. m.data[q].last \in Spots(MaxPages)
      BY <1>6, <2>1 DEF Shaped
    <3>3. Addr(m.data[q].last) \in Nat
      BY <3>2, AddrIs
    <3> QED BY <1>5, <2>1, <3>1, <3>3
  <2>2. CASE n.data[q].last \in DOMAIN m.data \ {Root}
    <3>1. PICK l : l = n.data[q].last
      OBVIOUS
    <3>2. Addr(l) \in Nat /\ Addr(l) < End(m, l) /\ End(m, l) \in Nat
      BY <2>2, <3>1, EndIs
    <3>3. Addr(l) < at /\ Addr(l) < edge
      BY <1>2, <1>3, <2>2, <3>1, <3>2
    <3>4. ASSUME NEW r \in DOMAIN n.data \ {Root} PROVE Addr(l) <= Addr(r) \/ End(n, r) <= Addr(l)
      <4>1. r \in DOMAIN m.data \ {Root} /\ End(n, r) = End(m, r) /\ Addr(r) \in Nat
        BY <1>4, EndIs
      <4>2. CASE r = l
        BY <3>2, <4>2
      <4>3. CASE r # l
        <5>1. End(m, r) <= Addr(l) \/ End(m, l) <= Addr(r)
          BY <2>2, <3>1, <4>1, <4>3 DEF Laid
        <5> QED BY <3>2, <4>1, <5>1
      <4> QED BY <4>2, <4>3
    <3> QED BY <1>1, <3>1, <3>3, <3>4 DEF Marked
  <2> QED BY <1>6, <2>1, <2>2
<1>7. n.offset < PageSize => n.id = n.at /\ n.at[2] = n.offset /\ n.at[1] < n.pages
  BY DEF Laid
<1>8. \A p \in DOMAIN n.data \ {Root} : End(n, p) <= Edge(n.pages) /\ End(n, p) <= Addr(n.at)
  BY <1>1, <1>3, <1>4
<1>9. \A p, q \in DOMAIN n.data \ {Root} : p # q => End(n, p) <= Addr(q) \/ End(n, q) <= Addr(p)
  BY <1>4 DEF Laid
<1>10. ASSUME Whole, NEW p \in DOMAIN n.data \ {Root} PROVE Inside(n, p, Size(n.data[p]))
  <2>1. Inside(m, p, Size(m.data[p])) /\ Size(n.data[p]) = Size(m.data[p]) /\ p \in DOMAIN m.data \ {Root}
    BY <1>10 DEF Laid
  <2>2. Size(m.data[p]) \in Nat /\ Size(m.data[p]) > 0 /\ p \in Nat \X Nat /\ m.pages \in Nat
    <3>1. m.pages \in Nat /\ IsDatum(m.data[p])
      BY <2>1 DEF Shaped
    <3>2. Size(m.data[p]) \in Nat /\ Size(m.data[p]) >= 2
      BY <3>1, SizeIs
    <3> QED BY <2>1, <3>1, <3>2, EndIs
  <2> QED BY <2>1, <2>2, InsideKept
<1> QED BY <1>6, <1>7, <1>8, <1>9, <1>10 DEF Laid

\* What AllocatedIs says of the memory n, with the place p of "size" units
Room(m, n, p, size) ==
    /\ n.pages \in Nat /\ m.pages <= n.pages /\ \A i \in 1 .. m.pages : n.slots[i] = m.slots[i]
    /\ p \in Spots(n.pages) /\ p \notin DOMAIN m.data /\ p # Root
    /\ Addr(p) + size <= Edge(n.pages)
    /\ \A a \in Nat : Marked(m, a) => a < Addr(p)
    /\ \A q \in DOMAIN m.data \ {Root} : End(m, q) <= Addr(p)
    /\ Whole => Inside(n, p, size)

\* One more datum, behind all others
LEMMA LaidMore ==
    ASSUME NEW m, Shaped(m), Laid(m), NEW n, NEW p, NEW size \in Nat, size >= 2, Room(m, n, p, size),
           n.at = <<p[1], p[2] + size>>, n.offset < PageSize => n.id = n.at /\ n.at[2] = n.offset,
           DOMAIN n.data = DOMAIN m.data \cup {p}, Size(n.data[p]) = size, n.data[p].last = Invalid,
           \A q \in DOMAIN m.data :
               /\ q # Root => Size(n.data[q]) = Size(m.data[q])
               /\ n.data[q].last \in {m.data[q].last, Invalid, p}
    PROVE  Laid(n)
<1>1. PICK a, edge, k : a = Addr(p) /\ edge = Edge(n.pages) /\ k = Edge(m.pages)
  OBVIOUS
<1>2. /\ p \in Nat \X Nat /\ p[1] \in Nat /\ p[2] \in Nat /\ p[1] < n.pages /\ a \in Nat
      /\ edge \in Nat /\ k \in Nat /\ k <= edge /\ m.pages \in Nat /\ n.pages \in Nat
  <2>1. m.pages \in Nat /\ n.pages \in Nat /\ m.pages <= n.pages /\ p \in Spots(n.pages)
    BY DEF Shaped, Room
  <2>2. p \in Nat \X Nat /\ p[1] < n.pages
    BY <2>1, AddrIs
  <2>3. a \in Nat
    BY <1>1, <2>2, AddrIs
  <2> QED BY <1>1, <2>1, <2>2, <2>3, EdgeIs
<1>3. n.at[1] = p[1] /\ Addr(n.at) = a + size
  <2>1. n.at[1] = p[1] /\ n.at[2] = p[2] + size
    OBVIOUS
  <2>2. Edge(p[1]) \in Nat
    BY <1>2, EdgeIs
  <2> QED BY <1>1, <1>2, <2>1, <2>2 DEF Addr
<1>4. a + size <= edge /\ End(n, p) = a + size
  BY <1>1 DEF Room, End
<1>5. ASSUME NEW q \in DOMAIN m.data \ {Root}
      PROVE  /\ End(n, q) = End(m, q) /\ End(m, q) <= a /\ Addr(q) \in Nat /\ Addr(q) < End(m, q)
             /\ End(m, q) \in Nat /\ End(m, q) <= edge /\ q # p
  <2>1. Addr(q) \in Nat /\ Addr(q) + 2 <= End(m, q) /\ End(m, q) \in Nat
    BY EndIs
  <2>2. End(m, q) <= a /\ q # p
    BY <1>1 DEF Room
  <2>3. End(m, q) <= k
    BY <1>1 DEF Laid
  <2>4. End(n, q) = End(m, q)
    BY DEF End
  <2> QED BY <1>2, <2>1, <2>2, <2>3, <2>4
<1>6. \A q \in DOMAIN n.data \ {Root} : q = p \/ q \in DOMAIN m.data \ {Root}
  OBVIOUS
<1>7. ASSUME NEW b \in Nat, Marked(m, b) PROVE Marked(n, b)
  <2>1. b < a /\ b < k
    BY <1>1, <1>7 DEF Room, Marked
  <2>2. b < a + size /\ b < edge
    BY <1>2, <2>1
  <2>3. \A q \in DOMAIN n.data \ {Root} : b <= Addr(q) \/ End(n, q) <= b
    BY <1>1, <1>2, <1>5, <1>6, <1>7, <2>1 DEF Marked
  <2> QED BY <1>1, <1>3, <2>2, <2>3 DEF Marked
<1>8. Marked(n, a)
  <2>1. a < a + size /\ a < edge
    BY <1>2, <1>4
  <2>2. \A q \in DOMAIN n.data \ {Root} : a <= Addr(q) \/ End(n, q) <= a
    BY <1>1, <1>2, <1>5, <1>6
  <2> QED BY <1>1, <1>3, <2>1, <2>2 DEF Marked
<1>9. ASSUME NEW q \in DOMAIN n.data, n.data[q].last # Invalid PROVE Marked(n, Addr(n.data[q].last))
  <2>1. CASE n.data[q].last = p
    BY <1>1, <1>8, <2>1
  <2>2. CASE n.data[q].last # p
    <3>1. q \in DOMAIN m.data /\ n.data[q].last = m.data[q].last
      BY <1>9, <2>2
    <3>2. Marked(m, Addr(m.data[q].last))
      BY <1>9, <3>1 DEF Laid
    <3>3. m.data[q].last \in Spots(MaxPages) /\ MaxPages \in Nat
      BY <1>9, <3>1, DictionaryOK DEF Shaped
    <3>4. Addr(m.data[q].last) \in Nat
      BY <3>3, AddrIs
    <3> QED BY <1>7, <3>1, <3>2, <3>4
  <2> QED BY <2>1, <2>2
<1>10. n.offset < PageSize => n.id = n.at /\ n.at[2] = n.offset /\ n.at[1] < n.pages
  BY <1>2, <1>3
<1>11. \A q \in DOMAIN n.data \ {Root} : End(n, q) <= edge /\ End(n, q) <= a + size
  BY <1>2, <1>4, <1>5, <1>6
<1>12. \A q, r \in DOMAIN n.data \ {Root} : q # r => End(n, q) <= Addr(r) \/ End(n, r) <= Addr(q)
  <2> SUFFICES ASSUME NEW q \in DOMAIN n.data \ {Root}, NEW r \in DOMAIN n.data \ {Root}, q # r
               PROVE  End(n, q) <= Addr(r) \/ End(n, r) <= Addr(q)
    OBVIOUS
  <2>1. CASE q = p
    BY <1>1, <1>5, <1>6, <2>1
  <2>2. CASE r = p
    BY <1>1, <1>5, <1>6, <2>2
  <2>3. CASE q # p /\ r # p
    <3>1. q \in DOMAIN m.data \ {Root} /\ r \in DOMAIN m.data \ {Root}
      BY <1>6, <2>3
    <3>2. End(m, q) <= Addr(r) \/ End(m, r) <= Addr(q)
      BY <3>1 DEF Laid
    <3> QED BY <1>5, <3>1, <3>2
  <2> QED BY <2>1, <2>2, <2>3
<1>13. ASSUME Whole, NEW q \in DOMAIN n.data \ {Root} PROVE Inside(n, q, Size(n.data[q]))
  <2>1. CASE q = p
    BY <1>13, <2>1 DEF Room
  <2>2. CASE q # p
    <3>1. q \in DOMAIN m.data \ {Root} /\ Inside(m, q, Size(m.data[q])) /\ Size(n.data[q]) = Size(m.data[q])
      BY <1>6, <1>13, <2>2 DEF Laid
    <3>2. q \in Nat \X Nat /\ Size(m.data[q]) \in Nat /\ Size(m.data[q]) > 0
      <4>1. /\ q \in Nat \X Nat /\ Size(m.data[q]) \in Nat /\ Addr(q) \in Nat
            /\ End(m, q) = Addr(q) + Size(m.data[q]) /\ Addr(q) + 2 <= End(m, q)
        BY <3>1, EndIs
      <4> QED BY <4>1
    <3>3. m.pages <= n.pages /\ \A i \in 1 .. m.pages : n.slots[i] = m.slots[i]
      BY DEF Room
    <3> QED BY <1>2, <3>1, <3>2, <3>3, InsideKept
  <2> QED BY <2>1, <2>2
<1>14. \A q \in DOMAIN n.data \ {Root} : End(n, q) <= Edge(n.pages) /\ End(n, q) <= Addr(n.at)
  BY <1>1, <1>3, <1>11
<1> QED BY <1>9, <1>10, <1>12, <1>13, <1>14 DEF Laid

\* The last datum, with another size where it is
LEMMA LaidStay ==
    ASSUME NEW m, Shaped(m), Laid(m), NEW p \in DOMAIN m.data \ {Root}, NEW size \in Nat, size >= 2,
           m.at = <<p[1], p[2] + Size(m.data[p])>>, m.offset + size <= PageSize,
           NEW n, n.pages = m.pages, n.slots = m.slots, n.at = <<p[1], p[2] + size>>,
           n.offset < PageSize => n.id = n.at /\ n.at[2] = n.offset,
           DOMAIN n.data = DOMAIN m.data, Size(n.data[p]) = size,
           \A q \in DOMAIN m.data :
               /\ q \notin {p, Root} => Size(n.data[q]) = Size(m.data[q])
               /\ n.data[q].last \in {m.data[q].last, Invalid}
    PROVE  Laid(n)
<1>1. PICK a, old, at, k : a = Addr(p) /\ old = Size(m.data[p]) /\ at = Addr(m.at) /\ k = Edge(m.pages)
  OBVIOUS
<1>2. /\ p \in Nat \X Nat /\ p[1] \in Nat /\ p[2] \in Nat /\ p[1] < m.pages /\ a \in Nat /\ old \in Nat
      /\ m.pages \in Nat /\ m.offset \in Nat /\ PageSize \in Nat
  <2>1. p \in Nat \X Nat /\ p[1] < m.pages /\ a \in Nat /\ old \in Nat
    BY <1>1, EndIs
  <2>2. m.pages \in Nat /\ m.offset \in Nat
    BY DEF Shaped
  <2> QED BY <2>1, <2>2, EdgeIs
<1>3. m.at[2] = m.offset /\ m.at[2] = p[2] + old /\ m.at[1] = p[1]
  <2>1. m.offset < PageSize
    BY <1>2
  <2>2. m.at[2] = m.offset
    BY <2>1 DEF Laid
  <2> QED BY <1>1, <2>2
<1>4. a = Edge(p[1]) + p[2] /\ at = a + old /\ Addr(n.at) = a + size /\ Edge(p[1]) \in Nat
  <2>1. Edge(p[1]) \in Nat
    BY <1>2, EdgeIs
  <2>2. n.at[1] = p[1] /\ n.at[2] = p[2] + size
    OBVIOUS
  <2>3. a = Edge(p[1]) + p[2] /\ at = Edge(p[1]) + (p[2] + old) /\ Addr(n.at) = Edge(p[1]) + (p[2] + size)
    BY <1>1, <1>3, <2>2 DEF Addr
  <2> QED BY <1>2, <2>1, <2>3
<1>5. p[2] + size <= PageSize
  BY <1>2, <1>3
<1>6. a + size <= Edge(p[1] + 1) /\ Edge(p[1] + 1) <= k /\ k \in Nat /\ Edge(p[1] + 1) \in Nat
  <2>1. Edge(p[1] + 1) = Edge(p[1]) + PageSize /\ Edge(p[1]) + PageSize <= k /\ k \in Nat
    BY <1>1, <1>2, EdgeIs
  <2> QED BY <1>2, <1>4, <1>5, <2>1
<1>7. End(n, p) = a + size /\ End(m, p) = at
  BY <1>1, <1>4 DEF End
<1>8. ASSUME NEW q \in DOMAIN m.data \ {Root, p}
      PROVE  /\ End(n, q) = End(m, q) /\ End(m, q) <= a /\ Addr(q) \in Nat /\ End(m, q) \in Nat /\ End(m, q) <= k
  <2>1. Addr(q) \in Nat /\ Addr(q) + 2 <= End(m, q) /\ End(m, q) \in Nat
    BY EndIs
  <2>2. End(m, q) <= at /\ End(m, q) <= k
    BY <1>1 DEF Laid
  <2>3. End(m, q) <= a \/ at <= Addr(q)
    BY <1>1, <1>7 DEF Laid
  <2>4. at \in Nat
    BY <1>2, <1>4
  <2>5. End(n, q) = End(m, q)
    BY DEF End
  <2> QED BY <1>2, <2>1, <2>2, <2>3, <2>4, <2>5
<1>9. ASSUME NEW b \in Nat, Marked(m, b) PROVE Marked(n, b)
  <2>1. b < at /\ b < k /\ (b <= a \/ at <= b)
    BY <1>1, <1>7, <1>9 DEF Marked
  <2>2. b <= a /\ b < a + size
    BY <1>2, <1>4, <2>1
  <2>3. \A q \in DOMAIN n.data \ {Root} : b <= Addr(q) \/ End(n, q) <= b
    <3> SUFFICES ASSUME NEW q \in DOMAIN n.data \ {Root} PROVE b <= Addr(q) \/ End(n, q) <= b
      OBVIOUS
    <3>1. CASE q = p
      BY <1>1, <2>2, <3>1
    <3>2. CASE q # p
      <4>1. b <= Addr(q) \/ End(m, q) <= b
        BY <1>9 DEF Marked
      <4> QED BY <1>8, <3>2, <4>1
    <3> QED BY <3>1, <3>2
  <2> QED BY <1>1, <1>4, <2>1, <2>2, <2>3 DEF Marked
<1>10. ASSUME NEW q \in DOMAIN n.data, n.data[q].last # Invalid PROVE Marked(n, Addr(n.data[q].last))
  <2>1. n.data[q].last = m.data[q].last
    BY <1>10
  <2>2. Marked(m, Addr(m.data[q].last))
    BY <1>10, <2>1 DEF Laid
  <2>3. m.data[q].last \in Spots(MaxPages) /\ MaxPages \in Nat
    BY <1>10, <2>1, DictionaryOK DEF Shaped
  <2>4. Addr(m.data[q].last) \in Nat
    BY <2>3, AddrIs
  <2> QED BY <1>9, <2>1, <2>2, <2>4
<1>11. n.offset < PageSize => n.id = n.at /\ n.at[2] = n.offset /\ n.at[1] < n.pages
  <2>1. n.at[1] = p[1]
    OBVIOUS
  <2> QED BY <1>2, <2>1
<1>12. \A q \in DOMAIN n.data \ {Root} : End(n, q) <= Edge(n.pages) /\ End(n, q) <= Addr(n.at)
  <2> SUFFICES ASSUME NEW q \in DOMAIN n.data \ {Root}
               PROVE  End(n, q) <= k /\ End(n, q) <= a + size
    BY <1>1, <1>4
  <2>1. CASE q = p
    BY <1>2, <1>6, <1>7, <2>1
  <2>2. CASE q # p
    BY <1>2, <1>8, <2>2
  <2> QED BY <2>1, <2>2
<1>13. \A q, r \in DOMAIN n.data \ {Root} : q # r => End(n, q) <= Addr(r) \/ End(n, r) <= Addr(q)
  <2> SUFFICES ASSUME NEW q \in DOMAIN n.data \ {Root}, NEW r \in DOMAIN n.data \ {Root}, q # r
               PROVE  End(n, q) <= Addr(r) \/ End(n, r) <= Addr(q)
    OBVIOUS
  <2>1. CASE q = p
    BY <1>1, <1>8, <2>1
  <2>2. CASE r = p
    BY <1>1, <1>8, <2>2
  <2>3. CASE q # p /\ r # p
    <3>1. End(m, q) <= Addr(r) \/ End(m, r) <= Addr(q)
      BY <2>3 DEF Laid
    <3> QED BY <1>8, <2>3, <3>1
  <2> QED BY <2>1, <2>2, <2>3
<1>14. ASSUME Whole, NEW q \in DOMAIN n.data \ {Root} PROVE Inside(n, q, Size(n.data[q]))
  <2>1. CASE q = p
    <3>1. PICK last : last = (Addr(p) + size - 1) \div PageSize
      OBVIOUS
    <3>2. /\ Addr(p) + size - 1 \in Nat /\ Edge(p[1]) <= Addr(p) + size - 1
          /\ Addr(p) + size - 1 < Edge(p[1] + 1)
      BY <1>1, <1>2, <1>4, <1>6
    <3>3. last \in Nat /\ p[1] <= last /\ last < p[1] + 1
      <4>1. p[1] + 1 \in Nat
        BY <1>2
      <4> QED BY <1>2, <3>1, <3>2, <4>1, PageOf
    <3>4. last = p[1] /\ \A i \in p[1] .. last : i = p[1]
      BY <1>2, <3>3
    <3>5. last < n.pages /\ \A i \in p[1] .. last : n.slots[i + 1] = n.slots[p[1] + 1]
      BY <1>2, <3>4
    <3>6. Inside(n, p, size)
      BY <3>1, <3>5, InsideIs
    <3> QED BY <2>1, <3>6
  <2>2. CASE q # p
    <3>1. Inside(m, q, Size(m.data[q])) /\ Size(n.data[q]) = Size(m.data[q])
      BY <1>14, <2>2 DEF Laid
    <3>2. q \in Nat \X Nat /\ Size(m.data[q]) \in Nat /\ Size(m.data[q]) > 0
      <4>1. /\ q \in Nat \X Nat /\ Size(m.data[q]) \in Nat /\ Addr(q) \in Nat
            /\ End(m, q) = Addr(q) + Size(m.data[q]) /\ Addr(q) + 2 <= End(m, q)
        BY EndIs
      <4> QED BY <4>1
    <3> QED BY <1>2, <3>1, <3>2, InsideKept
  <2> QED BY <2>1, <2>2
<1> QED BY <1>10, <1>11, <1>12, <1>13, <1>14 DEF Laid

-----------------------------------------------------------------------------
(* Calls keep the memory good *)

LEMMA DatumIs ==
    ASSUME NEW format \in Formats, NEW extra \in Extras, NEW hash \in Names \cup {NoName}, NEW next,
           NEW x, x = Datum(format, extra, hash, next)
    PROVE  /\ IsDatum(x) /\ x.format = format /\ x.extra = extra /\ x.hash = hash /\ x.next = next
           /\ x.first = Invalid /\ x.last = Invalid /\ Size(x) = Base(format) + extra
BY DEF Datum, IsDatum, Size

\* What SameGood, StayGood and MoveGood say
Kept(m, n, offsets, place) ==
    /\ Good(n, offsets) /\ place \in DOMAIN n.data /\ m.pages <= n.pages
    /\ Fine(n) => Fine(m)

LEMMA SameGood ==
    ASSUME NEW offsets, NEW m, Good(m, offsets), NEW p \in DOMAIN m.data,
           NEW format \in Formats, NEW extra \in Extras, Size(m.data[p]) = Base(format) + extra,
           p = Root => format \in Containers /\ extra = 0,
           NEW n, n = Placed(Same(m, p), p, format, extra)
    PROVE  Kept(m, n, offsets, p)
<1>1. Shaped(m) /\ Laid(m) /\ IsTree(m.data, offsets)
  BY DEF Good
<1>2. PICK x, d : x = Datum(format, extra, m.data[p].hash, m.data[p].next) /\ d = Store(m.data, p, x)
  OBVIOUS
<1>3. n = [m EXCEPT !.data = d]
  BY <1>2 DEF Placed, Same
<1>4. /\ n.pages = m.pages /\ n.slots = m.slots /\ n.data = d /\ n.at = m.at /\ n.id = m.id
      /\ n.offset = m.offset /\ n.legal = m.legal /\ IsMemory(n)
  BY <1>1, <1>3 DEF Shaped, IsMemory
<1>5. m.data[p].hash \in Names \cup {NoName}
  BY <1>1 DEF Shaped, IsDatum
<1>6. /\ IsDatum(x) /\ x.format = format /\ x.extra = extra /\ x.hash = m.data[p].hash /\ x.next = m.data[p].next
      /\ x.first = Invalid /\ x.last = Invalid /\ Size(x) = Size(m.data[p])
  BY <1>2, <1>5, DatumIs
<1>7. DOMAIN d = DOMAIN m.data /\ \A q \in DOMAIN d : d[q] = IF q = p THEN x ELSE m.data[q]
  BY <1>2 DEF Store
<1>8. Shaped(n)
  BY <1>1, <1>4, <1>6, <1>7 DEF Shaped
<1>9. Laid(n)
  <2>1. \A q \in DOMAIN n.data :
               /\ q # Root => Size(n.data[q]) = Size(m.data[q])
               /\ n.data[q].last \in {m.data[q].last, Invalid} \cup (DOMAIN m.data \ {Root})
    BY <1>4, <1>6, <1>7
  <2> QED BY <1>1, <1>4, <1>7, <2>1, LaidKept
<1>10. IsTree(n.data, offsets)
  BY <1>1, <1>2, <1>4, <1>6, SetTree
<1>11. m.pages <= n.pages /\ p \in DOMAIN n.data
  BY <1>1, <1>4, <1>7 DEF Shaped
<1>12. Fine(n) => Fine(m)
  BY <1>4, Zenon DEF Fine
<1> QED BY <1>8, <1>9, <1>10, <1>11, <1>12 DEF Kept, Good

LEMMA SpotsGrow ==
    ASSUME NEW k \in Nat, NEW n \in Nat, k <= n
    PROVE  Spots(k) \subseteq Spots(n)
BY DEF Spots

LEMMA RoomIs ==
    ASSUME NEW m, Shaped(m), Laid(m), NEW size \in Nat, size > 0, NEW n, n = Allocated(m, size).memory,
           NEW p, p = Allocated(m, size).place, Fine(n), n.pages <= MaxPages
    PROVE  /\ \A w : w.pages = n.pages /\ w.slots = n.slots => Room(m, w, p, size)
           /\ \A q \in DOMAIN m.data : m.data[q].last # p
<1>1. /\ n.pages \in Nat /\ m.pages <= n.pages
      /\ \A i \in 1 .. m.pages : n.slots[i] = m.slots[i]
      /\ p \in Spots(n.pages) /\ p \notin DOMAIN m.data /\ p # Root /\ p # Invalid
      /\ Addr(p) + size <= Edge(n.pages)
      /\ \A a \in Nat : Marked(m, a) => a < Addr(p)
      /\ \A q \in DOMAIN m.data \ {Root} : End(m, q) <= Addr(p)
      /\ Whole => Inside(n, p, size)
  <2>1. Taken(m, n, p, size)
    BY AllocatedIs
  <2> QED BY <2>1 DEF Taken
<1>2. ASSUME NEW w, w.pages = n.pages, w.slots = n.slots PROVE Room(m, w, p, size)
  <2>1. Whole => Inside(w, p, size)
    BY <1>1, <1>2, Zenon DEF Inside
  <2> QED BY <1>1, <1>2, <2>1 DEF Room
<1>3. ASSUME NEW q \in DOMAIN m.data, m.data[q].last = p PROVE FALSE
  <2>1. m.data[q].last # Invalid
    BY <1>1, <1>3
  <2>2. Marked(m, Addr(p))
    BY <1>3, <2>1 DEF Laid
  <2>3. Addr(p) \in Nat
    BY <1>1, AddrIs
  <2> QED BY <1>1, <2>2, <2>3
<1> QED BY <1>2, <1>3

\* Reallocated, when the datum moves
LEMMA MovedIs ==
    ASSUME NEW m, NEW p, NEW size, NEW r, r = Reallocated(m, p, size), m.offset + size > PageSize,
           NEW a, a = Allocated(m, size).memory, IsMemory(a), a.legal \in BOOLEAN
    PROVE  /\ r.place = Allocated(m, size).place /\ IsMemory(r.memory) /\ r.memory.legal \in BOOLEAN
           /\ r.memory.pages = a.pages /\ r.memory.slots = a.slots /\ r.memory.at = a.at
           /\ r.memory.data = Store(Patched(a, p), Allocated(m, size).place, m.data[p])
           /\ r.memory.offset = PageSize /\ r.memory.id = <<a.id[1], PageSize % Word>>
           /\ Fine(r.memory) => Fine(a) /\ m.at = <<p[1], p[2] + Size(m.data[p])>>
<1> DEFINE last == m.at = <<p[1], p[2] + Size(m.data[p])>>
           moves == m.offset + size > PageSize
           legal == last /\ \/ ~moves
                            \/ "nested move" \notin Avoided
                            \/ p \in ToSet(Chain(m.data, Root))
           new == Allocated(m, size)
<1>1. r = [memory |-> [new.memory EXCEPT
                         !.data = Store(Patched(new.memory, p), new.place, m.data[p]),
                         !.offset = PageSize, !.id = <<@[1], PageSize % Word>>,
                         !.legal = @ /\ legal],
           place |-> new.place]
  BY Zenon DEF Reallocated
<1>2. legal => last
  BY Zenon
<1>3. legal \in BOOLEAN
  BY Zenon
<1> HIDE DEF legal
<1>4. PICK d, id, fine, place : /\ d = Store(Patched(a, p), place, m.data[p]) /\ id = <<a.id[1], PageSize % Word>>
                                /\ fine = (a.legal /\ legal) /\ place = new.place
  OBVIOUS
<1>5. r = [memory |-> [a EXCEPT !.data = d, !.offset = PageSize, !.id = id, !.legal = fine], place |-> place]
  BY <1>1, <1>4, Zenon
<1>6. PICK w : w = [a EXCEPT !.data = d, !.offset = PageSize, !.id = id, !.legal = fine]
  OBVIOUS
<1>7. r.memory = w /\ r.place = place
  BY <1>5, <1>6
<1>8. /\ IsMemory(w) /\ w.pages = a.pages /\ w.slots = a.slots /\ w.at = a.at /\ w.data = d
      /\ w.offset = PageSize /\ w.id = id /\ w.legal = fine
  BY <1>6 DEF IsMemory
<1>9. fine \in BOOLEAN
  BY <1>4, Zenon
<1>10. Fine(w) => Fine(a) /\ last
  BY <1>2, <1>4, <1>8, Zenon DEF Fine
<1>11. w.legal \in BOOLEAN
  BY <1>8, <1>9, Zenon
<1> QED BY <1>4, <1>7, <1>8, <1>10, <1>11, Zenon

\* Reallocated, when the datum stays
LEMMA StayedIs ==
    ASSUME NEW m, NEW p, NEW size, NEW r, r = Reallocated(m, p, size), ~ (m.offset + size > PageSize),
           IsMemory(m), m.legal \in BOOLEAN
    PROVE  /\ r.place = p /\ IsMemory(r.memory) /\ r.memory.legal \in BOOLEAN
           /\ r.memory.pages = m.pages /\ r.memory.slots = m.slots /\ r.memory.at = <<p[1], p[2] + size>>
           /\ r.memory.data = m.data
           /\ r.memory.offset = p[2] + size /\ r.memory.id = <<m.id[1], (p[2] + size) % Word>>
           /\ Fine(r.memory) => Fine(m) /\ m.at = <<p[1], p[2] + Size(m.data[p])>>
<1> DEFINE last == m.at = <<p[1], p[2] + Size(m.data[p])>>
           moves == m.offset + size > PageSize
           legal == last /\ \/ ~moves
                            \/ "nested move" \notin Avoided
                            \/ p \in ToSet(Chain(m.data, Root))
           end == p[2] + size
<1>1. r = [memory |-> [m EXCEPT !.at = <<p[1], end>>, !.offset = end,
                                !.id = <<@[1], end % Word>>, !.legal = @ /\ legal],
           place |-> p]
  BY Zenon DEF Reallocated
<1>2. legal => last
  BY Zenon
<1>3. legal \in BOOLEAN
  BY Zenon
<1> HIDE DEF legal
<1>4. PICK at, id, fine : /\ at = <<p[1], end>> /\ id = <<m.id[1], end % Word>>
                          /\ fine = (m.legal /\ legal)
  OBVIOUS
<1>5. r = [memory |-> [m EXCEPT !.at = at, !.offset = end, !.id = id, !.legal = fine], place |-> p]
  BY <1>1, <1>4, Zenon
<1>6. PICK w : w = [m EXCEPT !.at = at, !.offset = end, !.id = id, !.legal = fine]
  OBVIOUS
<1>7. r.memory = w /\ r.place = p
  BY <1>5, <1>6
<1>8. /\ IsMemory(w) /\ w.pages = m.pages /\ w.slots = m.slots /\ w.at = at /\ w.data = m.data
      /\ w.offset = end /\ w.id = id /\ w.legal = fine
  BY <1>6 DEF IsMemory
<1>9. fine \in BOOLEAN
  BY <1>4, Zenon
<1>10. Fine(w) => Fine(m) /\ last
  BY <1>2, <1>4, <1>8, Zenon DEF Fine
<1>11. w.legal \in BOOLEAN
  BY <1>8, <1>9, Zenon
<1> QED BY <1>4, <1>7, <1>8, <1>10, <1>11, Zenon

LEMMA MoveGood ==
    ASSUME NEW offsets, NEW m, Good(m, offsets), NEW p \in DOMAIN m.data \ {Root},
           NEW format \in Formats, NEW extra \in Extras, NEW size, size = Base(format) + extra,
           m.offset + size > PageSize, NEW r, r = Reallocated(m, p, size),
           NEW n, n = Placed(r, p, format, extra), Fine(n), n.pages <= MaxPages
    PROVE  Kept(m, n, offsets, r.place) /\ r.place # Root
<1>1. Shaped(m) /\ Laid(m) /\ IsTree(m.data, offsets)
  BY DEF Good
<1>2. size \in Nat /\ size >= 2 /\ size > 0 /\ m.offset \in Nat /\ PageSize \in Nat /\ m.pages \in Nat
      /\ MaxPages \in Nat /\ Word \in Nat /\ Word > 0
  <2>1. Base(format) \in Nat /\ Base(format) >= 2 /\ extra \in Nat
    BY SizeIs, LongestIs
  <2>2. m.offset \in Nat /\ m.pages \in Nat
    BY <1>1 DEF Shaped
  <2> QED BY <2>1, <2>2, AddrIs
<1>3. PICK a, new, w : a = Allocated(m, size).memory /\ new = Allocated(m, size).place /\ w = r.memory
  OBVIOUS
<1>4. IsMemory(a) /\ a.legal \in BOOLEAN
  BY <1>1, <1>2, <1>3, AllocatedShape
<1>5. /\ r.place = new /\ IsMemory(w) /\ w.legal \in BOOLEAN
      /\ w.pages = a.pages /\ w.slots = a.slots /\ w.at = a.at
      /\ w.data = Store(Patched(a, p), new, m.data[p])
      /\ w.offset = PageSize /\ w.id = <<a.id[1], PageSize % Word>>
      /\ Fine(w) => Fine(a)
  BY <1>3, <1>4, MovedIs
<1>6. PICK x, d : x = Datum(format, extra, w.data[p].hash, w.data[p].next) /\ d = Store(w.data, new, x)
  OBVIOUS
<1>7. n = [w EXCEPT !.data = d]
  BY <1>3, <1>5, <1>6 DEF Placed
<1>8. /\ IsMemory(n) /\ n.pages = a.pages /\ n.slots = a.slots /\ n.at = a.at /\ n.data = d
      /\ n.offset = PageSize /\ n.id = <<a.id[1], PageSize % Word>> /\ n.legal = w.legal
  BY <1>5, <1>7 DEF IsMemory
<1>9. Fine(a)
  <2>1. Fine(w)
    BY <1>8, Zenon DEF Fine
  <2> QED BY <1>5, <2>1
<1>10. /\ Fine(m) /\ a.data = m.data /\ a.pages \in Nat /\ m.pages <= a.pages /\ a.pages <= MaxPages
       /\ a.slots \in Seq(Nat \ {0}) /\ a.pages <= Len(a.slots)
       /\ new \in Spots(a.pages) /\ new \notin DOMAIN m.data /\ new # Root /\ new # Invalid
       /\ a.id = new /\ a.at = <<new[1], new[2] + size>>
  <2>1. a.pages <= MaxPages
    BY <1>8
  <2>2. size \in Nat /\ size > 0
    BY <1>2
  <2>3. Taken(m, a, new, size)
    BY <1>1, <1>3, <1>9, <2>1, <2>2, AllocatedIs
  <2> QED BY <2>1, <2>3 DEF Taken
<1>11. (\A v : v.pages = a.pages /\ v.slots = a.slots => Room(m, v, new, size))
       /\ \A q \in DOMAIN m.data : m.data[q].last # new
  <2>1. a.pages <= MaxPages
    BY <1>10
  <2> QED BY <1>1, <1>2, <1>3, <1>9, <2>1, RoomIs
<1>12. \A q \in DOMAIN m.data : IsDatum(m.data[q])
  BY <1>1 DEF Shaped
<1>13. PICK patched : patched = Patched(a, p)
  OBVIOUS
<1>14. /\ DOMAIN patched = DOMAIN m.data
       /\ \A q \in DOMAIN m.data :
              /\ IsDatum(patched[q])
              /\ patched[q].format = m.data[q].format /\ patched[q].hash = m.data[q].hash
              /\ patched[q].extra = m.data[q].extra
              /\ patched[q].last \in {m.data[q].last, new} /\ patched[q].next \in {m.data[q].next, new}
  <2>1. PICK par : Kin(m.data, par)
    BY <1>1 DEF IsTree
  <2>2. Relinked(patched, a.data, a.id, par, p)
    BY <1>10, <1>12, <1>13, <2>1, PatchedIs
  <2> QED BY <1>10, <2>2 DEF Relinked
<1>15. w.data[p] = patched[p]
  BY <1>5, <1>10, <1>13, <1>14 DEF Store
<1>16. patched[p].hash \in Names \cup {NoName}
  BY <1>14 DEF IsDatum
<1>17. /\ IsDatum(x) /\ x.format = format /\ x.extra = extra /\ x.hash = m.data[p].hash
       /\ x.next \in {m.data[p].next, new} /\ x.first = Invalid /\ x.last = Invalid /\ Size(x) = size
  <2>1. /\ IsDatum(x) /\ x.format = format /\ x.extra = extra /\ x.hash = patched[p].hash
        /\ x.next = patched[p].next /\ x.first = Invalid /\ x.last = Invalid /\ Size(x) = Base(format) + extra
    BY <1>6, <1>15, <1>16, DatumIs
  <2> QED BY <1>14, <2>1
<1>18. d = Store(patched, new, x)
  <2>1. w.data = Store(patched, new, m.data[p])
    BY <1>5, <1>13
  <2>2. DOMAIN w.data = DOMAIN patched \cup {new} /\ \A q \in DOMAIN w.data : q # new => w.data[q] = patched[q]
    BY <2>1 DEF Store
  <2> QED BY <1>6, <2>2 DEF Store
<1>19. DOMAIN d = DOMAIN m.data \cup {new} /\ d[new] = x /\ \A q \in DOMAIN m.data : d[q] = patched[q]
  BY <1>10, <1>14, <1>18 DEF Store
<1>20. IsTree(d, offsets)
  <2>1. IsTree(a.data, offsets) /\ \A q \in DOMAIN a.data : IsDatum(a.data[q])
    BY <1>1, <1>10, <1>12
  <2>2. /\ p \in DOMAIN a.data \ {Root} /\ a.id \notin DOMAIN a.data /\ a.id # Invalid /\ a.id # Root
        /\ \A q \in DOMAIN a.data : a.data[q].last # a.id
        /\ x.next \in {a.data[p].next, a.id} /\ x.hash = a.data[p].hash
    BY <1>10, <1>11, <1>17
  <2>3. IsTree(Store(Patched(a, p), a.id, x), offsets)
    BY <1>17, <2>1, <2>2, MoveTree
  <2> QED BY <1>10, <1>13, <1>18, <2>3
<1>21. Laid(n)
  <2>1. Room(m, n, new, size)
    BY <1>8, <1>11
  <2>2. n.offset < PageSize => n.id = n.at /\ n.at[2] = n.offset
    BY <1>2, <1>8
  <2>3. DOMAIN n.data = DOMAIN m.data \cup {new} /\ Size(n.data[new]) = size /\ n.data[new].last = Invalid
    BY <1>8, <1>17, <1>19
  <2>4. \A q \in DOMAIN m.data :
               /\ q # Root => Size(n.data[q]) = Size(m.data[q])
               /\ n.data[q].last \in {m.data[q].last, Invalid, new}
    BY <1>8, <1>14, <1>19 DEF Size
  <2>5. n.at = <<new[1], new[2] + size>>
    BY <1>8, <1>10
  <2> QED BY <1>1, <1>2, <2>1, <2>2, <2>3, <2>4, <2>5, LaidMore
<1>22. Shaped(n)
  <2>1. new \in Nat \X Nat /\ new[1] \in Nat /\ new[2] \in Nat /\ new[1] < a.pages
    BY <1>10, AddrIs
  <2>2. n.at \in Nat \X Nat
    <3>1. new[2] + size \in Nat
      BY <1>2, <2>1
    <3>2. n.at = <<new[1], new[2] + size>>
      BY <1>8, <1>10
    <3> QED BY <2>1, <3>1, <3>2
  <2>3. n.id \in Spots(MaxPages)
    <3>1. n.id = <<new[1], PageSize % Word>> /\ PageSize % Word \in 0 .. Word - 1
      BY <1>2, <1>8, <1>10
    <3>2. new[1] \in 0 .. MaxPages - 1
      BY <1>2, <1>10, <2>1
    <3>3. <<new[1], PageSize % Word>> \in (0 .. MaxPages - 1) \X (0 .. Word - 1)
      BY <3>1, <3>2
    <3> QED BY <3>1, <3>3 DEF Spots
  <2>4. Spots(m.pages) \subseteq Spots(n.pages) /\ new \in Spots(n.pages) /\ new \in Spots(MaxPages)
    <3>1. Spots(m.pages) \subseteq Spots(a.pages) /\ Spots(a.pages) \subseteq Spots(MaxPages)
      BY <1>2, <1>10, SpotsGrow
    <3> QED BY <1>8, <1>10, <3>1
  <2>5. Root \in DOMAIN n.data /\ DOMAIN n.data \ {Root} \subseteq Spots(n.pages)
    BY <1>1, <1>8, <1>19, <2>4 DEF Shaped
  <2>6. \A q \in DOMAIN n.data : IsDatum(n.data[q]) /\ n.data[q].last \in Spots(MaxPages) \cup {Invalid}
    <3> SUFFICES ASSUME NEW q \in DOMAIN n.data
                 PROVE  IsDatum(n.data[q]) /\ n.data[q].last \in Spots(MaxPages) \cup {Invalid}
      OBVIOUS
    <3>1. CASE q = new
      BY <1>8, <1>17, <1>19, <3>1
    <3>2. CASE q # new
      <4>1. q \in DOMAIN m.data /\ n.data[q] = patched[q]
        BY <1>8, <1>19, <3>2
      <4>2. m.data[q].last \in Spots(MaxPages) \cup {Invalid}
        BY <1>1, <4>1 DEF Shaped
      <4> QED BY <1>14, <2>4, <4>1, <4>2
    <3> QED BY <3>1, <3>2
  <2>7. n.data[Root].format \in Containers /\ n.data[Root].extra = 0
    BY <1>1, <1>8, <1>14, <1>19 DEF Shaped
  <2>8. n.pages \in Nat /\ n.slots \in Seq(Nat \ {0}) /\ n.pages <= Len(n.slots) /\ n.offset \in Nat
    BY <1>2, <1>8, <1>10
  <2>9. IsMemory(n) /\ n.legal \in BOOLEAN
    BY <1>5, <1>8
  <2> QED BY <2>2, <2>3, <2>5, <2>6, <2>7, <2>8, <2>9 DEF Shaped
<1>23. m.pages <= n.pages /\ new \in DOMAIN n.data
  BY <1>8, <1>10, <1>19
<1> QED BY <1>5, <1>8, <1>10, <1>20, <1>21, <1>22, <1>23 DEF Kept, Good

LEMMA ModSmall ==
    ASSUME NEW x \in Nat
    PROVE  x % Word \in 0 .. Word - 1 /\ (x < Word => x % Word = x)
<1>1. Word \in Nat /\ Word > 0
  BY AddrIs
<1> QED BY <1>1

LEMMA StayGood ==
    ASSUME NEW offsets, NEW m, Good(m, offsets), NEW p \in DOMAIN m.data \ {Root},
           NEW format \in Formats, NEW extra \in Extras, NEW size, size = Base(format) + extra,
           ~ (m.offset + size > PageSize), NEW r, r = Reallocated(m, p, size),
           NEW n, n = Placed(r, p, format, extra), Fine(n)
    PROVE  Kept(m, n, offsets, r.place) /\ r.place # Root
<1>1. Shaped(m) /\ Laid(m) /\ IsTree(m.data, offsets)
  BY DEF Good
<1>2. size \in Nat /\ size >= 2 /\ m.offset \in Nat /\ PageSize \in Nat /\ m.pages \in Nat
      /\ MaxPages \in Nat /\ Word \in Nat /\ PageSize <= Word
  <2>1. Base(format) \in Nat /\ Base(format) >= 2 /\ extra \in Nat
    BY SizeIs, LongestIs
  <2>2. m.offset \in Nat /\ m.pages \in Nat
    BY <1>1 DEF Shaped
  <2> QED BY <2>1, <2>2, AddrIs
<1>3. PICK w : w = r.memory
  OBVIOUS
<1>4. IsMemory(m) /\ m.legal \in BOOLEAN
  BY <1>1 DEF Shaped
<1>5. /\ r.place = p /\ IsMemory(w) /\ w.legal \in BOOLEAN
      /\ w.pages = m.pages /\ w.slots = m.slots /\ w.at = <<p[1], p[2] + size>> /\ w.data = m.data
      /\ w.offset = p[2] + size /\ w.id = <<m.id[1], (p[2] + size) % Word>>
      /\ Fine(w) => Fine(m) /\ m.at = <<p[1], p[2] + Size(m.data[p])>>
  BY <1>3, <1>4, StayedIs
<1>6. PICK x, d : x = Datum(format, extra, m.data[p].hash, m.data[p].next) /\ d = Store(m.data, p, x)
  OBVIOUS
<1>7. n = [w EXCEPT !.data = d]
  BY <1>3, <1>5, <1>6 DEF Placed
<1>8. /\ IsMemory(n) /\ n.pages = m.pages /\ n.slots = m.slots /\ n.at = <<p[1], p[2] + size>> /\ n.data = d
      /\ n.offset = p[2] + size /\ n.id = <<m.id[1], (p[2] + size) % Word>> /\ n.legal = w.legal
  BY <1>5, <1>7 DEF IsMemory
<1>9. Fine(m) /\ m.at = <<p[1], p[2] + Size(m.data[p])>>
  <2>1. Fine(w)
    BY <1>8, Zenon DEF Fine
  <2> QED BY <1>5, <2>1
<1>10. m.data[p].hash \in Names \cup {NoName}
  BY <1>1 DEF Shaped, IsDatum
<1>11. /\ IsDatum(x) /\ x.format = format /\ x.extra = extra /\ x.hash = m.data[p].hash /\ x.next = m.data[p].next
       /\ x.first = Invalid /\ x.last = Invalid /\ Size(x) = size
  BY <1>6, <1>10, DatumIs
<1>12. DOMAIN d = DOMAIN m.data /\ \A q \in DOMAIN d : d[q] = IF q = p THEN x ELSE m.data[q]
  BY <1>6 DEF Store
<1>13. p \in Nat \X Nat /\ p[1] \in Nat /\ p[2] \in Nat
  BY <1>1, EndIs
<1>14. m.offset < PageSize /\ m.id = m.at /\ m.id[1] = p[1]
  <2>1. m.offset < PageSize
    BY <1>2
  <2>2. m.id = m.at
    BY <1>1, <2>1 DEF Laid
  <2> QED BY <1>9, <2>1, <2>2
<1>15. n.offset < PageSize => n.id = n.at /\ n.at[2] = n.offset
  <2> SUFFICES ASSUME n.offset < PageSize PROVE n.id = n.at /\ n.at[2] = n.offset
    OBVIOUS
  <2>1. p[2] + size \in Nat /\ p[2] + size < Word
    BY <1>2, <1>8, <1>13
  <2>2. (p[2] + size) % Word = p[2] + size
    BY <2>1, ModSmall
  <2> QED BY <1>8, <1>14, <2>2
<1>16. Laid(n)
  <2>1. DOMAIN n.data = DOMAIN m.data /\ Size(n.data[p]) = size
    BY <1>8, <1>11, <1>12
  <2>2. \A q \in DOMAIN m.data :
               /\ q \notin {p, Root} => Size(n.data[q]) = Size(m.data[q])
               /\ n.data[q].last \in {m.data[q].last, Invalid}
    BY <1>8, <1>11, <1>12
  <2>3. m.offset + size <= PageSize
    BY <1>2
  <2>4. n.pages = m.pages /\ n.slots = m.slots /\ n.at = <<p[1], p[2] + size>>
    BY <1>8
  <2> QED BY <1>1, <1>2, <1>9, <1>15, <2>1, <2>2, <2>3, <2>4, LaidStay
<1>17. Shaped(n)
  <2>1. n.at \in Nat \X Nat /\ n.offset \in Nat
    <3>1. p[2] + size \in Nat
      BY <1>2, <1>13
    <3> QED BY <1>8, <1>13, <3>1
  <2>2. n.id \in Spots(MaxPages)
    <3>1. m.id \in (0 .. MaxPages - 1) \X (0 .. Word - 1)
      BY <1>1 DEF Shaped, Spots
    <3>2. m.id[1] \in 0 .. MaxPages - 1
      BY <3>1
    <3>3. (p[2] + size) % Word \in 0 .. Word - 1
      <4>1. p[2] + size \in Nat
        BY <1>2, <1>13
      <4> QED BY <4>1, ModSmall
    <3>4. <<m.id[1], (p[2] + size) % Word>> \in (0 .. MaxPages - 1) \X (0 .. Word - 1)
      BY <3>2, <3>3
    <3> QED BY <1>8, <3>4 DEF Spots
  <2>3. Root \in DOMAIN n.data /\ DOMAIN n.data \ {Root} \subseteq Spots(n.pages)
    BY <1>1, <1>8, <1>12 DEF Shaped
  <2>4. \A q \in DOMAIN n.data : IsDatum(n.data[q]) /\ n.data[q].last \in Spots(MaxPages) \cup {Invalid}
    BY <1>1, <1>8, <1>11, <1>12 DEF Shaped
  <2>5. n.data[Root].format \in Containers /\ n.data[Root].extra = 0
    BY <1>1, <1>8, <1>12 DEF Shaped
  <2>6. n.pages \in Nat /\ n.slots \in Seq(Nat \ {0}) /\ n.pages <= Len(n.slots)
    BY <1>1, <1>8 DEF Shaped
  <2>7. IsMemory(n) /\ n.legal \in BOOLEAN
    BY <1>5, <1>8
  <2> QED BY <2>1, <2>2, <2>3, <2>4, <2>5, <2>6, <2>7 DEF Shaped
<1>18. IsTree(d, offsets)
  BY <1>1, <1>6, <1>11, SetTree
<1>19. m.pages <= n.pages /\ p \in DOMAIN n.data
  BY <1>2, <1>8, <1>12
<1> QED BY <1>5, <1>8, <1>9, <1>16, <1>17, <1>18, <1>19 DEF Kept, Good

LEMMA ReallocatedGood ==
    ASSUME NEW offsets, NEW m, Good(m, offsets), NEW p \in DOMAIN m.data \ {Root},
           NEW format \in Formats, NEW extra \in Extras, NEW size, size = Base(format) + extra,
           NEW r, r = Reallocated(m, p, size),
           NEW n, n = Placed(r, p, format, extra), Fine(n), n.pages <= MaxPages
    PROVE  Kept(m, n, offsets, r.place) /\ r.place # Root
<1>1. CASE m.offset + size > PageSize
  BY <1>1, MoveGood
<1>2. CASE ~ (m.offset + size > PageSize)
  BY <1>2, StayGood
<1> QED BY <1>1, <1>2

\* The memory of AddNode, with the new datum linked
Added(a, new, hash, parent, format, offset) ==
    [a EXCEPT !.data = Linked(Store(@, new, Datum("OBJECT", 0, hash, Invalid)), parent, a.id, format),
              !.offset = offset,
              !.id = <<@[1], offset % Word>>]

\* What AddNode does, but for the names
LEMMA AddGood ==
    ASSUME NEW offsets, NEW m, Good(m, offsets), NEW parent \in DOMAIN m.data, m.data[parent].format \in Containers,
           m.data[parent].first # Invalid => m.data[parent].last \in DOMAIN m.data,
           NEW hash \in Names \cup {NoName}, NEW format \in Containers, NEW more, offsets \subseteq more,
           format = "OBJECT" => hash \in more /\ m.data[parent].format = "OBJECT",
           NEW a, a = Allocated(m, Base("OBJECT")).memory, NEW new, new = Allocated(m, Base("OBJECT")).place,
           NEW offset, offset = a.offset + Base("OBJECT"),
           NEW n, n = Added(a, new, hash, parent, format, offset),
           Fine(n), n.pages <= MaxPages
    PROVE  Good(n, more)
<1>1. Shaped(m) /\ Laid(m) /\ IsTree(m.data, offsets)
  BY DEF Good
<1>2. PICK size : size = Base("OBJECT")
  OBVIOUS
<1>3. /\ size = 4 /\ "OBJECT" \in Formats /\ 0 \in Extras /\ PageSize \in Nat /\ Word \in Nat /\ PageSize <= Word
      /\ MaxPages \in Nat /\ m.pages \in Nat /\ format \in Formats
  <2>1. size = 4 /\ "OBJECT" \in Formats /\ format \in Formats
    BY <1>2, SizeIs DEF Containers
  <2>2. 0 \in Extras
    BY LongestIs DEF Extras
  <2>3. m.pages \in Nat
    BY <1>1 DEF Shaped
  <2> QED BY <2>1, <2>2, <2>3, AddrIs
<1>4. IsMemory(a) /\ a.legal \in BOOLEAN
  BY <1>1, <1>2, <1>3, AllocatedShape
<1>5. PICK x, d, id : /\ x = Datum("OBJECT", 0, hash, Invalid)
                      /\ d = Linked(Store(a.data, new, x), parent, a.id, format)
                      /\ id = <<a.id[1], offset % Word>>
  OBVIOUS
<1>6. n = [a EXCEPT !.data = d, !.offset = offset, !.id = id]
  BY <1>5, Zenon DEF Added
<1>7. /\ IsMemory(n) /\ n.pages = a.pages /\ n.slots = a.slots /\ n.at = a.at /\ n.data = d
      /\ n.offset = offset /\ n.id = id /\ n.legal = a.legal
  BY <1>4, <1>6 DEF IsMemory
<1>8. Fine(a) /\ a.pages <= MaxPages
  <2>1. Fine(a)
    BY <1>7, Zenon DEF Fine
  <2> QED BY <1>7, <2>1
<1>9. Taken(m, a, new, size)
  BY <1>1, <1>2, <1>3, <1>8, AllocatedIs
<1>10. /\ a.data = m.data /\ a.pages \in Nat /\ m.pages <= a.pages
       /\ a.slots \in Seq(Nat \ {0}) /\ a.pages <= Len(a.slots)
       /\ new \in Spots(a.pages) /\ new \notin DOMAIN m.data /\ new # Root /\ new # Invalid
       /\ a.id = new /\ a.at = <<new[1], new[2] + size>> /\ a.offset = new[2]
  BY <1>9 DEF Taken
<1>11. (\A v : v.pages = a.pages /\ v.slots = a.slots => Room(m, v, new, size))
       /\ \A q \in DOMAIN m.data : m.data[q].last # new
  BY <1>1, <1>2, <1>3, <1>8, RoomIs
<1>12. \A q \in DOMAIN m.data : IsDatum(m.data[q])
  BY <1>1 DEF Shaped
<1>13. /\ IsDatum(x) /\ x.format = "OBJECT" /\ x.extra = 0 /\ x.hash = hash
       /\ x.next = Invalid /\ x.first = Invalid /\ x.last = Invalid /\ Size(x) = size
  <2>1. Size(x) = Base("OBJECT") + 0 /\ Base("OBJECT") = 4
    BY <1>2, <1>3, <1>5, DatumIs
  <2> QED BY <1>2, <1>3, <1>5, <2>1, DatumIs
<1>14. Joined(d, m.data, new, x, parent, format)
  <2>1. d = Linked(Store(m.data, new, x), parent, new, format)
    BY <1>5, <1>10
  <2>2. m.data[parent].last # new /\ new \notin DOMAIN m.data
    BY <1>10, <1>11
  <2> QED BY <1>3, <1>12, <2>1, <2>2, LinkedIs
<1>15. /\ DOMAIN d = DOMAIN m.data \cup {new} /\ d[new] = x
       /\ \A q \in DOMAIN m.data :
            /\ IsDatum(d[q]) /\ d[q].extra = m.data[q].extra
            /\ d[q].format = IF q = parent THEN format ELSE m.data[q].format
            /\ d[q].last = IF q = parent THEN new ELSE m.data[q].last
  BY <1>14 DEF Joined
<1>16. IsTree(d, more)
  BY <1>1, <1>10, <1>11, <1>13, <1>14, JoinTree
<1>17. \A q \in DOMAIN m.data : Size(d[q]) = Size(m.data[q])
  <2> SUFFICES ASSUME NEW q \in DOMAIN m.data PROVE Size(d[q]) = Size(m.data[q])
    OBVIOUS
  <2>1. CASE q = parent
    <3>1. Base(format) = 4 /\ Base(m.data[parent].format) = 4
      BY SizeIs
    <3> QED BY <1>15, <2>1, <3>1 DEF Size
  <2>2. CASE q # parent
    BY <1>15, <2>2 DEF Size
  <2> QED BY <2>1, <2>2
<1>18. new \in Nat \X Nat /\ new[1] \in Nat /\ new[2] \in Nat /\ new[1] < a.pages /\ offset = new[2] + size
  BY <1>2, <1>10, AddrIs
<1>19. offset \in Nat /\ offset % Word \in 0 .. Word - 1 /\ (offset < Word => offset % Word = offset)
  <2>1. offset \in Nat
    BY <1>3, <1>18
  <2> QED BY <2>1, ModSmall
<1>20. Laid(n)
  <2>1. Room(m, n, new, size)
    BY <1>7, <1>11
  <2>2. n.offset < PageSize => n.id = n.at /\ n.at[2] = n.offset
    <3> SUFFICES ASSUME n.offset < PageSize PROVE n.id = n.at /\ n.at[2] = n.offset
      OBVIOUS
    <3>1. offset % Word = offset
      BY <1>3, <1>7, <1>19
    <3>2. id = <<new[1], offset>> /\ n.at = <<new[1], offset>>
      BY <1>5, <1>7, <1>10, <1>18, <3>1
    <3>3. n.id = id /\ n.offset = offset /\ <<new[1], offset>>[2] = offset
      BY <1>7
    <3> QED BY ONLY <3>2, <3>3
  <2>3. DOMAIN n.data = DOMAIN m.data \cup {new} /\ Size(n.data[new]) = size /\ n.data[new].last = Invalid
    BY <1>7, <1>13, <1>15
  <2>4. \A q \in DOMAIN m.data :
               /\ q # Root => Size(n.data[q]) = Size(m.data[q])
               /\ n.data[q].last \in {m.data[q].last, Invalid, new}
    BY <1>7, <1>15, <1>17
  <2>5. n.at = <<new[1], new[2] + size>>
    BY <1>7, <1>10
  <2>6. size \in Nat /\ size >= 2
    BY <1>3
  <2> QED BY ONLY <1>1, <2>1, <2>2, <2>3, <2>4, <2>5, <2>6, LaidMore
<1>21. Shaped(n)
  <2>1. n.at \in Nat \X Nat /\ n.offset \in Nat
    <3>1. n.at = <<new[1], offset>>
      BY <1>7, <1>10, <1>18
    <3> QED BY <1>7, <1>18, <1>19, <3>1
  <2>2. n.id \in Spots(MaxPages)
    <3>1. new[1] \in 0 .. MaxPages - 1
      BY <1>3, <1>8, <1>10, <1>18
    <3>2. <<new[1], offset % Word>> \in (0 .. MaxPages - 1) \X (0 .. Word - 1)
      BY <1>19, <3>1
    <3> QED BY <1>5, <1>7, <1>10, <3>2 DEF Spots
  <2>3. Spots(m.pages) \subseteq Spots(n.pages) /\ new \in Spots(n.pages) /\ new \in Spots(MaxPages)
    <3>1. Spots(m.pages) \subseteq Spots(a.pages) /\ Spots(a.pages) \subseteq Spots(MaxPages)
      BY <1>3, <1>8, <1>10, SpotsGrow
    <3> QED BY <1>7, <1>10, <3>1
  <2>4. Root \in DOMAIN n.data /\ DOMAIN n.data \ {Root} \subseteq Spots(n.pages)
    <3>1. Root \in DOMAIN m.data /\ DOMAIN m.data \ {Root} \subseteq Spots(m.pages)
      BY <1>1 DEF Shaped
    <3>2. DOMAIN n.data = DOMAIN m.data \cup {new}
      BY <1>7, <1>15
    <3> QED BY <2>3, <3>1, <3>2
  <2>5. \A q \in DOMAIN n.data : IsDatum(n.data[q]) /\ n.data[q].last \in Spots(MaxPages) \cup {Invalid}
    <3> SUFFICES ASSUME NEW q \in DOMAIN n.data
                 PROVE  IsDatum(n.data[q]) /\ n.data[q].last \in Spots(MaxPages) \cup {Invalid}
      OBVIOUS
    <3>1. CASE q = new
      <4>1. n.data[q] = x
        BY <1>7, <1>15, <3>1
      <4> QED BY <1>13, <4>1
    <3>2. CASE q # new
      <4>1. q \in DOMAIN m.data /\ n.data[q] = d[q]
        BY <1>7, <1>15, <3>2
      <4>2. m.data[q].last \in Spots(MaxPages) \cup {Invalid}
        BY <1>1, <4>1 DEF Shaped
      <4> QED BY <1>15, <2>3, <4>1, <4>2
    <3> QED BY <3>1, <3>2
  <2>6. n.data[Root].format \in Containers /\ n.data[Root].extra = 0
    BY <1>1, <1>7, <1>15 DEF Shaped
  <2>7. n.pages \in Nat /\ n.slots \in Seq(Nat \ {0}) /\ n.pages <= Len(n.slots)
    BY <1>7, <1>10
  <2>8. IsMemory(n) /\ n.legal \in BOOLEAN
    BY <1>4, <1>7
  <2> QED BY <2>1, <2>2, <2>4, <2>5, <2>6, <2>7, <2>8 DEF Shaped
<1> QED BY <1>7, <1>16, <1>20, <1>21 DEF Good

LEMMA ReallocatedShape ==
    ASSUME NEW m, Shaped(m), NEW p, NEW size \in Nat, NEW w, w = Reallocated(m, p, size).memory
    PROVE  IsMemory(w) /\ w.legal \in BOOLEAN
<1>1. PICK a, r : a = Allocated(m, size).memory /\ r = Reallocated(m, p, size)
  OBVIOUS
<1>2. IsMemory(a) /\ a.legal \in BOOLEAN /\ IsMemory(m) /\ m.legal \in BOOLEAN
  BY <1>1, AllocatedShape DEF Shaped
<1>3. IsMemory(r.memory) /\ r.memory.legal \in BOOLEAN
  BY <1>1, <1>2, MovedIs, StayedIs
<1> QED BY <1>1, <1>3

\* A memory that differs in "legal" only
LEMMA LegalGood ==
    ASSUME NEW offsets, NEW m, Good(m, offsets), NEW n, IsMemory(n), n.legal \in BOOLEAN,
           n.pages = m.pages, n.slots = m.slots, n.data = m.data, n.at = m.at, n.id = m.id, n.offset = m.offset
    PROVE  Good(n, offsets)
<1>1. Shaped(m) /\ Laid(m) /\ IsTree(m.data, offsets)
  BY DEF Good
<1>2. Shaped(n)
  BY <1>1 DEF Shaped
<1>3. Laid(n)
  BY <1>1, LaidKept
<1> QED BY <1>1, <1>2, <1>3 DEF Good

\* The last step of Grown: what happens is right only if "fits".
Asserted(g, pl, fits, place, size) ==
    g = [memory |-> [pl EXCEPT !.legal = @ /\ fits], place |-> place, bytes |-> size]

LEMMA AssertedIs ==
    ASSUME NEW pl, IsMemory(pl), NEW fits, NEW place, NEW size, NEW g, Asserted(g, pl, fits, place, size)
    PROVE  /\ IsMemory(g.memory) /\ g.memory.legal \in BOOLEAN /\ g.memory.pages = pl.pages
           /\ g.memory.slots = pl.slots /\ g.memory.data = pl.data /\ g.memory.at = pl.at
           /\ g.memory.id = pl.id /\ g.memory.offset = pl.offset
           /\ g.place = place /\ g.bytes = size /\ (Fine(g.memory) => Fine(pl))
<1>1. PICK fine : fine = (pl.legal /\ fits)
  OBVIOUS
<1>2. g = [memory |-> [pl EXCEPT !.legal = fine], place |-> place, bytes |-> size]
  BY <1>1, Zenon DEF Asserted
<1>3. PICK w : w = [pl EXCEPT !.legal = fine]
  OBVIOUS
<1>4. /\ IsMemory(w) /\ w.legal = fine /\ w.pages = pl.pages /\ w.slots = pl.slots /\ w.data = pl.data
      /\ w.at = pl.at /\ w.id = pl.id /\ w.offset = pl.offset
  BY <1>3 DEF IsMemory
<1>5. g.memory = w /\ g.place = place /\ g.bytes = size
  BY <1>2, <1>3
<1>6. w.legal \in BOOLEAN
  BY <1>1, <1>4, Zenon
<1>7. Fine(w) => Fine(pl)
  BY <1>1, <1>4, Zenon DEF Fine
<1> QED BY <1>4, <1>5, <1>6, <1>7

LEMMA AssertedKept ==
    ASSUME NEW offsets, NEW m, NEW pl, NEW fits, NEW place, Kept(m, pl, offsets, place), NEW size,
           NEW g, Asserted(g, pl, fits, place, size)
    PROVE  Kept(m, g.memory, offsets, place) /\ g.place = place /\ g.bytes = size
<1>1. Good(pl, offsets) /\ place \in DOMAIN pl.data /\ m.pages <= pl.pages /\ (Fine(pl) => Fine(m))
  BY DEF Kept
<1>2. IsMemory(pl)
  BY <1>1 DEF Good, Shaped
<1>3. PICK w : w = g.memory
  OBVIOUS
<1>4. /\ IsMemory(w) /\ w.legal \in BOOLEAN /\ w.pages = pl.pages /\ w.slots = pl.slots /\ w.data = pl.data
      /\ w.at = pl.at /\ w.id = pl.id /\ w.offset = pl.offset
      /\ g.place = place /\ g.bytes = size /\ (Fine(w) => Fine(pl))
  BY <1>2, <1>3, AssertedIs
<1>5. Good(w, offsets)
  BY <1>1, <1>4, LegalGood
<1> QED BY <1>1, <1>3, <1>4, <1>5 DEF Kept

LEMMA GrownIs ==
    ASSUME NEW r, NEW length, NEW g, g = Grown(r, length), NEW m, m = r.memory, NEW p, p = r.place,
           NEW size, size = r.bytes + 1 + length, NEW new, new = BufferPlace(m, p, size),
           NEW pl, pl = Placed(new, p, "BUFFER", size)
    PROVE  \E fits : Asserted(g, pl, fits, new.place, size)
<1> DEFINE fits == \/ "long copy" \notin Avoided
                   \/ m.data[p].format # "BUFFER"
                   \/ new.place = p
                   \/ Inside(new.memory, new.place, Size(m.data[p]))
<1>1. g = [memory |-> [Placed(new, p, "BUFFER", size) EXCEPT !.legal = @ /\ fits],
           place |-> new.place, bytes |-> size]
  BY Zenon DEF Grown
<1>2. Asserted(g, pl, fits, new.place, size)
  BY <1>1, Zenon DEF Asserted
<1> HIDE DEF fits
<1> QED BY <1>2, Zenon

LEMMA GrownGood ==
    ASSUME NEW offsets, NEW r, Good(r.memory, offsets), r.place \in DOMAIN r.memory.data \ {Root}, NEW length,
           NEW size \in Extras, size = r.bytes + 1 + length, NEW g, g = Grown(r, length),
           Fine(g.memory), g.memory.pages <= MaxPages
    PROVE  Kept(r.memory, g.memory, offsets, g.place) /\ g.place # Root /\ g.bytes = size
<1>1. PICK m, p, new : m = r.memory /\ p = r.place /\ new = BufferPlace(m, p, size)
  OBVIOUS
<1>2. PICK pl : pl = Placed(new, p, "BUFFER", size)
  OBVIOUS
<1>3. PICK fits : Asserted(g, pl, fits, new.place, size)
  BY <1>1, <1>2, GrownIs
<1>4. Good(m, offsets) /\ Shaped(m) /\ p \in DOMAIN m.data \ {Root} /\ "BUFFER" \in Formats
  BY <1>1 DEF Good, Formats
<1>5. Base("BUFFER") + size \in Nat
  <2>1. Base("BUFFER") \in Nat /\ size \in Nat
    BY <1>4, SizeIs, LongestIs
  <2> QED BY <2>1
<1>6. CASE m.data[p].format = "BUFFER" /\ m.data[p].extra = size
  <2>1. new = Same(m, p)
    BY <1>1, <1>6, Zenon DEF BufferPlace
  <2>2. Size(m.data[p]) = Base("BUFFER") + size
    BY <1>6 DEF Size
  <2>3. Kept(m, pl, offsets, p)
    BY <1>2, <1>4, <2>1, <2>2, SameGood
  <2>4. new.place = p /\ p # Root
    BY <1>4, <2>1 DEF Same
  <2>5. Kept(m, g.memory, offsets, new.place) /\ g.place = new.place /\ g.bytes = size
    <3>1. Kept(m, pl, offsets, new.place)
      BY <2>3, <2>4
    <3> QED BY <1>3, <3>1, AssertedKept
  <2> QED BY <1>1, <2>4, <2>5
<1>7. CASE ~ (m.data[p].format = "BUFFER" /\ m.data[p].extra = size)
  <2>1. new = Reallocated(m, p, Base("BUFFER") + size)
    BY <1>1, <1>7, Zenon DEF BufferPlace
  <2>2. IsMemory(new.memory) /\ new.memory.legal \in BOOLEAN
    BY <1>4, <1>5, <2>1, ReallocatedShape
  <2>3. IsMemory(pl) /\ pl.legal \in BOOLEAN /\ pl.pages = new.memory.pages
    <3>1. PICK d : pl = [new.memory EXCEPT !.data = d]
      BY <1>2 DEF Placed
    <3>2. IsMemory(pl) /\ pl.legal = new.memory.legal /\ pl.pages = new.memory.pages
      BY <2>2, <3>1 DEF IsMemory
    <3> QED BY <2>2, <3>2
  <2>4. Fine(pl) /\ pl.pages <= MaxPages
    BY <1>3, <2>3, AssertedIs
  <2>5. Kept(m, pl, offsets, new.place) /\ new.place # Root
    BY <1>2, <1>4, <2>1, <2>4, ReallocatedGood
  <2>6. Kept(m, g.memory, offsets, new.place) /\ g.place = new.place /\ g.bytes = size
    BY <1>3, <2>5, AssertedKept
  <2> QED BY <1>1, <2>5, <2>6
<1> QED BY <1>6, <1>7

-----------------------------------------------------------------------------
(* Memories grow, and what has failed stays so, also between the halves of a call *)

Sound(m) == IsMemory(m) /\ m.pages \in Nat /\ m.legal \in BOOLEAN

Grows(m, n) == Sound(n) /\ m.pages <= n.pages /\ (Fine(n) => Fine(m))

LEMMA AllocatedGrows ==
    ASSUME NEW m, Sound(m), NEW size \in Nat, NEW n, n = Allocated(m, size).memory
    PROVE  Grows(m, n)
<1>1. PICK count : count = size \div PageSize + 1
  OBVIOUS
<1>2. count \in Nat
  BY <1>1, PageOf
<1>3. PICK b : b = IF PageFull(m, size) THEN AddPage(m, count) ELSE m
  OBVIOUS
<1>4. n = [b EXCEPT !.at = <<b.at[1], b.at[2] + size>>]
  BY <1>1, <1>3 DEF Allocated
<1>5. IsMemory(m) /\ m.pages \in Nat /\ m.legal \in BOOLEAN
  BY DEF Sound
<1>6. IsMemory(b) /\ b.pages \in Nat /\ m.pages <= b.pages /\ b.legal \in BOOLEAN /\ (Fine(b) => Fine(m))
  <2>1. CASE PageFull(m, size)
    <3>1. \E array, more : b = [m EXCEPT !.pages = m.pages + count, !.slots = array, !.id = <<m.pages, 0>>,
                                         !.at = <<m.pages, 0>>, !.offset = 0, !.legal = @ /\ more]
      <4>1. b = AddPage(m, count)
        BY <1>3, <2>1
      <4> QED BY <4>1, Zenon DEF AddPage
    <3>2. PICK array, more : b = [m EXCEPT !.pages = m.pages + count, !.slots = array, !.id = <<m.pages, 0>>,
                                         !.at = <<m.pages, 0>>, !.offset = 0, !.legal = @ /\ more]
      BY <3>1, Zenon
    <3>3. PICK fine : fine = (m.legal /\ more)
      OBVIOUS
    <3>4. b = [m EXCEPT !.pages = m.pages + count, !.slots = array, !.id = <<m.pages, 0>>,
                        !.at = <<m.pages, 0>>, !.offset = 0, !.legal = fine]
      BY <3>2, <3>3, Zenon
    <3>5. IsMemory(b) /\ b.pages = m.pages + count /\ b.legal = fine
      BY <1>5, <3>4 DEF IsMemory
    <3>6. b.legal \in BOOLEAN
      BY <3>3, <3>5, Zenon
    <3>7. Fine(b) => Fine(m)
      BY <3>3, <3>5, Zenon DEF Fine
    <3> QED BY <1>2, <1>5, <3>5, <3>6, <3>7
  <2>2. CASE ~PageFull(m, size)
    BY <1>3, <1>5, <2>2
  <2> QED BY <2>1, <2>2
<1>7. IsMemory(n) /\ n.pages = b.pages /\ n.legal = b.legal
  BY <1>4, <1>6 DEF IsMemory
<1>8. Fine(n) => Fine(b)
  BY <1>7, Zenon DEF Fine
<1> QED BY <1>6, <1>7, <1>8 DEF Grows, Sound

LEMMA ReallocatedGrows ==
    ASSUME NEW m, Sound(m), NEW p, NEW size \in Nat, NEW w, w = Reallocated(m, p, size).memory
    PROVE  Grows(m, w)
<1>1. PICK a, r : a = Allocated(m, size).memory /\ r = Reallocated(m, p, size)
  OBVIOUS
<1>2. Grows(m, a)
  BY <1>1, AllocatedGrows
<1>3. IsMemory(m) /\ m.legal \in BOOLEAN /\ IsMemory(a) /\ a.legal \in BOOLEAN
  BY <1>2 DEF Sound, Grows
<1>4. CASE m.offset + size > PageSize
  <2>1. /\ IsMemory(r.memory) /\ r.memory.legal \in BOOLEAN /\ r.memory.pages = a.pages
        /\ Fine(r.memory) => Fine(a)
    BY <1>1, <1>3, <1>4, MovedIs
  <2> QED BY <1>1, <1>2, <2>1 DEF Sound, Grows
<1>5. CASE ~ (m.offset + size > PageSize)
  <2>1. /\ IsMemory(r.memory) /\ r.memory.legal \in BOOLEAN /\ r.memory.pages = m.pages
        /\ Fine(r.memory) => Fine(m)
    BY <1>1, <1>3, <1>5, StayedIs
  <2> QED BY <1>1, <2>1 DEF Sound, Grows
<1> QED BY <1>4, <1>5

LEMMA GrownGrows ==
    ASSUME NEW r, Sound(r.memory), NEW length, NEW size \in Nat, size = r.bytes + 1 + length,
           NEW g, g = Grown(r, length)
    PROVE  Grows(r.memory, g.memory) /\ g.bytes = size
<1>1. PICK m, p, new : m = r.memory /\ p = r.place /\ new = BufferPlace(m, p, size)
  OBVIOUS
<1>2. PICK pl : pl = Placed(new, p, "BUFFER", size)
  OBVIOUS
<1>3. PICK fits : Asserted(g, pl, fits, new.place, size)
  BY <1>1, <1>2, GrownIs
<1>4. Grows(m, new.memory)
  <2>1. CASE m.data[p].format = "BUFFER" /\ m.data[p].extra = size
    <3>1. new = Same(m, p)
      BY <1>1, <2>1, Zenon DEF BufferPlace
    <3>2. new.memory = m
      BY <3>1 DEF Same
    <3> QED BY <1>1, <3>2 DEF Grows, Sound
  <2>2. CASE ~ (m.data[p].format = "BUFFER" /\ m.data[p].extra = size)
    <3>1. new = Reallocated(m, p, Base("BUFFER") + size)
      BY <1>1, <2>2, Zenon DEF BufferPlace
    <3>2. Base("BUFFER") + size \in Nat
      BY SizeIs DEF Formats
    <3> QED BY <1>1, <3>1, <3>2, ReallocatedGrows
  <2> QED BY <2>1, <2>2
<1>5. IsMemory(pl) /\ pl.pages = new.memory.pages /\ pl.legal = new.memory.legal
  <2>1. PICK d : pl = [new.memory EXCEPT !.data = d]
    BY <1>2 DEF Placed
  <2> QED BY <1>4, <2>1 DEF Grows, Sound, IsMemory
<1>6. Fine(pl) => Fine(new.memory)
  BY <1>5, Zenon DEF Fine
<1>7. IsMemory(g.memory) /\ g.memory.legal \in BOOLEAN /\ g.memory.pages = pl.pages /\ g.bytes = size
      /\ (Fine(g.memory) => Fine(pl))
  BY <1>3, <1>5, AssertedIs
<1> QED BY <1>1, <1>4, <1>5, <1>6, <1>7 DEF Grows, Sound

-----------------------------------------------------------------------------
(* The steps *)

IInv ==
    /\ Good(Memory, m_hash_offsets)
    /\ m_pages <= MaxPages
    /\ m_hash_offsets \subseteq Names

LEMMA MemoryIs ==
    ASSUME NEW m, m = Memory
    PROVE  /\ IsMemory(m) /\ m.pages = m_pages /\ m.slots = slots /\ m.data = data /\ m.at = m_current_data
           /\ m.id = m_current_id /\ m.offset = m_current_offset /\ m.legal = TRUE
BY DEF Memory, IsMemory

LEMMA MemoryThen ==
    ASSUME NEW m, m = Memory'
    PROVE  /\ IsMemory(m) /\ m.pages = m_pages' /\ m.slots = slots' /\ m.data = data' /\ m.at = m_current_data'
           /\ m.id = m_current_id' /\ m.offset = m_current_offset' /\ m.legal = TRUE
BY DEF Memory, IsMemory

LEMMA BecomesKeeps ==
    ASSUME NEW offsets, NEW m, Fine(m) /\ m.pages <= MaxPages => Good(m, offsets), Becomes(m),
           NEW n, n = Memory'
    PROVE  Good(n, offsets) /\ m_pages' <= MaxPages
<1>1. PICK reached : reached = Reached(m.data)
  OBVIOUS
<1>2. /\ m.legal /\ m.pages <= MaxPages /\ data' = [p \in reached |-> m.data[p]]
      /\ m_pages' = m.pages /\ slots' = m.slots /\ m_current_data' = m.at /\ m_current_id' = m.id
      /\ m_current_offset' = m.offset
  BY <1>1, Zenon DEF Becomes
<1>3. Fine(m)
  BY <1>2, Zenon DEF Fine
<1>4. Good(m, offsets)
  BY <1>2, <1>3, Zenon
<1>5. Shaped(m) /\ Laid(m) /\ IsTree(m.data, offsets)
  BY <1>4 DEF Good
<1>6. /\ IsMemory(n) /\ n.pages = m.pages /\ n.slots = m.slots /\ n.at = m.at /\ n.id = m.id
      /\ n.offset = m.offset /\ n.legal \in BOOLEAN /\ n.data = data'
  BY <1>2, MemoryThen
<1>7. n.data = [p \in reached |-> m.data[p]]
  BY <1>2, <1>6
<1>8. IsTree(n.data, offsets) /\ Root \in reached /\ reached \subseteq DOMAIN m.data
  BY <1>1, <1>5, <1>7, ReachedTree
<1>9. DOMAIN n.data = reached /\ \A q \in reached : n.data[q] = m.data[q]
  BY <1>7
<1>10. Laid(n)
  <2>1. \A q \in DOMAIN n.data :
               /\ q # Root => Size(n.data[q]) = Size(m.data[q])
               /\ n.data[q].last \in {m.data[q].last, Invalid} \cup (DOMAIN m.data \ {Root})
    BY <1>9
  <2> QED BY <1>5, <1>6, <1>8, <1>9, <2>1, LaidKept
<1>11. Shaped(n)
  BY <1>5, <1>6, <1>8, <1>9 DEF Shaped
<1> QED BY <1>2, <1>8, <1>10, <1>11 DEF Good

\* The invariant of the next state, when the names stay
LEMMA Keeps ==
    ASSUME NEW m, IInv, Fine(m) /\ m.pages <= MaxPages => Good(m, m_hash_offsets), Becomes(m),
           UNCHANGED m_hash_offsets
    PROVE  IInv'
<1>1. PICK n : n = Memory'
  OBVIOUS
<1>2. Good(n, m_hash_offsets) /\ m_pages' <= MaxPages
  BY <1>1, BecomesKeeps
<1> QED BY <1>1, <1>2 DEF IInv

LEMMA InitKeeps ==
    ASSUME Init
    PROVE  IInv
<1>1. PICK m : m = Memory
  OBVIOUS
<1>2. PICK x : x = Datum("OBJECT", 0, NoName, Invalid)
  OBVIOUS
<1>3. /\ m_pages = 0 /\ slots = <<>> /\ data = [p \in {Root} |-> x] /\ m_current_data = <<0, 0>>
      /\ m_current_id = <<0, 0>> /\ m_current_offset = PageSize /\ m_hash_offsets = {}
  BY <1>2 DEF Init
<1>4. /\ IsMemory(m) /\ m.pages = 0 /\ m.slots = <<>> /\ m.data = [p \in {Root} |-> x] /\ m.at = <<0, 0>>
      /\ m.id = <<0, 0>> /\ m.offset = PageSize /\ m.legal = TRUE
  BY <1>1, <1>3, MemoryIs
<1>5. DOMAIN m.data = {Root} /\ m.data[Root] = x
  BY <1>4
<1>6. IsDatum(x) /\ x.format = "OBJECT" /\ x.extra = 0 /\ x.next = Invalid /\ x.first = Invalid /\ x.last = Invalid
  <2>1. "OBJECT" \in Formats /\ 0 \in Extras /\ NoName \in Names \cup {NoName}
    BY LongestIs DEF Formats, Fixed, Containers, Extras
  <2> QED BY <1>2, <2>1, DatumIs
<1>7. PageSize \in Nat /\ PageSize > 0 /\ Word \in Nat /\ Word > 0 /\ MaxPages \in Nat /\ MaxPages > 0 /\ Root # Invalid
  BY AddrIs, DictionaryOK
<1>8. Shaped(m)
  <2>1. m.id \in Spots(MaxPages)
    <3>1. <<0, 0>> \in (0 .. MaxPages - 1) \X (0 .. Word - 1)
      BY <1>7
    <3> QED BY <1>4, <3>1 DEF Spots
  <2>2. m.slots \in Seq(Nat \ {0}) /\ m.pages <= Len(m.slots)
    BY <1>4
  <2>3. m.at \in Nat \X Nat /\ m.offset \in Nat /\ m.pages \in Nat /\ m.legal \in BOOLEAN
    <3>1. <<0, 0>> \in Nat \X Nat
      OBVIOUS
    <3>2. m.legal \in BOOLEAN
      BY <1>4, Zenon
    <3> QED BY <1>4, <1>7, <3>1, <3>2
  <2>4. m.data[Root].format \in Containers /\ m.data[Root].extra = 0
    BY <1>5, <1>6 DEF Containers
  <2> QED BY <1>4, <1>5, <1>6, <2>1, <2>2, <2>3, <2>4 DEF Shaped
<1>9. Laid(m)
  BY <1>4, <1>5, <1>6, <1>7 DEF Laid
<1>10. IsTree(m.data, {})
  <2>1. PICK par : par = [c \in {Root} |-> Invalid]
    OBVIOUS
  <2>2. Kin(m.data, par) /\ Titled(m.data, par, {})
    BY <1>5, <1>6, <1>7 DEF Kin, Titled
  <2> QED BY <2>2 DEF IsTree
<1>11. Good(m, {})
  BY <1>8, <1>9, <1>10 DEF Good
<1> QED BY <1>1, <1>3, <1>7, <1>11 DEF IInv

LEMMA ExtrasAre ==
    /\ 0 \in Extras
    /\ \A l \in Lengths : l \in Nat /\ l \in Extras /\ l + 1 \in Extras
    /\ \A l, k \in Lengths : l + k + 2 \in Extras
<1>1. Longest \in Nat /\ \A l \in Lengths : l \in Nat /\ l > 0 /\ l <= Longest
  BY LongestIs
<1> QED BY <1>1 DEF Extras

LEMMA AddKeeps ==
    ASSUME IInv, NEW p \in DOMAIN data, NEW name \in Names \cup {NoName}, AddNode(p, name)
    PROVE  IInv'
<1>1. PICK m, a, new, offset, format :
          /\ m = Memory /\ a = Allocated(m, Base("OBJECT")).memory /\ new = Allocated(m, Base("OBJECT")).place
          /\ offset = a.offset + Base("OBJECT") /\ format = ParentFormat(p, name)
  OBVIOUS
<1>2. /\ data[p].format \in Containers /\ (data[p].first # Invalid => data[p].last \in DOMAIN data)
      /\ m_hash_offsets' = m_hash_offsets \cup ({name} \ {NoName})
  BY DEF AddNode
<1>3. PICK hash \in IF name = NoName THEN Names \cup {NoName} ELSE {name} :
          Becomes(Added(a, new, hash, p, format, offset))
  BY <1>1, Zenon DEF AddNode, Added
<1>4. PICK n : n = Added(a, new, hash, p, format, offset)
  OBVIOUS
<1>5. Becomes(n)
  BY <1>3, <1>4, Zenon
<1>6. PICK more : more = m_hash_offsets \cup ({name} \ {NoName})
  OBVIOUS
<1>7. Good(m, m_hash_offsets) /\ m.data = data
  BY <1>1, MemoryIs DEF IInv
<1>8. format \in Containers /\ (format = "OBJECT" => name # NoName /\ data[p].format = "OBJECT")
  BY <1>1, <1>2 DEF ParentFormat, Containers
<1>9. hash \in Names \cup {NoName} /\ (format = "OBJECT" => hash \in more)
  BY <1>6, <1>8
<1>10. Fine(n) /\ n.pages <= MaxPages => Good(n, more)
  <2> SUFFICES ASSUME Fine(n), n.pages <= MaxPages PROVE Good(n, more)
    OBVIOUS
  <2>1. p \in DOMAIN m.data /\ (m.data[p].first # Invalid => m.data[p].last \in DOMAIN m.data)
        /\ m.data[p].format \in Containers /\ m_hash_offsets \subseteq more
        /\ (format = "OBJECT" => hash \in more /\ m.data[p].format = "OBJECT")
    BY <1>2, <1>6, <1>7, <1>8, <1>9
  <2> QED BY ONLY <1>1, <1>4, <1>7, <1>8, <1>9, <2>1, Fine(n), n.pages <= MaxPages, AddGood
<1>11. PICK w : w = Memory'
  OBVIOUS
<1>12. Good(w, more) /\ m_pages' <= MaxPages
  BY <1>5, <1>10, <1>11, BecomesKeeps
<1>13. more \subseteq Names /\ m_hash_offsets' = more
  BY <1>2, <1>6 DEF IInv
<1> QED BY <1>11, <1>12, <1>13 DEF IInv

LEMMA RemoveKeeps ==
    ASSUME IInv, NEW p \in DOMAIN data, NEW name, RemoveNode(p, name)
    PROVE  IInv'
<1>1. PICK m, d, n : m = Memory /\ d = Unlinked(p, Find(p, name)) /\ n = [m EXCEPT !.data = d]
  OBVIOUS
<1>2. Find(p, name) # Invalid /\ Becomes(n) /\ UNCHANGED m_hash_offsets
  BY <1>1, Zenon DEF RemoveNode
<1>3. Good(m, m_hash_offsets) /\ m.data = data
  BY <1>1, MemoryIs DEF IInv
<1>4. Shaped(m) /\ Laid(m) /\ IsTree(data, m_hash_offsets) /\ \A q \in DOMAIN data : IsDatum(data[q])
  BY <1>3 DEF Good, Shaped
<1>5. /\ IsTree(d, m_hash_offsets) /\ DOMAIN d = DOMAIN data
      /\ \A q \in DOMAIN data :
             /\ IsDatum(d[q]) /\ d[q].extra = data[q].extra /\ d[q].format = data[q].format
             /\ d[q].last \in {data[q].last, Invalid} \cup (DOMAIN data \ {Root})
  BY <1>1, <1>2, <1>4, RemoveTree
<1>6. /\ IsMemory(n) /\ n.pages = m.pages /\ n.slots = m.slots /\ n.at = m.at /\ n.id = m.id
      /\ n.offset = m.offset /\ n.legal = m.legal /\ n.data = d
  <2>1. IsMemory(m)
    BY <1>4 DEF Shaped
  <2> QED BY <1>1, <2>1 DEF IsMemory
<1>7. Laid(n)
  <2>1. \A q \in DOMAIN n.data :
               /\ q # Root => Size(n.data[q]) = Size(m.data[q])
               /\ n.data[q].last \in {m.data[q].last, Invalid} \cup (DOMAIN m.data \ {Root})
    BY <1>3, <1>5, <1>6 DEF Size
  <2> QED BY <1>3, <1>4, <1>5, <1>6, <2>1, LaidKept
<1>8. Shaped(n)
  <2>1. Spots(m.pages) \subseteq Spots(MaxPages)
    <3>1. m.pages \in Nat /\ MaxPages \in Nat /\ m.pages <= MaxPages
      BY <1>1, <1>4, MemoryIs, AddrIs DEF Shaped, IInv
    <3> QED BY <3>1, SpotsGrow
  <2> QED BY <1>3, <1>4, <1>5, <1>6, <2>1 DEF Shaped
<1>9. Good(n, m_hash_offsets)
  BY <1>5, <1>6, <1>7, <1>8 DEF Good
<1> QED BY <1>2, <1>9, Keeps

LEMMA ClearKeeps ==
    ASSUME IInv, Clear
    PROVE  IInv'
<1>1. PICK m, n, x : m = Memory /\ n = Memory' /\ x = [data[Root] EXCEPT !.first = Invalid, !.last = Invalid]
  OBVIOUS
<1>2. Shaped(m) /\ IsTree(m.data, m_hash_offsets) /\ m.data = data
  BY <1>1, MemoryIs DEF IInv, Good
<1>3. /\ m_pages' = 0 /\ data' = [p \in {Root} |-> x] /\ m_current_offset' = PageSize /\ m_hash_offsets' = {}
      /\ slots' = slots /\ m_current_data' = m_current_data /\ m_current_id' = m_current_id
  BY <1>1 DEF Clear
<1>4. /\ IsMemory(n) /\ n.pages = 0 /\ n.slots = m.slots /\ n.data = [p \in {Root} |-> x] /\ n.at = m.at
      /\ n.id = m.id /\ n.offset = PageSize /\ n.legal = TRUE
  BY <1>1, <1>3, MemoryIs, MemoryThen
<1>5. DOMAIN n.data = {Root} /\ n.data[Root] = x
  BY <1>4
<1>6. Root \in DOMAIN data /\ data[Root].next = Invalid
  BY <1>2 DEF IsTree, Kin
<1>7. IsDatum(x) /\ x.format = data[Root].format /\ x.extra = data[Root].extra /\ x.next = Invalid
      /\ x.first = Invalid /\ x.last = Invalid
  <2>1. IsDatum(data[Root])
    BY <1>2, <1>6 DEF Shaped
  <2> QED BY <1>1, <1>6, <2>1 DEF IsDatum
<1>8. PageSize \in Nat /\ Root # Invalid
  BY AddrIs
<1>9. Shaped(n)
  <2>1. n.legal \in BOOLEAN
    BY <1>4, Zenon
  <2>2. n.pages \in Nat /\ n.pages <= Len(n.slots) /\ n.slots \in Seq(Nat \ {0})
    BY <1>2, <1>4 DEF Shaped
  <2> QED BY <1>2, <1>4, <1>5, <1>7, <1>8, <2>1, <2>2 DEF Shaped
<1>10. Laid(n)
  BY <1>4, <1>5, <1>7, <1>8 DEF Laid
<1>11. IsTree(n.data, {})
  <2>1. PICK par : par = [c \in {Root} |-> Invalid]
    OBVIOUS
  <2>2. Kin(n.data, par) /\ Titled(n.data, par, {})
    BY <1>5, <1>7, <1>8 DEF Kin, Titled
  <2> QED BY <2>2 DEF IsTree
<1>12. Good(n, {})
  BY <1>9, <1>10, <1>11 DEF Good
<1>13. m_pages' <= MaxPages
  BY <1>3, AddrIs
<1> QED BY <1>1, <1>3, <1>12, <1>13 DEF IInv

\* Where the value of a node is put: where it was, if it takes as much, or at the end
Found(r, m, p, format, extra) ==
    \/ r = Same(m, p) /\ Size(m.data[p]) = Base(format) + extra
    \/ r = Reallocated(m, p, Base(format) + extra) /\ p # Root

LEMMA ChangedKeeps ==
    ASSUME IInv, NEW p \in DOMAIN data, NEW format \in Formats, NEW extra \in Extras,
           p = Root => format \in Containers /\ extra = 0, NEW m, m = Memory,
           NEW r, Found(r, m, p, format, extra), Changed(r, p, format, extra)
    PROVE  IInv'
<1>1. PICK n, size : n = Placed(r, p, format, extra) /\ size = Base(format) + extra
  OBVIOUS
<1>2. Becomes(n) /\ UNCHANGED m_hash_offsets
  BY <1>1, Zenon DEF Changed
<1>3. Good(m, m_hash_offsets) /\ p \in DOMAIN m.data
  BY MemoryIs DEF IInv
<1>4. ASSUME Fine(n) /\ n.pages <= MaxPages PROVE Good(n, m_hash_offsets)
  <2>1. Fine(n) /\ n.pages <= MaxPages
    BY <1>4, Zenon
  <2>2. CASE r = Same(m, p) /\ Size(m.data[p]) = size
    <3>1. n = Placed(Same(m, p), p, format, extra) /\ Size(m.data[p]) = Base(format) + extra
      BY <1>1, <2>2
    <3>2. Kept(m, n, m_hash_offsets, p)
      BY <1>3, <3>1, SameGood
    <3> QED BY <3>2, Zenon DEF Kept
  <2>3. CASE r = Reallocated(m, p, size) /\ p # Root
    <3>1. p \in DOMAIN m.data \ {Root}
      BY <1>3, <2>3
    <3>2. Kept(m, n, m_hash_offsets, r.place)
      BY <1>1, <1>3, <2>1, <2>3, <3>1, ReallocatedGood
    <3> QED BY <3>2, Zenon DEF Kept
  <2> QED BY <1>1, <2>2, <2>3, Zenon DEF Found
<1>5. Fine(n) /\ n.pages <= MaxPages => Good(n, m_hash_offsets)
  BY <1>4, Zenon
<1> QED BY <1>2, <1>5, Keeps

LEMMA SetFixedKeeps ==
    ASSUME IInv, NEW p \in DOMAIN data, NEW format \in Values, SetFixed(p, format)
    PROVE  IInv'
<1>1. PICK m, r : m = Memory /\ r = IF Size(data[p]) = Base(format) THEN Same(m, p)
                                    ELSE Reallocated(m, p, Base(format))
  OBVIOUS
<1>2. Changed(r, p, format, 0) /\ (p = Root => format \in Containers)
  BY <1>1, Zenon DEF SetFixed
<1>3. format \in Formats /\ 0 \in Extras
  BY DictionaryOK, ExtrasAre DEF Formats
<1>4. Base(format) \in Nat /\ Base(format) + 0 = Base(format)
  BY <1>3, SizeIs
<1>5. m.data = data /\ Shaped(m)
  BY <1>1, MemoryIs DEF IInv, Good
<1>6. p = Root => Size(data[p]) = Base(format)
  BY <1>2, <1>5, SizeIs DEF Shaped, Size, Containers
<1>7. Found(r, m, p, format, 0)
  <2>1. CASE Size(data[p]) = Base(format)
    BY <1>1, <1>4, <1>5, <2>1 DEF Found
  <2>2. CASE Size(data[p]) # Base(format)
    BY <1>1, <1>4, <1>5, <1>6, <2>2 DEF Found
  <2> QED BY <2>1, <2>2
<1> QED BY <1>1, <1>2, <1>3, <1>7, ChangedKeeps

LEMMA SetStringKeeps ==
    ASSUME IInv, NEW p \in DOMAIN data, NEW length \in Lengths, SetString(p, length)
    PROVE  IInv'
<1>1. PICK m, r : m = Memory /\ r = IF data[p].format = "STRING" /\ data[p].extra = length THEN Same(m, p)
                                    ELSE Reallocated(m, p, Base("STRING") + length)
  OBVIOUS
<1>2. Changed(r, p, "STRING", length) /\ p # Root
  BY <1>1, Zenon DEF SetString
<1>3. "STRING" \in Formats /\ length \in Extras
  BY ExtrasAre DEF Formats
<1>4. m.data = data
  BY <1>1, MemoryIs
<1>5. Found(r, m, p, "STRING", length)
  BY <1>1, <1>2, <1>4 DEF Found, Size
<1> QED BY <1>1, <1>2, <1>3, <1>5, ChangedKeeps

LEMMA SetBufferKeeps ==
    ASSUME IInv, NEW p \in DOMAIN data, NEW bytes \in Lengths \cup {0}, SetBuffer(p, bytes)
    PROVE  IInv'
<1>1. PICK m, r : m = Memory /\ r = BufferPlace(m, p, bytes)
  OBVIOUS
<1>2. Changed(r, p, "BUFFER", bytes) /\ p # Root
  BY <1>1, Zenon DEF SetBuffer
<1>3. "BUFFER" \in Formats /\ bytes \in Extras
  BY ExtrasAre DEF Formats
<1>4. Found(r, m, p, "BUFFER", bytes)
  BY <1>1, <1>2 DEF Found, Size, BufferPlace
<1> QED BY <1>1, <1>2, <1>3, <1>4, ChangedKeeps

LEMMA SetBufferStringsKeeps ==
    ASSUME IInv, NEW p \in DOMAIN data, NEW length \in Lengths, NEW second \in Lengths,
           SetBufferStrings(p, length, second)
    PROVE  IInv'
<1>1. PICK r0 : r0 = [memory |-> Memory, place |-> p, bytes |-> 0]
  OBVIOUS
<1>2. PICK r1 : r1 = Grown(r0, length)
  OBVIOUS
<1>3. PICK r2 : r2 = Grown(r1, second)
  OBVIOUS
<1>4. PICK n : n = r2.memory
  OBVIOUS
<1>5. p # Root /\ Becomes(n) /\ UNCHANGED m_hash_offsets
  BY <1>1, <1>2, <1>3, <1>4, Zenon DEF SetBufferStrings
<1>6. PICK m : m = Memory
  OBVIOUS
<1>7. r0.memory = m /\ r0.place = p /\ r0.bytes = 0
  BY <1>1, <1>6
<1>8. PICK one, two : one = 1 + length /\ two = one + 1 + second
  OBVIOUS
<1>9. /\ one \in Extras /\ two \in Extras /\ one \in Nat /\ two \in Nat
      /\ one = r0.bytes + 1 + length
  BY <1>7, <1>8, ExtrasAre
<1>10. Good(m, m_hash_offsets) /\ p \in DOMAIN m.data
  BY <1>6, MemoryIs DEF IInv
<1>11. Sound(m)
  BY <1>10 DEF Sound, Good, Shaped
<1>12. Grows(m, r1.memory) /\ r1.bytes = one
  BY <1>2, <1>7, <1>9, <1>11, GrownGrows
<1>13. Sound(r1.memory) /\ two = r1.bytes + 1 + second
  BY <1>8, <1>12 DEF Grows
<1>14. Grows(r1.memory, n)
  BY <1>3, <1>4, <1>9, <1>13, GrownGrows
<1>15. ASSUME Fine(n) /\ n.pages <= MaxPages PROVE Good(n, m_hash_offsets)
  <2>1. Fine(n) /\ n.pages <= MaxPages
    BY <1>15, Zenon
  <2>2. Fine(r1.memory) /\ r1.memory.pages <= MaxPages
    <3>1. r1.memory.pages \in Nat /\ n.pages \in Nat /\ r1.memory.pages <= n.pages /\ MaxPages \in Nat
      BY <1>13, <1>14, DictionaryOK DEF Grows, Sound
    <3>2. Fine(r1.memory)
      BY <1>14, <2>1, Zenon DEF Grows
    <3> QED BY <2>1, <3>1, <3>2
  <2>3. Kept(m, r1.memory, m_hash_offsets, r1.place) /\ r1.place # Root
    <3>1. Good(r0.memory, m_hash_offsets) /\ r0.place \in DOMAIN r0.memory.data \ {Root}
      BY <1>5, <1>7, <1>10
    <3>2. Kept(r0.memory, r1.memory, m_hash_offsets, r1.place) /\ r1.place # Root
      BY <1>2, <1>9, <2>2, <3>1, GrownGood
    <3> QED BY <1>7, <3>2
  <2>4. Good(r1.memory, m_hash_offsets) /\ r1.place \in DOMAIN r1.memory.data \ {Root}
    BY <2>3 DEF Kept
  <2>5. Kept(r1.memory, n, m_hash_offsets, r2.place)
    BY <1>3, <1>4, <1>9, <1>13, <2>1, <2>4, GrownGood
  <2> QED BY <2>5, Zenon DEF Kept
<1>16. Fine(n) /\ n.pages <= MaxPages => Good(n, m_hash_offsets)
  BY <1>15, Zenon
<1> QED BY <1>5, <1>16, Keeps

LEMMA StepKeeps ==
    ASSUME IInv, [Next]_vars
    PROVE  IInv'
<1>1. CASE Next
  <2>1. ASSUME NEW p \in DOMAIN data, NEW name \in Names \cup {NoName}, AddNode(p, name) PROVE IInv'
    BY <2>1, AddKeeps
  <2>2. ASSUME NEW p \in DOMAIN data, NEW name \in Names, RemoveNode(p, name) PROVE IInv'
    BY <2>2, RemoveKeeps
  <2>3. ASSUME NEW p \in DOMAIN data, NEW format \in Values, SetFixed(p, format) PROVE IInv'
    BY <2>3, SetFixedKeeps
  <2>4. ASSUME NEW p \in DOMAIN data, NEW length \in Lengths, SetString(p, length) PROVE IInv'
    BY <2>4, SetStringKeeps
  <2>5. ASSUME NEW p \in DOMAIN data, NEW length \in Lengths, NEW second \in Lengths,
               SetBufferStrings(p, length, second)
        PROVE  IInv'
    BY <2>5, SetBufferStringsKeeps
  <2>6. ASSUME NEW p \in DOMAIN data, NEW bytes \in Lengths \cup {0}, SetBuffer(p, bytes) PROVE IInv'
    BY <2>6, SetBufferKeeps
  <2>7. ASSUME Clear PROVE IInv'
    BY <2>7, ClearKeeps
  <2> QED BY <1>1, <2>1, <2>2, <2>3, <2>4, <2>5, <2>6, <2>7, Zenon DEF Next
<1>2. CASE UNCHANGED vars
  BY <1>2 DEF vars, IInv, Memory
<1> QED BY <1>1, <1>2

LEMMA Invariance == Spec => []IInv
<1>1. Init => IInv
  BY InitKeeps
<1>2. IInv /\ [Next]_vars => IInv'
  BY StepKeeps
<1> QED BY <1>1, <1>2, PTL DEF Spec

-----------------------------------------------------------------------------
(* What holds in every state *)

\* What the invariant says of the variables
LEMMA InvariantSays ==
    ASSUME IInv, NEW m, m = Memory
    PROVE  /\ m.pages = m_pages /\ m.slots = slots /\ m.data = data /\ m.at = m_current_data
           /\ m.id = m_current_id /\ m.offset = m_current_offset
           /\ Shaped(m) /\ Laid(m) /\ IsTree(data, m_hash_offsets) /\ m_pages \in 0 .. MaxPages
<1>1. Shaped(m) /\ Laid(m) /\ IsTree(data, m_hash_offsets) /\ m_pages <= MaxPages
  BY MemoryIs DEF IInv, Good
<1>2. /\ m.pages = m_pages /\ m.slots = slots /\ m.data = data /\ m.at = m_current_data
      /\ m.id = m_current_id /\ m.offset = m_current_offset
  BY MemoryIs
<1>3. m_pages \in 0 .. MaxPages
  <2>1. m_pages \in Nat /\ MaxPages \in Nat
    BY <1>1, <1>2, AddrIs DEF Shaped
  <2> QED BY <1>1, <2>1
<1> QED BY <1>1, <1>2, <1>3

\* The variables keep their types, and no link leads to a place without a datum: the
\* first child and the next one of every node are data, whatever was moved or removed
\* (src/src/container/dictionary.cpp).
THEOREM DataStayTyped == Spec => []TypeOK
<1>1. ASSUME IInv PROVE TypeOK
  <2>1. PICK m : m = Memory
    OBVIOUS
  <2>2. /\ m.pages = m_pages /\ m.slots = slots /\ m.data = data /\ m.at = m_current_data
        /\ m.id = m_current_id /\ m.offset = m_current_offset
        /\ Shaped(m) /\ IsTree(data, m_hash_offsets) /\ m_pages \in 0 .. MaxPages
    BY <1>1, <2>1, InvariantSays
  <2>3. DOMAIN data \subseteq Ids \ {Invalid}
    <3>1. DOMAIN data \ {Root} \subseteq Spots(m_pages)
      BY <2>2 DEF Shaped
    <3>2. Spots(m_pages) \subseteq Spots(MaxPages)
      BY <2>2, AddrIs, SpotsGrow
    <3>3. Spots(MaxPages) \subseteq Ids
      BY DEF Spots, Ids
    <3>4. Invalid \notin DOMAIN data
      BY <2>2 DEF IsTree, Kin
    <3> QED BY <3>1, <3>2, <3>3, <3>4 DEF Ids
  <2>4. ASSUME NEW p \in DOMAIN data
        PROVE  /\ data[p].format \in Formats /\ data[p].extra \in Extras
               /\ data[p].hash \in Names \cup {NoName}
               /\ {data[p].next, data[p].first} \subseteq DOMAIN data \cup {Invalid}
    <3>1. IsDatum(data[p])
      BY <2>2, <2>4 DEF Shaped
    <3>2. {data[p].next, data[p].first} \subseteq DOMAIN data \cup {Invalid}
      BY <2>2, <2>4 DEF IsTree, Kin
    <3> QED BY <3>1, <3>2 DEF IsDatum
  <2>5. /\ slots \in Seq(Nat \ {0}) /\ m_pages <= Len(slots) /\ m_current_data \in Nat \X Nat
        /\ m_current_id \in (0 .. MaxPages - 1) \X (0 .. Word - 1) /\ m_current_offset \in Nat
    BY <2>2 DEF Shaped, Spots
  <2>6. m_hash_offsets \subseteq Names
    BY <1>1 DEF IInv
  <2> QED BY <2>2, <2>3, <2>4, <2>5, <2>6 DEF TypeOK
<1> QED BY <1>1, Invariance, PTL

LEMMA UnitsAre ==
    ASSUME NEW m, m.data = data, NEW p \in DOMAIN data, p \in Nat \X Nat, IsDatum(data[p])
    PROVE  /\ Addr(p) \in Nat /\ End(m, p) \in Nat
           /\ \A u \in Units(p) : u \in Nat /\ Addr(p) <= u /\ u < End(m, p)
<1>1. Addr(p) \in Nat /\ Edge(p[1]) \in Nat
  BY AddrIs
<1>2. Size(data[p]) \in Nat
  BY SizeIs
<1>3. End(m, p) = Addr(p) + Size(data[p]) /\ Addr(p) = p[1] * PageSize + p[2]
  BY DEF End, Addr, Edge
<1>4. PICK from, size \in Nat : from = Addr(p) /\ size = Size(data[p])
  BY <1>1, <1>2
<1>5. Units(p) = {from + i : i \in 0 .. size - 1}
  BY <1>3, <1>4 DEF Units
<1> QED BY <1>1, <1>3, <1>4, <1>5

\* The place of the next datum, which three fields keep apart, is one, and no two data
\* share memory, whatever callers do not avoid (src/src/container/dictionary.cpp:261-330).
THEOREM DataStayApart == Spec => [](IdIsPlace /\ DataApart)
<1>1. ASSUME IInv PROVE IdIsPlace /\ DataApart
  <2>1. PICK m : m = Memory
    OBVIOUS
  <2>2. /\ m.pages = m_pages /\ m.data = data /\ m.at = m_current_data
        /\ m.id = m_current_id /\ m.offset = m_current_offset
        /\ Shaped(m) /\ Laid(m) /\ m_pages \in 0 .. MaxPages
    BY <1>1, <2>1, InvariantSays
  <2>3. IdIsPlace
    <3>1. Base("ZERO") \in Nat /\ m_current_offset \in Nat /\ PageSize \in Nat
      BY <2>2, SizeIs, AddrIs DEF Shaped, Formats, Fixed
    <3>2. ~PageFull(Memory, Base("ZERO")) => m.offset < PageSize
      BY <2>1, <2>2, <3>1 DEF PageFull
    <3> QED BY <2>2, <3>2 DEF IdIsPlace, Laid
  <2>4. ASSUME NEW p \in DOMAIN data \ {Root}
        PROVE  /\ p \in Nat \X Nat /\ IsDatum(data[p]) /\ End(m, p) <= Addr(m.at)
               /\ Addr(p) \in Nat /\ End(m, p) \in Nat
               /\ \A u \in Units(p) : u \in Nat /\ Addr(p) <= u /\ u < End(m, p)
    <3>1. p \in Nat \X Nat /\ IsDatum(data[p]) /\ End(m, p) <= Addr(m.at)
      BY <2>2, <2>4, AddrIs DEF Shaped, Laid
    <3> QED BY <2>2, <3>1, UnitsAre
  <2>5. ASSUME NEW p \in DOMAIN data \ {Root}, NEW q \in DOMAIN data \ {Root, p}
        PROVE  Units(p) \cap Units(q) = {}
    <3>1. End(m, p) <= Addr(q) \/ End(m, q) <= Addr(p)
      BY <2>2, <2>5 DEF Laid
    <3>2. /\ Addr(p) \in Nat /\ End(m, p) \in Nat /\ Addr(q) \in Nat /\ End(m, q) \in Nat
          /\ \A u \in Units(p) : u \in Nat /\ Addr(p) <= u /\ u < End(m, p)
          /\ \A u \in Units(q) : u \in Nat /\ Addr(q) <= u /\ u < End(m, q)
      BY <2>4, <2>5
    <3> QED BY <3>1, <3>2
  <2>6. ASSUME NEW p \in DOMAIN data \ {Root}, NEW u \in Units(p)
        PROVE  u < m_current_data[1] * PageSize + m_current_data[2]
    <3>1. m.at \in Nat \X Nat
      BY <2>2 DEF Shaped
    <3>2. Addr(m.at) \in Nat /\ Addr(m.at) = m_current_data[1] * PageSize + m_current_data[2]
      BY <2>2, <3>1, AddrIs DEF Addr, Edge
    <3>3. u \in Nat /\ u < End(m, p) /\ End(m, p) \in Nat /\ End(m, p) <= Addr(m.at)
      BY <2>4
    <3> QED BY <3>2, <3>3
  <2> QED BY <2>3, <2>5, <2>6 DEF DataApart
<1> QED BY <1>1, Invariance, PTL

\* While no datum is put over pages that do not lie side by side, every datum lies
\* inside memory that was allocated in one piece, apart from all others, whatever pages
\* were used before the dictionary was cleared (src/src/container/dictionary.cpp:261-330).
THEOREM DataStayPlaced ==
    ASSUME "split datum" \in Avoided
    PROVE  Spec => []DataPlaced
<1>1. IInv => DataInside
  <2> SUFFICES ASSUME IInv, NEW p \in DOMAIN data \ {Root} PROVE Inside(Memory, p, Size(data[p]))
    BY Zenon DEF DataInside
  <2>1. PICK m : m = Memory
    OBVIOUS
  <2>2. m.data = data /\ Laid(m)
    BY <2>1, InvariantSays
  <2>3. Whole
    BY Zenon DEF Whole
  <2> QED BY <2>1, <2>2, <2>3 DEF Laid
<1>2. (IdIsPlace /\ DataApart) /\ DataInside => DataPlaced
  BY DEF DataPlaced
<1> QED BY <1>1, <1>2, Invariance, DataStayApart, PTL

\* Every child of an object has a name that is stored: adding one without a name makes
\* its parent an array, and no call that changes or moves a node makes the array an
\* object again while it keeps such children (src/src/container/dictionary.cpp:326-376).
THEOREM ChildrenStayNamed == Spec => []ObjectsNamed
<1>1. ASSUME IInv PROVE ObjectsNamed
  <2> SUFFICES ASSUME NEW p \in DOMAIN data, data[p].format = "OBJECT", NEW i \in DOMAIN Chain(data, p)
               PROVE  data[Chain(data, p)[i]].hash \in m_hash_offsets
    BY Zenon DEF ObjectsNamed
  <2>1. PICK m : m = Memory
    OBVIOUS
  <2>2. IsTree(data, m_hash_offsets)
    BY <1>1, <2>1, InvariantSays
  <2>3. PICK par : Kin(data, par) /\ Titled(data, par, m_hash_offsets)
    BY <2>2 DEF IsTree
  <2>4. PICK c : c = Chain(data, p)[i]
    OBVIOUS
  <2>5. c \in DOMAIN data \ {Root} /\ par[c] = p
    BY <2>3, <2>4, ChainIs
  <2> QED BY <2>3, <2>4, <2>5 DEF Titled
<1> QED BY <1>1, Invariance, PTL

=============================================================================
