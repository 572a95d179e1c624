------------------------ MODULE MemoryManagerProofs ------------------------
(***************************************************************************)
(* Proofs about MemoryManager, for any pages, sizes and number of calls:   *)
(* the chunks of every page cut it up exactly, a page is given back with   *)
(* its last allocation, and the statistics are what is allocated.          *)
(*                                                                         *)
(* The sums of the module are folds over sets, and the list without the    *)
(* chunks of a page is a recursive function.  What they compute is proved  *)
(* by a least counterexample: a set of finite sets, or of numbers, that is *)
(* not empty has a least element.                                          *)
(***************************************************************************)
EXTENDS MemoryManager, FiniteSetTheorems, SequenceTheorems, TLAPS

-----------------------------------------------------------------------------
(* Least counterexamples *)

LEMMA LeastSet ==
    ASSUME NEW S, IsFiniteSet(S), NEW bad, bad \subseteq SUBSET S, bad # {}
    PROVE  \E T \in bad : \A U \in bad : U \subseteq T => U = T
<1>1. bad \subseteq FiniteSubsetsOf(S)
  BY FS_FiniteSubsetsOfFinite
<1>2. IsWellFoundedOn(StrictSubsetOrdering(S), FiniteSubsetsOf(S))
  BY FS_StrictSubsetOrderingWellFounded
<1>3. PICK T \in bad : \A U \in bad : ~ (<<U, T>> \in StrictSubsetOrdering(S))
  BY <1>1, <1>2, WFMin
<1> QED BY <1>3 DEF StrictSubsetOrdering

LEMMA LeastNumber ==
    ASSUME NEW n \in Nat, NEW bad, bad \subseteq 0 .. n, bad # {}
    PROVE  \E k \in bad : \A m \in bad : k <= m
<1> DEFINE below == {0 .. (k - 1) : k \in bad}
<1>1. below \subseteq SUBSET (0 .. n) /\ below # {}
  <2> SUFFICES ASSUME NEW k \in bad PROVE 0 .. (k - 1) \subseteq 0 .. n
    OBVIOUS
  <2>1. k \in 0 .. n
    OBVIOUS
  <2> QED BY <2>1
<1>2. PICK S : S = 0 .. n /\ IsFiniteSet(S)
  BY FS_Interval
<1>3. PICK T \in below : \A U \in below : U \subseteq T => U = T
  <2>1. IsFiniteSet(S) /\ below \subseteq SUBSET S /\ below # {}
    BY <1>1, <1>2
  <2>2. PICK W : W = below
    OBVIOUS
  <2>3. \E T \in W : \A U \in W : U \subseteq T => U = T
    <3>1. IsFiniteSet(S) /\ W \subseteq SUBSET S /\ W # {}
      BY <2>1, <2>2, Zenon
    <3> HIDE <2>1, <2>2, <1>2
    <3> QED BY <3>1, LeastSet
  <2> QED BY <2>2, <2>3, Zenon
<1>4. PICK k \in bad : T = 0 .. (k - 1)
  OBVIOUS
<1>5. ASSUME NEW m \in bad, m < k PROVE FALSE
  <2>1. 0 .. (m - 1) \in below /\ 0 .. (m - 1) \subseteq T
    BY <1>4, <1>5
  <2>2. m \notin 0 .. (m - 1) /\ m \in 0 .. (k - 1)
    BY <1>5
  <2> QED BY <1>3, <1>4, <2>1, <2>2
<1> QED BY <1>5

-----------------------------------------------------------------------------
(* The sum of the sizes of some chunks, or pages *)

Total(h, S) == MapThenSumSet(LAMBDA c : h[c].size, S)

Some(S) == CHOOSE x \in S : TRUE

\* The function that the fold is.
Sums(g, h, S) ==
    g = [T \in SUBSET S |-> IF T = {} THEN 0 ELSE h[Some(T)].size + g[T \ {Some(T)}]]

LEMMA TotalIs ==
    ASSUME NEW h, NEW S
    PROVE  Total(h, S) = (CHOOSE g : Sums(g, h, S))[S]
BY DEF Total, MapThenSumSet, MapThenFoldSet, Sums, Some

LEMMA SomeIn ==
    ASSUME NEW S, S # {}
    PROVE  Some(S) \in S
BY DEF Some

LEMMA SumsAt ==
    ASSUME NEW g, NEW h, NEW S, Sums(g, h, S), NEW T, T \subseteq S
    PROVE  g[T] = IF T = {} THEN 0 ELSE h[Some(T)].size + g[T \ {Some(T)}]
BY DEF Sums

LEMMA SumsAgree ==
    ASSUME NEW h, NEW S, NEW T, IsFiniteSet(S), NEW f, NEW g, Sums(f, h, S), Sums(g, h, T),
           NEW U, U \subseteq S, U \subseteq T
    PROVE  f[U] = g[U]
<1> DEFINE bad == {V \in SUBSET S : V \subseteq T /\ f[V] # g[V]}
<1>1. SUFFICES ASSUME bad # {} PROVE FALSE
  OBVIOUS
<1>2. PICK V \in bad : \A W \in bad : W \subseteq V => W = V
  <2>1. bad \subseteq SUBSET S
    OBVIOUS
  <2> HIDE DEF bad
  <2> QED BY <1>1, <2>1, LeastSet
<1>3. V \subseteq S /\ V \subseteq T /\ f[V] # g[V]
  OBVIOUS
<1>4. /\ f[V] = IF V = {} THEN 0 ELSE h[Some(V)].size + f[V \ {Some(V)}]
      /\ g[V] = IF V = {} THEN 0 ELSE h[Some(V)].size + g[V \ {Some(V)}]
  BY <1>3 DEF Sums
<1>5. V # {} /\ Some(V) \in V
  BY <1>3, <1>4, SomeIn
<1>6. V \ {Some(V)} \in bad
  BY <1>3, <1>4, <1>5
<1> QED BY <1>2, <1>5, <1>6

LEMMA SumsExist ==
    ASSUME NEW h, NEW S, IsFiniteSet(S)
    PROVE  \E g : Sums(g, h, S)
<1> DEFINE bad == {V \in SUBSET S : ~ \E g : Sums(g, h, V)}
<1>1. SUFFICES ASSUME bad # {} PROVE FALSE
  OBVIOUS
<1>2. PICK V \in bad : \A W \in bad : W \subseteq V => W = V
  <2>1. bad \subseteq SUBSET S
    OBVIOUS
  <2> HIDE DEF bad
  <2> QED BY <1>1, <2>1, LeastSet
<1>3. V \subseteq S /\ ~ \E g : Sums(g, h, V)
  OBVIOUS
<1>4. \A W \in SUBSET V : IsFiniteSet(W) /\ (W # V => \E g : Sums(g, h, W))
  BY <1>2, FS_Subset
<1> DEFINE of(W) == CHOOSE g : Sums(g, h, W)
           rest(W) == W \ {Some(W)}
           all == [W \in SUBSET V |-> IF W = {} THEN 0 ELSE h[Some(W)].size + of(rest(W))[rest(W)]]
<1>5. \A W \in SUBSET V : W # V => Sums(of(W), h, W)
  BY <1>4
<1>6. \A W \in SUBSET V : W # {} => rest(W) \in SUBSET V /\ rest(W) # V /\ rest(W) \subseteq W
  BY SomeIn
<1>7. ASSUME NEW W \in SUBSET V, W # V PROVE all[W] = of(W)[W]
  <2>1. of(W)[W] = IF W = {} THEN 0 ELSE h[Some(W)].size + of(W)[rest(W)]
    <3>1. Sums(of(W), h, W)
      BY <1>5, <1>7
    <3> HIDE DEF of
    <3> QED BY <3>1, SumsAt, ZenonT(60)
  <2>2. all[W] = IF W = {} THEN 0 ELSE h[Some(W)].size + of(rest(W))[rest(W)]
    OBVIOUS
  <2>3. CASE W = {}
    BY <2>1, <2>2, <2>3
  <2>4. CASE W # {}
    <3>1. Sums(of(W), h, W) /\ Sums(of(rest(W)), h, rest(W))
      BY <1>5, <1>6, <1>7, <2>4
    <3>2. rest(W) \subseteq W /\ IsFiniteSet(W)
      BY <1>4, <1>6, <2>4
    <3> HIDE DEF all, of, rest
    <3>3. of(W)[rest(W)] = of(rest(W))[rest(W)]
      BY <3>1, <3>2, SumsAgree
    <3> QED BY <2>1, <2>2, <2>4, <3>3
  <2> QED BY <2>3, <2>4
<1>8. Sums(all, h, V)
  <2>1. ASSUME NEW W \in SUBSET V, W # {} PROVE of(rest(W))[rest(W)] = all[rest(W)]
    <3> HIDE DEF all, of
    <3> QED BY <1>6, <1>7, <2>1
  <2>2. all = [W \in SUBSET V |-> IF W = {} THEN 0 ELSE h[Some(W)].size + all[rest(W)]]
    <3> DEFINE with(W) == IF W = {} THEN 0 ELSE h[Some(W)].size + all[rest(W)]
               with_of(W) == IF W = {} THEN 0 ELSE h[Some(W)].size + of(rest(W))[rest(W)]
    <3>1. \A W \in SUBSET V : with_of(W) = with(W)
      <4> HIDE DEF all, of, rest
      <4> QED BY <2>1
    <3>2. all = [W \in SUBSET V |-> with_of(W)]
      OBVIOUS
    <3>3. all = [W \in SUBSET V |-> with(W)]
      <4> HIDE DEF all, with, with_of
      <4> QED BY <3>1, <3>2
    <3> QED BY <3>3
  <2> HIDE DEF all, of
  <2> QED BY <2>2, Zenon DEF Sums
<1> QED BY <1>3, <1>8

LEMMA TotalStep ==
    ASSUME NEW h, NEW S, IsFiniteSet(S)
    PROVE  Total(h, S) = IF S = {} THEN 0 ELSE h[Some(S)].size + Total(h, S \ {Some(S)})
<1> DEFINE of(W) == CHOOSE g : Sums(g, h, W)
           rest == S \ {Some(S)}
<1>1. Sums(of(S), h, S) /\ IsFiniteSet(rest) /\ Sums(of(rest), h, rest)
  BY SumsExist, FS_Subset
<1>2. Total(h, S) = of(S)[S] /\ Total(h, rest) = of(rest)[rest]
  BY TotalIs
<1>3. of(S)[S] = IF S = {} THEN 0 ELSE h[Some(S)].size + of(S)[rest]
  BY <1>1 DEF Sums
<1>4. of(S)[rest] = of(rest)[rest]
  <2>1. rest \subseteq S
    OBVIOUS
  <2> HIDE DEF of, rest
  <2> QED BY <1>1, <2>1, SumsAgree
<1> HIDE DEF of
<1> QED BY <1>2, <1>3, <1>4

LEMMA TotalInt ==
    ASSUME NEW h, NEW S, IsFiniteSet(S), \A c \in S : h[c].size \in Int
    PROVE  Total(h, S) \in Int
<1> DEFINE bad == {V \in SUBSET S : Total(h, V) \notin Int}
<1>1. SUFFICES ASSUME bad # {} PROVE FALSE
  OBVIOUS
<1>2. PICK V \in bad : \A W \in bad : W \subseteq V => W = V
  <2>1. bad \subseteq SUBSET S
    OBVIOUS
  <2> HIDE DEF bad
  <2> QED BY <1>1, <2>1, LeastSet
<1>3. V \subseteq S /\ Total(h, V) \notin Int /\ IsFiniteSet(V)
  BY FS_Subset
<1>4. Total(h, V) = IF V = {} THEN 0 ELSE h[Some(V)].size + Total(h, V \ {Some(V)})
  BY <1>3, TotalStep
<1>5. V # {} /\ Some(V) \in V
  BY <1>3, <1>4, SomeIn
<1>6. V \ {Some(V)} \in bad
  BY <1>3, <1>4, <1>5
<1> QED BY <1>2, <1>5, <1>6

\* Whichever chunk is taken out first.
LEMMA TotalWithout ==
    ASSUME NEW h, NEW S, IsFiniteSet(S), \A c \in S : h[c].size \in Int, NEW x \in S
    PROVE  Total(h, S) = h[x].size + Total(h, S \ {x})
<1> DEFINE bad == {V \in SUBSET S : \E y \in V : Total(h, V) # h[y].size + Total(h, V \ {y})}
<1>1. SUFFICES ASSUME bad # {} PROVE FALSE
  OBVIOUS
<1>2. PICK V \in bad : \A W \in bad : W \subseteq V => W = V
  <2>1. bad \subseteq SUBSET S
    OBVIOUS
  <2> HIDE DEF bad
  <2> QED BY <1>1, <2>1, LeastSet
<1>3. PICK y \in V : Total(h, V) # h[y].size + Total(h, V \ {y})
  OBVIOUS
<1> DEFINE z == Some(V)
<1>4. z \in V /\ Total(h, V) = h[z].size + Total(h, V \ {z})
  BY TotalStep, SomeIn, FS_Subset
<1>5. z # y
  BY <1>3, <1>4
<1>6. V \ {z} \notin bad /\ V \ {y} \notin bad
  BY <1>2, <1>4
<1>7. Total(h, V \ {z}) = h[y].size + Total(h, (V \ {z}) \ {y})
  BY <1>3, <1>4, <1>5, <1>6
<1>8. Total(h, V \ {y}) = h[z].size + Total(h, (V \ {y}) \ {z})
  BY <1>3, <1>4, <1>5, <1>6
<1>9. (V \ {z}) \ {y} = (V \ {y}) \ {z}
  OBVIOUS
<1>10. h[y].size \in Int /\ h[z].size \in Int /\ Total(h, (V \ {z}) \ {y}) \in Int
  <2>1. \A c \in (V \ {z}) \ {y} : h[c].size \in Int
    OBVIOUS
  <2>2. IsFiniteSet((V \ {z}) \ {y})
    BY FS_Subset
  <2>3. h[y].size \in Int /\ h[z].size \in Int
    BY <1>3, <1>4
  <2> HIDE DEF z
  <2> QED BY <2>1, <2>2, <2>3, TotalInt
<1> HIDE DEF z, bad
<1>11. Total(h, V \ {y}) = h[z].size + Total(h, (V \ {z}) \ {y})
  BY <1>8, <1>9, Zenon
<1>12. \A a, b, c \in Int : a + (b + c) = b + (a + c)
  OBVIOUS
<1>13. Total(h, V) = h[z].size + (h[y].size + Total(h, (V \ {z}) \ {y}))
  BY <1>4, <1>7, Zenon
<1>14. Total(h, V) = h[y].size + (h[z].size + Total(h, (V \ {z}) \ {y}))
  BY <1>10, <1>12, <1>13, Zenon
<1> QED BY <1>3, <1>11, <1>14, Zenon

LEMMA TotalNone == \A h : Total(h, {}) = 0
BY TotalStep, FS_EmptySet

LEMMA TotalWith ==
    ASSUME NEW h, NEW S, IsFiniteSet(S), NEW x, x \notin S, \A c \in S \cup {x} : h[c].size \in Int
    PROVE  Total(h, S \cup {x}) = h[x].size + Total(h, S)
<1>1. IsFiniteSet(S \cup {x}) /\ (S \cup {x}) \ {x} = S
  BY FS_AddElement
<1> QED BY <1>1, TotalWithout

\* Only the sizes of the chunks in the set matter.
LEMMA TotalSame ==
    ASSUME NEW h, NEW k, NEW S, IsFiniteSet(S), \A c \in S : h[c].size = k[c].size
    PROVE  Total(h, S) = Total(k, S)
<1> DEFINE bad == {V \in SUBSET S : Total(h, V) # Total(k, V)}
<1>1. SUFFICES ASSUME bad # {} PROVE FALSE
  OBVIOUS
<1>2. PICK V \in bad : \A W \in bad : W \subseteq V => W = V
  <2>1. bad \subseteq SUBSET S
    OBVIOUS
  <2> HIDE DEF bad
  <2> QED BY <1>1, <2>1, LeastSet
<1>3. V \subseteq S /\ Total(h, V) # Total(k, V) /\ IsFiniteSet(V)
  BY FS_Subset
<1>4. /\ Total(h, V) = IF V = {} THEN 0 ELSE h[Some(V)].size + Total(h, V \ {Some(V)})
      /\ Total(k, V) = IF V = {} THEN 0 ELSE k[Some(V)].size + Total(k, V \ {Some(V)})
  BY <1>3, TotalStep
<1>5. V # {} /\ Some(V) \in V
  BY <1>3, <1>4, SomeIn
<1>6. V \ {Some(V)} \in bad
  BY <1>3, <1>4, <1>5
<1> QED BY <1>2, <1>5, <1>6

-----------------------------------------------------------------------------
(* A page cut up into chunks *)

\* The chunks of page p, whose size is n, cut it up exactly.
Tile(S, h, p, n) ==
    /\ \A c \in S : c.page = p =>
           c.offset >= PageHeaderSize /\ h[c].size >= HeaderSize /\ c.offset + h[c].size <= n
    /\ \A c, d \in S : c.page = p /\ d.page = p /\ c # d =>
           c.offset + h[c].size <= d.offset \/ d.offset + h[d].size <= c.offset
    /\ \A u \in PageHeaderSize .. n - 1 :
           \E c \in S : c.page = p /\ c.offset <= u /\ u < c.offset + h[c].size

\* What chunks and their sizes are.
Sized(S, h) == S \subseteq Chunks /\ \A c \in S : h[c].size \in Nat

LEMMA TileSame ==
    ASSUME NEW S, NEW T, NEW h, NEW k, NEW p, NEW n, Tile(S, h, p, n),
           \A c \in S \cup T : c.page = p => (c \in S <=> c \in T) /\ h[c].size = k[c].size
    PROVE  Tile(T, k, p, n)
BY DEF Tile

LEMMA TileWhole ==
    ASSUME NEW S, NEW h, NEW p, NEW n \in Nat, NEW x \in S, Sized(S, h),
           \A c \in S : c.page = p <=> c = x,
           x.offset = PageHeaderSize, h[x].size = n - PageHeaderSize, h[x].size >= HeaderSize
    PROVE  Tile(S, h, p, n)
BY ManagerOK DEF Tile, Sized, Chunks

\* The back of chunk x becomes chunk y.
LEMMA TileSplit ==
    ASSUME NEW S, NEW h, NEW k, NEW p, NEW n \in Nat, NEW x \in S, NEW y,
           Sized(S, h), Sized(S \cup {y}, k), Tile(S, h, p, n),
           x.page = p, y.page = p, y \notin S,
           y.offset = x.offset + k[x].size, k[x].size + k[y].size = h[x].size,
           k[x].size >= HeaderSize, k[y].size >= HeaderSize,
           \A c \in S \ {x} : k[c].size = h[c].size
    PROVE  Tile(S \cup {y}, k, p, n)
<1> DEFINE T == S \cup {y}
<1>1. \A c \in S \cup {y} : c.offset \in Nat /\ k[c].size \in Nat /\ (c \in S => h[c].size \in Nat)
  BY DEF Sized, Chunks
<1>2. ASSUME NEW c \in T, c.page = p
      PROVE  c.offset >= PageHeaderSize /\ k[c].size >= HeaderSize /\ c.offset + k[c].size <= n
  BY <1>1, <1>2, ManagerOK DEF Tile
<1>3. ASSUME NEW c \in T, NEW d \in T, c.page = p, d.page = p, c # d
      PROVE  c.offset + k[c].size <= d.offset \/ d.offset + k[d].size <= c.offset
  BY <1>1, <1>3, ManagerOK DEF Tile
<1>4. ASSUME NEW u \in PageHeaderSize .. n - 1
      PROVE  \E c \in T : c.page = p /\ c.offset <= u /\ u < c.offset + k[c].size
  <2>1. PICK c \in S : c.page = p /\ c.offset <= u /\ u < c.offset + h[c].size
    BY DEF Tile
  <2> QED BY <1>1, <2>1, ManagerOK
<1> QED BY <1>2, <1>3, <1>4 DEF Tile

\* Chunk x takes in chunk y behind it.
LEMMA TileJoin ==
    ASSUME NEW S, NEW h, NEW k, NEW p, NEW n \in Nat, NEW x \in S, NEW y \in S,
           Sized(S, h), Sized(S \ {y}, k), Tile(S, h, p, n),
           x.page = p, y.page = p, x # y,
           x.offset + h[x].size = y.offset, k[x].size = h[x].size + h[y].size,
           \A c \in S \ {x, y} : k[c].size = h[c].size
    PROVE  Tile(S \ {y}, k, p, n)
<1> DEFINE T == S \ {y}
<1>1. \A c \in S : c.offset \in Nat /\ h[c].size \in Nat /\ (c # y => k[c].size \in Nat)
  BY DEF Sized, Chunks
<1>2. ASSUME NEW c \in T, c.page = p
      PROVE  c.offset >= PageHeaderSize /\ k[c].size >= HeaderSize /\ c.offset + k[c].size <= n
  BY <1>1, <1>2, ManagerOK DEF Tile
<1>3. ASSUME NEW c \in T, NEW d \in T, c.page = p, d.page = p, c # d
      PROVE  c.offset + k[c].size <= d.offset \/ d.offset + k[d].size <= c.offset
  BY <1>1, <1>3, ManagerOK DEF Tile
<1>4. ASSUME NEW u \in PageHeaderSize .. n - 1
      PROVE  \E c \in T : c.page = p /\ c.offset <= u /\ u < c.offset + k[c].size
  <2>1. PICK c \in S : c.page = p /\ c.offset <= u /\ u < c.offset + h[c].size
    BY DEF Tile
  <2> QED BY <1>1, <2>1, ManagerOK
<1> QED BY <1>2, <1>3, <1>4 DEF Tile

LEMMA UnitsOf ==
    ASSUME NEW a \in Nat, NEW b \in Nat, a <= b
    PROVE  IsFiniteSet(a .. b - 1) /\ Cardinality(a .. b - 1) = b - a
<1>1. PICK c \in Int : c = b - 1
  OBVIOUS
<1>2. IsFiniteSet(a .. c) /\ Cardinality(a .. c) = IF a > c THEN 0 ELSE c - a + 1
  BY FS_Interval
<1> QED BY <1>1, <1>2

\* What the chunks of a page that is cut up exactly add up to.
LEMMA TotalOfPage ==
    ASSUME NEW S, IsFiniteSet(S), NEW h, NEW p, NEW n \in Nat, n >= PageHeaderSize,
           Sized(S, h), Tile(S, h, p, n)
    PROVE  Total(h, {c \in S : c.page = p}) = n - PageHeaderSize
<1> DEFINE of == {c \in S : c.page = p}
           covered(U) == {u \in PageHeaderSize .. n - 1 : \E c \in U : c.offset <= u /\ u < c.offset + h[c].size}
           bad == {U \in SUBSET of : Cardinality(covered(U)) # Total(h, U)}
<1>1. IsFiniteSet(of) /\ \A c \in of : c.offset \in Nat /\ h[c].size \in Nat
  BY FS_Subset DEF Sized, Chunks
<1>2. IsFiniteSet(PageHeaderSize .. n - 1) /\ Cardinality(PageHeaderSize .. n - 1) = n - PageHeaderSize
  BY UnitsOf, ManagerOK
<1>3. ASSUME bad # {} PROVE FALSE
  <2>1. PICK V \in bad : \A W \in bad : W \subseteq V => W = V
    <3>1. bad \subseteq SUBSET of
      OBVIOUS
    <3> HIDE DEF bad, of
    <3> QED BY <1>1, <1>3, <3>1, LeastSet
  <2>2. V \subseteq of /\ Cardinality(covered(V)) # Total(h, V) /\ IsFiniteSet(V)
    BY <1>1, FS_Subset
  <2>3. V # {}
    <3>1. covered({}) = {}
      OBVIOUS
    <3> HIDE DEF covered
    <3> QED BY <2>2, <3>1, TotalNone, FS_EmptySet
  <2>4. PICK x \in V : TRUE
    BY <2>3
  <2> DEFINE W == V \ {x}
             part == x.offset .. x.offset + h[x].size - 1
  <2>5. W \notin bad /\ W \subseteq of
    BY <2>1, <2>2
  <2>6. Cardinality(covered(W)) = Total(h, W)
    BY <2>5
  <2>7. Total(h, V) = h[x].size + Total(h, W)
    <3>1. \A c \in V : h[c].size \in Int
      BY <1>1, <2>2
    <3> QED BY <2>2, <3>1, TotalWithout
  <2>8. x \in S /\ x.page = p /\ x.offset \in Nat /\ h[x].size \in Nat
    BY <1>1, <2>2
  <2>9. x.offset >= PageHeaderSize /\ x.offset + h[x].size <= n
    BY <2>8 DEF Tile
  <2>10. covered(V) = covered(W) \cup part
    <3>1. part \subseteq PageHeaderSize .. n - 1
      BY <2>8, <2>9, ManagerOK
    <3>2. \A u \in part : x.offset <= u /\ u < x.offset + h[x].size
      BY <2>8
    <3>3. \A u \in PageHeaderSize .. n - 1 : x.offset <= u /\ u < x.offset + h[x].size => u \in part
      BY <2>8, ManagerOK
    <3>4. V = W \cup {x}
      OBVIOUS
    <3> HIDE DEF part, W
    <3> QED BY <3>1, <3>2, <3>3, <3>4
  <2>11. covered(W) \cap part = {}
    <3> SUFFICES ASSUME NEW u \in PageHeaderSize .. n - 1, NEW c \in W, u \in part,
                        c.offset <= u, u < c.offset + h[c].size
                 PROVE  FALSE
      OBVIOUS
    <3>1. c \in S /\ c.page = p /\ c # x /\ c.offset \in Nat /\ h[c].size \in Nat
      BY <1>1, <2>2
    <3>2. c.offset + h[c].size <= x.offset \/ x.offset + h[x].size <= c.offset
      BY <2>8, <3>1 DEF Tile
    <3> QED BY <2>8, <3>1, <3>2, ManagerOK
  <2>12. IsFiniteSet(part) /\ Cardinality(part) = h[x].size
    <3>1. PICK a \in Nat, b \in Nat : a = x.offset /\ b = x.offset + h[x].size /\ a <= b /\ b - a = h[x].size
      BY <2>8
    <3>2. IsFiniteSet(a .. b - 1) /\ Cardinality(a .. b - 1) = b - a
      BY <3>1, UnitsOf
    <3> QED BY SMTT(30), <3>1, <3>2
  <2>13. IsFiniteSet(covered(W))
    <3>1. covered(W) \subseteq PageHeaderSize .. n - 1
      OBVIOUS
    <3> HIDE DEF covered
    <3> QED BY <1>2, <3>1, FS_Subset
  <2>14. Cardinality(covered(V)) = Cardinality(covered(W)) + h[x].size
    <3> HIDE DEF covered, W, part
    <3>1. Cardinality(covered(W) \cup part) = Cardinality(covered(W)) + Cardinality(part) - Cardinality({})
      BY <2>11, <2>12, <2>13, FS_Union
    <3>2. Cardinality(covered(W)) \in Nat
      BY <2>13, FS_CardinalityType
    <3> QED BY <2>8, <2>10, <2>12, <3>1, <3>2, FS_EmptySet
  <2>15. Cardinality(covered(W)) \in Nat
    <3> HIDE DEF covered, W
    <3> QED BY <2>13, FS_CardinalityType
  <2> HIDE DEF covered, W
  <2> QED BY <2>2, <2>6, <2>7, <2>8, <2>14, <2>15
<1>4. of \notin bad
  BY <1>3
<1>5. Cardinality(covered(of)) = Total(h, of)
  BY <1>4
<1>6. covered(of) = PageHeaderSize .. n - 1
  BY DEF Tile
<1> HIDE DEF covered, of
<1>7. Cardinality(covered(of)) = n - PageHeaderSize
  BY <1>2, <1>6, Zenon
<1>8. Total(h, of) = n - PageHeaderSize
  BY <1>5, <1>7
<1> QED BY <1>8 DEF of

-----------------------------------------------------------------------------
(* The list without the chunks of a page *)

NoTwice(s) == \A i, j \in DOMAIN s : s[i] = s[j] => i = j

\* The chunks that leave the list s with page slot i.
Leaving(s, i) == {k \in DOMAIN s : header[s[k]].page_index = i}

\* The recursive function of Dropped, from position n on.
Drops(g, s, i, n) ==
    g = [k \in n .. Len(s) + 1 |->
            IF k > Len(s) THEN s
            ELSE IF header[s[k]].page_index = i THEN RemoveIndex(g[k + 1], k)
            ELSE g[k + 1]]

LEMMA DroppedIs ==
    ASSUME NEW s, NEW i
    PROVE  Dropped(s, i) = (CHOOSE g : Drops(g, s, i, 1))[1]
BY DEF Dropped, Drops

LEMMA DropsExist ==
    ASSUME NEW s \in Seq(Chunks), NEW i
    PROVE  \E g : Drops(g, s, i, 1)
<1> DEFINE n == Len(s)
           bad == {m \in 0 .. n : ~ \E g : Drops(g, s, i, n + 1 - m)}
<1>0. n \in Nat
  OBVIOUS
<1>1. ASSUME bad # {} PROVE FALSE
  <2>1. PICK m \in bad : \A k \in bad : m <= k
    <3>1. bad \subseteq 0 .. n
      OBVIOUS
    <3> HIDE DEF bad, n
    <3> QED BY <1>0, <1>1, <3>1, LeastNumber
  <2>2. m \in 0 .. n /\ ~ \E g : Drops(g, s, i, n + 1 - m)
    OBVIOUS
  <2>3. m # 0
    <3>1. Drops([k \in n + 1 .. n + 1 |-> s], s, i, n + 1)
      BY <1>0 DEF Drops
    <3> QED BY <1>0, <2>2, <3>1
  <2>4. PICK g : Drops(g, s, i, n + 1 - (m - 1))
    BY <1>0, <2>1, <2>2, <2>3
  <2> DEFINE at == n + 1 - m
             all == [k \in at .. n + 1 |->
                        IF k = at
                        THEN IF header[s[k]].page_index = i THEN RemoveIndex(g[k + 1], k) ELSE g[k + 1]
                        ELSE g[k]]
  <2>5. at \in 1 .. n /\ n + 1 - (m - 1) = at + 1
    BY <1>0, <2>2, <2>3
  <2>6. \A k \in at + 1 .. n + 1 :
            g[k] = IF k > n THEN s
                   ELSE IF header[s[k]].page_index = i THEN RemoveIndex(g[k + 1], k) ELSE g[k + 1]
    BY <2>4, <2>5 DEF Drops
  <2>7. \A k \in at .. n + 1 : k # at => all[k] = g[k]
    OBVIOUS
  <2>8. ASSUME NEW k \in at .. n + 1
        PROVE  all[k] = IF k > n THEN s
                        ELSE IF header[s[k]].page_index = i THEN RemoveIndex(all[k + 1], k) ELSE all[k + 1]
    <3>1. CASE k = at
      <4>1. k + 1 \in at .. n + 1 /\ k + 1 # at /\ ~ (k > n)
        BY <1>0, <2>5, <3>1
      <4>2. all[k + 1] = g[k + 1]
        BY <2>7, <4>1
      <4>3. all[k] = IF header[s[k]].page_index = i THEN RemoveIndex(g[k + 1], k) ELSE g[k + 1]
        BY <3>1
      <4> HIDE DEF all
      <4> QED BY <4>1, <4>2, <4>3
    <3>2. CASE k # at
      <4>1. k \in at + 1 .. n + 1
        BY <1>0, <2>5, <3>2
      <4>2. k <= n => all[k + 1] = g[k + 1]
        BY <1>0, <2>5, <2>7, <4>1
      <4>3. all[k] = g[k]
        BY <2>7, <3>2
      <4> HIDE DEF all, at
      <4> QED BY <1>0, <2>6, <4>1, <4>2, <4>3
    <3> QED BY <3>1, <3>2
  <2>9. Drops(all, s, i, at)
    <3> DEFINE with(k) == IF k > n THEN s
                          ELSE IF header[s[k]].page_index = i THEN RemoveIndex(all[k + 1], k) ELSE all[k + 1]
    <3>1. \A k \in at .. n + 1 : all[k] = with(k)
      BY <2>8
    <3>2. all = [k \in at .. n + 1 |-> all[k]]
      OBVIOUS
    <3>3. all = [k \in at .. n + 1 |-> with(k)]
      <4> HIDE DEF all, with, at
      <4> QED BY <3>1, <3>2
    <3> HIDE DEF all, at
    <3> QED BY <3>3 DEF Drops
  <2> HIDE DEF all
  <2> QED BY <2>2, <2>9
<1>2. n \notin bad
  BY <1>1
<1> QED BY <1>0, <1>2

LEMMA RemoveIndexIs ==
    ASSUME NEW s \in Seq(Chunks), NEW k \in DOMAIN s
    PROVE  /\ RemoveIndex(s, k) \in Seq(Chunks)
           /\ Len(RemoveIndex(s, k)) = Len(s) - 1
           /\ \A j \in 1 .. Len(s) - 1 : RemoveIndex(s, k)[j] = IF j = k THEN s[Len(s)] ELSE s[j]
<1>1. Len(s) \in Nat /\ Len(s) > 0 /\ DOMAIN s = 1 .. Len(s) /\ \A j \in 1 .. Len(s) : s[j] \in Chunks
  OBVIOUS
<1>2. \A j \in 1 .. Len(s) - 1 : (IF j = k THEN s[Len(s)] ELSE s[j]) \in Chunks
  BY <1>1
<1>3. Len(s) - 1 \in Nat
  BY <1>1
<1>4. RemoveIndex(s, k) \in [1 .. Len(s) - 1 -> Chunks]
  BY <1>2 DEF RemoveIndex
<1>5. RemoveIndex(s, k) \in Seq(Chunks) /\ Len(RemoveIndex(s, k)) = Len(s) - 1
  BY <1>3, <1>4, SeqDef, LenProperties
<1> QED BY <1>5 DEF RemoveIndex

\* A vector without one element holds the others, in whatever places.
LEMMA RemoveIndexKeeps ==
    ASSUME NEW s \in Seq(Chunks), NoTwice(s), NEW k \in DOMAIN s
    PROVE  /\ NoTwice(RemoveIndex(s, k))
           /\ ToSet(RemoveIndex(s, k)) = ToSet(s) \ {s[k]}
<1> DEFINE n == Len(s)
           t == RemoveIndex(s, k)
<1>1. n \in Nat /\ n > 0 /\ DOMAIN s = 1 .. n /\ k \in 1 .. n
  OBVIOUS
<1>2. DOMAIN t = 1 .. n - 1 /\ \A j \in 1 .. n - 1 : t[j] = IF j = k THEN s[n] ELSE s[j]
  BY <1>1, RemoveIndexIs DEF RemoveIndex
<1>3. \A i, j \in 1 .. n : s[i] = s[j] => i = j
  BY <1>1 DEF NoTwice
<1> HIDE DEF n, t
<1>4. NoTwice(t)
  <2> SUFFICES ASSUME NEW i \in 1 .. n - 1, NEW j \in 1 .. n - 1, t[i] = t[j] PROVE i = j
    BY <1>2 DEF NoTwice
  <2>1. i \in 1 .. n /\ j \in 1 .. n /\ n \in 1 .. n /\ i # n /\ j # n
    BY <1>1
  <2> QED BY <1>2, <1>3, <2>1
<1>5. ASSUME NEW c \in ToSet(t) PROVE c \in ToSet(s) /\ c # s[k]
  <2>1. PICK j \in 1 .. n - 1 : c = t[j]
    BY <1>2, <1>5 DEF ToSet
  <2>2. j \in 1 .. n /\ n \in 1 .. n /\ j # n
    BY <1>1
  <2> QED BY <1>1, <1>2, <1>3, <2>1, <2>2 DEF ToSet
<1>6. ASSUME NEW c \in ToSet(s), c # s[k] PROVE c \in ToSet(t)
  <2>1. PICK j \in 1 .. n : c = s[j]
    BY <1>1 DEF ToSet
  <2>2. j # k
    BY <1>6, <2>1
  <2>3. CASE j = n
    <3>1. k \in 1 .. n - 1 /\ t[k] = s[n]
      BY <1>1, <1>2, <2>2, <2>3
    <3> QED BY <1>2, <2>1, <2>3, <3>1 DEF ToSet
  <2>4. CASE j # n
    <3>1. j \in 1 .. n - 1
      BY <1>1, <2>4
    <3> QED BY <1>2, <2>1, <2>2, <3>1 DEF ToSet
  <2> QED BY <2>3, <2>4
<1>7. s[k] \in Chunks
  BY <1>1
<1> QED BY <1>4, <1>5, <1>6 DEF t

\* What leaves the list from position k on.
LeavingFrom(s, i, k) == {j \in Leaving(s, i) : j >= k}

LEMMA DroppedKeeps ==
    ASSUME NEW s \in Seq(Chunks), NoTwice(s), NEW i
    PROVE  /\ Dropped(s, i) \in Seq(Chunks)
           /\ NoTwice(Dropped(s, i))
           /\ ToSet(Dropped(s, i)) = ToSet(s) \ {s[k] : k \in Leaving(s, i)}
           /\ Len(Dropped(s, i)) = Len(s) - Cardinality(Leaving(s, i))
<1> DEFINE n == Len(s)
           g == CHOOSE f : Drops(f, s, i, 1)
           left(k) == {s[j] : j \in LeavingFrom(s, i, k)}
           good(k) ==
               /\ g[k] \in Seq(Chunks) /\ Len(g[k]) >= k - 1 /\ NoTwice(g[k])
               /\ \A j \in 1 .. k - 1 : g[k][j] = s[j]
               /\ ToSet(g[k]) = ToSet(s) \ left(k)
               /\ Len(g[k]) = n - Cardinality(LeavingFrom(s, i, k))
           bad == {m \in 0 .. n : ~ good(n + 1 - m)}
<1>0. n \in Nat /\ DOMAIN s = 1 .. n
  OBVIOUS
<1>1. \A k \in 1 .. n + 1 :
          g[k] = IF k > n THEN s
                 ELSE IF header[s[k]].page_index = i THEN RemoveIndex(g[k + 1], k) ELSE g[k + 1]
  <2>1. Drops(g, s, i, 1)
    BY DropsExist
  <2> HIDE DEF g
  <2> QED BY <2>1 DEF Drops
<1>2. IsFiniteSet(1 .. n) /\ \A k \in 1 .. n + 1 : IsFiniteSet(LeavingFrom(s, i, k))
  <2>1. IsFiniteSet(1 .. n)
    BY <1>0, FS_Interval
  <2>2. \A k \in 1 .. n + 1 : LeavingFrom(s, i, k) \subseteq 1 .. n
    BY <1>0 DEF LeavingFrom, Leaving
  <2> QED BY <2>1, <2>2, FS_Subset
<1> HIDE DEF g
<1>3. good(n + 1)
  <2>1. g[n + 1] = s
    BY <1>0, <1>1
  <2>2. LeavingFrom(s, i, n + 1) = {}
    BY <1>0 DEF LeavingFrom, Leaving
  <2>3. Cardinality(LeavingFrom(s, i, n + 1)) = 0 /\ left(n + 1) = {}
    BY <2>2, FS_EmptySet
  <2>4. /\ s \in Seq(Chunks) /\ n >= (n + 1) - 1 /\ NoTwice(s) /\ \A j \in 1 .. (n + 1) - 1 : s[j] = s[j]
        /\ n = n - 0
    BY <1>0
  <2>5. ToSet(s) = ToSet(s) \ left(n + 1)
    BY <2>3
  <2> HIDE DEF left
  <2> QED BY <2>1, <2>3, <2>4, <2>5
<1>4. ASSUME NEW k \in 1 .. n, good(k + 1) PROVE good(k)
  <2>1. Len(g[k + 1]) \in Nat /\ Len(g[k + 1]) >= k /\ k \in DOMAIN g[k + 1] /\ g[k + 1][k] = s[k] /\ g[k + 1] \in Seq(Chunks)
    BY <1>0, <1>4
  <2>2. CASE header[s[k]].page_index = i
    <3>1. g[k] = RemoveIndex(g[k + 1], k)
      BY <1>0, <1>1, <2>2
    <3>2. /\ LeavingFrom(s, i, k) = LeavingFrom(s, i, k + 1) \cup {k}
          /\ k \notin LeavingFrom(s, i, k + 1)
      BY <1>0, <2>2 DEF LeavingFrom, Leaving
    <3>3. left(k) = left(k + 1) \cup {s[k]}
      BY <3>2
    <3>4. Cardinality(LeavingFrom(s, i, k)) = Cardinality(LeavingFrom(s, i, k + 1)) + 1
      <4>1. IsFiniteSet(LeavingFrom(s, i, k + 1))
        BY <1>0, <1>2
      <4> QED BY <3>2, <4>1, FS_AddElement
    <3>5. Cardinality(LeavingFrom(s, i, k + 1)) \in Nat
      BY <1>0, <1>2, FS_CardinalityType
    <3>6. NoTwice(g[k]) /\ ToSet(g[k]) = ToSet(g[k + 1]) \ {s[k]}
      BY <1>4, <2>1, <3>1, RemoveIndexKeeps
    <3>7. /\ g[k] \in Seq(Chunks) /\ Len(g[k]) = Len(g[k + 1]) - 1
          /\ \A j \in 1 .. Len(g[k + 1]) - 1 : g[k][j] = IF j = k THEN g[k + 1][Len(g[k + 1])] ELSE g[k + 1][j]
      <4>1. PICK t : t = g[k + 1]
        OBVIOUS
      <4>2. t \in Seq(Chunks) /\ k \in DOMAIN t
        BY <2>1, <4>1
      <4>3. /\ RemoveIndex(t, k) \in Seq(Chunks) /\ Len(RemoveIndex(t, k)) = Len(t) - 1
            /\ \A j \in 1 .. Len(t) - 1 : RemoveIndex(t, k)[j] = IF j = k THEN t[Len(t)] ELSE t[j]
        BY <4>2, RemoveIndexIs
      <4> QED BY <3>1, <4>1, <4>3, Zenon
    <3>8. \A j \in 1 .. k - 1 : g[k][j] = s[j]
      BY <1>0, <1>4, <2>1, <3>7
    <3>9. ToSet(g[k]) = ToSet(s) \ left(k)
      <4> HIDE DEF left
      <4> QED BY <1>4, <3>3, <3>6
    <3>10. Len(g[k]) = n - Cardinality(LeavingFrom(s, i, k))
      BY <1>0, <1>4, <2>1, <3>4, <3>5, <3>7
    <3> HIDE DEF left, n
    <3> QED BY SMTT(30), <2>1, <3>6, <3>7, <3>8, <3>9, <3>10
  <2>3. CASE header[s[k]].page_index # i
    <3>1. g[k] = g[k + 1]
      BY <1>0, <1>1, <2>3
    <3>2. LeavingFrom(s, i, k) = LeavingFrom(s, i, k + 1)
      BY <1>0, <2>3 DEF LeavingFrom, Leaving
    <3> QED BY <1>0, <1>4, <2>1, <3>1, <3>2
  <2> QED BY <2>2, <2>3
<1>5. bad = {}
  <2> SUFFICES ASSUME bad # {} PROVE FALSE
    OBVIOUS
  <2>1. PICK m \in bad : \A k \in bad : m <= k
    <3>1. bad \subseteq 0 .. n
      OBVIOUS
    <3> HIDE DEF bad, n
    <3> QED BY <1>0, <3>1, LeastNumber
  <2> HIDE DEF good
  <2>2. m \in 0 .. n /\ ~ good(n + 1 - m)
    OBVIOUS
  <2>3. m # 0
    BY <1>0, <1>3, <2>2
  <2>4. n + 1 - m \in 1 .. n /\ (n + 1 - m) + 1 = n + 1 - (m - 1) /\ m - 1 \in 0 .. n /\ ~ (m <= m - 1)
    BY <1>0, <2>2, <2>3
  <2>5. good(n + 1 - (m - 1))
    BY <2>1, <2>4
  <2>6. good((n + 1 - m) + 1)
    BY <2>4, <2>5
  <2> QED BY <1>4, <2>2, <2>4, <2>6
<1>6. good(1)
  <2> HIDE DEF good
  <2>1. n \in 0 .. n /\ n + 1 - n = 1
    BY <1>0
  <2> QED BY <1>5, <2>1
<1>7. LeavingFrom(s, i, 1) = Leaving(s, i)
  BY <1>0 DEF LeavingFrom, Leaving
<1>8. Dropped(s, i) = g[1]
  BY DroppedIs DEF g
<1> QED BY <1>6, <1>7, <1>8

-----------------------------------------------------------------------------
(* The list of free chunks *)

LEMMA ToSetFinite ==
    ASSUME NEW s \in Seq(Chunks)
    PROVE  /\ IsFiniteSet(ToSet(s)) /\ ToSet(s) \subseteq Chunks
           /\ NoTwice(s) => Cardinality(ToSet(s)) = Len(s)
<1>1. PICK n \in Nat : n = Len(s) /\ DOMAIN s = 1 .. n /\ \A i \in 1 .. n : s[i] \in Chunks
  OBVIOUS
<1>2. ToSet(s) \subseteq Chunks /\ s \in [1 .. n -> ToSet(s)] /\ \A c \in ToSet(s) : \E i \in 1 .. n : s[i] = c
  BY <1>1 DEF ToSet
<1>3. s \in Surjection(1 .. n, ToSet(s))
  BY <1>2 DEF Surjection
<1>4. IsFiniteSet(1 .. n) /\ Cardinality(1 .. n) = n
  BY UnitsOf, FS_Interval
<1>5. IsFiniteSet(ToSet(s)) /\ (Cardinality(ToSet(s)) = Cardinality(1 .. n) <=> s \in Injection(1 .. n, ToSet(s)))
  BY <1>3, <1>4, FS_Surjection
<1>6. NoTwice(s) => s \in Injection(1 .. n, ToSet(s))
  BY <1>1, <1>2 DEF NoTwice, Injection, IsInjective
<1> QED BY <1>1, <1>2, <1>4, <1>5, <1>6

Put(s, k, y) == [s EXCEPT ![k] = y]

LEMMA ReplaceKeeps ==
    ASSUME NEW s \in Seq(Chunks), NEW k \in DOMAIN s, NEW y \in Chunks
    PROVE  /\ Put(s, k, y) \in Seq(Chunks) /\ Len(Put(s, k, y)) = Len(s)
           /\ NoTwice(s) /\ y \notin ToSet(s) =>
                  NoTwice(Put(s, k, y)) /\ ToSet(Put(s, k, y)) = (ToSet(s) \ {s[k]}) \cup {y}
<1> DEFINE t == Put(s, k, y)
<1>1. t \in Seq(Chunks) /\ Len(t) = Len(s) /\ DOMAIN t = DOMAIN s
  BY DEF Put
<1>2. \A j \in DOMAIN s : t[j] = IF j = k THEN y ELSE s[j]
  BY DEF Put
<1> HIDE DEF t
<1>3. ASSUME NoTwice(s), y \notin ToSet(s)
      PROVE  NoTwice(t) /\ ToSet(t) = (ToSet(s) \ {s[k]}) \cup {y}
  <2>1. \A j \in DOMAIN s : s[j] # y
    BY <1>3 DEF ToSet
  <2>2. NoTwice(t)
    BY <1>1, <1>2, <1>3, <2>1 DEF NoTwice
  <2>3. ToSet(t) = {t[j] : j \in DOMAIN s} /\ ToSet(s) = {s[j] : j \in DOMAIN s}
    BY <1>1 DEF ToSet
  <2>4. \A c \in ToSet(t) : c \in (ToSet(s) \ {s[k]}) \cup {y}
    BY <1>2, <1>3, <2>3 DEF NoTwice
  <2>5. \A c \in (ToSet(s) \ {s[k]}) \cup {y} : c \in ToSet(t)
    BY <1>2, <2>3
  <2> QED BY <2>2, <2>4, <2>5
<1> QED BY <1>1, <1>3 DEF t

LEMMA AppendKeeps ==
    ASSUME NEW s \in Seq(Chunks), NEW y \in Chunks, NEW t, t = Append(s, y)
    PROVE  /\ t \in Seq(Chunks) /\ Len(t) = Len(s) + 1 /\ t[Len(t)] = y
           /\ ToSet(t) = ToSet(s) \cup {y}
           /\ NoTwice(s) /\ y \notin ToSet(s) => NoTwice(t)
<1>1. t \in Seq(Chunks) /\ Len(t) = Len(s) + 1 /\ t[Len(t)] = y
  OBVIOUS
<1>2. PICK n \in Nat : n = Len(s)
  OBVIOUS
<1>3. DOMAIN s = 1 .. n /\ DOMAIN t = 1 .. n + 1 /\ \A j \in 1 .. n + 1 : t[j] = IF j = n + 1 THEN y ELSE s[j]
  BY <1>2
<1>4. ToSet(t) = ToSet(s) \cup {y}
  <2>1. ToSet(t) = {t[j] : j \in 1 .. n + 1} /\ ToSet(s) = {s[j] : j \in 1 .. n}
    BY <1>3 DEF ToSet
  <2>2. 1 .. n + 1 = (1 .. n) \cup {n + 1} /\ n + 1 \notin 1 .. n
    OBVIOUS
  <2> HIDE <1>1, <1>2
  <2> QED BY <1>3, <2>1, <2>2
<1>5. ASSUME NoTwice(s), y \notin ToSet(s) PROVE NoTwice(t)
  <2>1. \A j \in 1 .. n : s[j] # y
    BY <1>3, <1>5 DEF ToSet
  <2>2. \A i, j \in 1 .. n : s[i] = s[j] => i = j
    BY <1>3, <1>5 DEF NoTwice
  <2>3. \A j \in 1 .. n + 1 : j = n + 1 \/ j \in 1 .. n
    OBVIOUS
  <2> SUFFICES ASSUME NEW i \in 1 .. n + 1, NEW j \in 1 .. n + 1, t[i] = t[j] PROVE i = j
    BY <1>3 DEF NoTwice
  <2> QED BY <1>3, <2>1, <2>2, <2>3
<1> QED BY <1>1, <1>4, <1>5

-----------------------------------------------------------------------------
(* The inductive invariant *)

PagesIn(ph) == {p \in Pages : ph[p].size # 0}

Types ==
    /\ m_default_page_size \in Nat /\ m_domain \in Nat
    /\ allocations \in 0 .. MaxAllocations /\ page_count \in 0 .. allocations
    /\ m_pages \in [Slots -> Pages \cup {Null}]
    /\ \A i \in 0 .. page_count - 1 : m_pages[i] \in Pages
    /\ m_frees \in Seq(Chunks)
    /\ page_header \in [Pages -> PageHeaders]
    /\ DOMAIN header \subseteq Chunks /\ header \in [DOMAIN header -> Headers]
    /\ m_statistics \in Statistics
    /\ live \subseteq Chunks /\ IsFiniteSet(live)
    /\ sound \in BOOLEAN /\ corrupted \in BOOLEAN

\* L the chunks outside of the list f of free ones: no chunk is in two places,
\* and those in a page that is allocated have a header, whose slot was used.
Listed(L, f, h, ph, pages) ==
    /\ L \cap ToSet(f) = {} /\ NoTwice(f)
    /\ L \subseteq DOMAIN h /\ DOMAIN h \subseteq L \cup ToSet(f)
    /\ \A c \in L \cup ToSet(f) : c \in DOMAIN h <=> ph[c.page].size # 0
    /\ \A c \in DOMAIN h : h[c].size >= HeaderSize /\ h[c].page_index \in Slots /\ pages[h[c].page_index] \in Pages

Figured(L, f, h, ph, figures) ==
    /\ figures.allocation_used = Cardinality(L)
    /\ figures.allocation_unused = Len(f)
    /\ figures.page_allocated = Cardinality(PagesIn(ph))
    /\ figures.memory_used = Total(h, L) + PageHeaderSize * Cardinality(PagesIn(ph))

Cut(S, h, ph) ==
    /\ \A c \in S : ph[c.page].size # 0
    /\ \A p \in PagesIn(ph) : ph[p].size > PageHeaderSize /\ Tile(S, h, p, ph[p].size)

\* The slot in the header of a chunk is that of its page.
InSlots(S, h, ph, pages, count) ==
    /\ PagesIn(ph) = {pages[i] : i \in 0 .. count - 1}
    /\ \A i, j \in 0 .. count - 1 : pages[i] = pages[j] => i = j
    /\ \A c \in S : h[c].page_index < count /\ pages[h[c].page_index] = c.page

LiveIn(L, p) == {c \in L : c.page = p}

Counted(L, ph) ==
    \A p \in PagesIn(ph) :
        ph[p].allocation_count = Cardinality(LiveIn(L, p)) /\ ph[p].allocation_count > 0

Summed(ph, figures) == figures.memory_allocated = Total(ph, PagesIn(ph))

Inv ==
    /\ Types
    /\ ~corrupted =>
           /\ Listed(live, m_frees, header, page_header, m_pages)
           /\ Figured(live, m_frees, header, page_header, m_statistics)
    /\ sound =>
           /\ ~corrupted
           /\ Cut(live \cup Frees, header, page_header)
           /\ InSlots(live \cup Frees, header, page_header, m_pages, page_count)
           /\ Counted(live, page_header)
           /\ Summed(page_header, m_statistics)

-----------------------------------------------------------------------------
(* Records *)

LEMMA HeadersIs ==
    ASSUME NEW h \in Headers
    PROVE  /\ h.size \in Nat /\ h.page_index \in Nat /\ h.domain \in Nat
           /\ \A d, n \in Nat : [h EXCEPT !.domain = d, !.size = n] \in Headers
           /\ \A d, n \in Nat : [h EXCEPT !.domain = d, !.size = n].size = n
           /\ \A d, n \in Nat : [h EXCEPT !.domain = d, !.size = n].page_index = h.page_index
           /\ \A n \in Nat : [h EXCEPT !.size = n] \in Headers
           /\ \A n \in Nat : [h EXCEPT !.size = n].size = n
           /\ \A n \in Nat : [h EXCEPT !.size = n].page_index = h.page_index
BY DEF Headers

FigureNames == {"memory_allocated", "memory_used", "page_allocated", "allocation_used",
                "allocation_unused", "domains_allocated"}

LEMMA StatisticsAre ==
    ASSUME NEW m
    PROVE  m \in Statistics <=>
               /\ m = [x \in FigureNames |-> m[x]]
               /\ m.memory_allocated \in Int /\ m.memory_used \in Int /\ m.page_allocated \in Int
               /\ m.allocation_used \in Int /\ m.allocation_unused \in Int
               /\ m.domains_allocated \in Seq(Int)
BY DEF Statistics, FigureNames

LEMMA ChargedIs ==
    ASSUME NEW f \in Seq(Int), NEW d \in Nat, NEW n \in Int
    PROVE  Charged(f, d, n) \in Seq(Int)
<1>1. PICK k \in Nat : k = Len(f) /\ DOMAIN f = 1 .. k /\ \A j \in 1 .. k : f[j] \in Int
  OBVIOUS
<1>2. PICK t : t = [f EXCEPT ![d + 1] = @ + n]
  OBVIOUS
<1>3. /\ t = [j \in 1 .. k |-> t[j]]
      /\ \A j \in 1 .. k : t[j] = IF j = d + 1 THEN f[j] + n ELSE f[j]
  <2> HIDE DEF Charged
  <2>1. DOMAIN f = 1 .. k
    BY <1>1
  <2> QED BY <1>2, <2>1, Zenon
<1>4. \A j \in 1 .. k : t[j] \in Int
  BY <1>1, <1>3
<1>5. t \in [1 .. k -> Int]
  BY <1>3, <1>4, Zenon
<1> QED BY <1>1, <1>2, <1>5, SeqDef DEF Charged

\* What an allocation makes of the figures, and what a new page does.
AllocatedIn(m, u, b, v, d) ==
    [m EXCEPT !.allocation_used = u, !.memory_used = b, !.allocation_unused = v, !.domains_allocated = d]

LEMMA FiguresOfCarve ==
    ASSUME NEW m \in Statistics, NEW u, NEW b, NEW v, NEW d, NEW s, s = AllocatedIn(m, u, b, v, d)
    PROVE  /\ s.allocation_used = u /\ s.memory_used = b /\ s.allocation_unused = v
           /\ s.domains_allocated = d /\ s.memory_allocated = m.memory_allocated
           /\ s.page_allocated = m.page_allocated
           /\ s = [x \in FigureNames |-> s[x]]
<1>1. DOMAIN m = FigureNames
  BY StatisticsAre
<1> QED BY <1>1, Zenon DEF AllocatedIn, FigureNames

PageIn(m, a, b, q, v) ==
    [m EXCEPT !.memory_allocated = a, !.memory_used = b, !.page_allocated = q, !.allocation_unused = v]

LEMMA FiguresOfPage ==
    ASSUME NEW m \in Statistics, NEW a, NEW b, NEW q, NEW v, NEW s, s = PageIn(m, a, b, q, v)
    PROVE  /\ s.memory_allocated = a /\ s.memory_used = b /\ s.page_allocated = q
           /\ s.allocation_unused = v /\ s.allocation_used = m.allocation_used
           /\ s.domains_allocated = m.domains_allocated
           /\ s = [x \in FigureNames |-> s[x]]
<1>1. DOMAIN m = FigureNames
  BY StatisticsAre
<1> QED BY <1>1, Zenon DEF PageIn, FigureNames

\* What giving back an allocation makes of them, a page included.
ReturnedIn(m, u, b, d) == [m EXCEPT !.allocation_used = u, !.memory_used = b, !.domains_allocated = d]

LEMMA FiguresOfReturn ==
    ASSUME NEW m \in Statistics, NEW u, NEW b, NEW d, NEW s, s = ReturnedIn(m, u, b, d)
    PROVE  /\ s.allocation_used = u /\ s.memory_used = b /\ s.domains_allocated = d
           /\ s.memory_allocated = m.memory_allocated /\ s.page_allocated = m.page_allocated
           /\ s.allocation_unused = m.allocation_unused
           /\ s = [x \in FigureNames |-> s[x]]
<1>1. DOMAIN m = FigureNames
  BY StatisticsAre
<1> QED BY <1>1, Zenon DEF ReturnedIn, FigureNames

JoinedIn(m, v) == [m EXCEPT !.allocation_unused = v]

LEMMA FiguresOfJoin ==
    ASSUME NEW m \in Statistics, NEW v, NEW s, s = JoinedIn(m, v)
    PROVE  /\ s.allocation_used = m.allocation_used /\ s.memory_used = m.memory_used
           /\ s.domains_allocated = m.domains_allocated
           /\ s.memory_allocated = m.memory_allocated /\ s.page_allocated = m.page_allocated
           /\ s.allocation_unused = v
           /\ s = [x \in FigureNames |-> s[x]]
<1>1. DOMAIN m = FigureNames
  BY StatisticsAre
<1> QED BY <1>1, Zenon DEF JoinedIn, FigureNames

\* One more allocation in the page with slot o, or one less.
CountsIn(ph, o, d) == [ph EXCEPT ![o].allocation_count = @ + d]

LEMMA CountIs ==
    ASSUME NEW ph \in [Pages -> PageHeaders], NEW o, NEW d \in Int,
           NEW new, new = CountsIn(ph, o, d)
    PROVE  /\ new \in [Pages -> PageHeaders]
           /\ \A p \in Pages : new[p].size = ph[p].size
           /\ \A p \in Pages : new[p].allocation_count =
                  IF p = o THEN ph[p].allocation_count + d ELSE ph[p].allocation_count
           /\ PagesIn(new) = PagesIn(ph)
<1>1. new = [ph EXCEPT ![o] = [ph[o] EXCEPT !.allocation_count = @ + d]]
  BY DEF CountsIn
<1>2. \A p \in Pages : new[p] = IF p = o THEN [ph[p] EXCEPT !.allocation_count = @ + d] ELSE ph[p]
  BY <1>1
<1>3. \A p \in Pages : ph[p] \in PageHeaders
  OBVIOUS
<1>4. DOMAIN new = Pages /\ new = [p \in Pages |-> new[p]]
  BY <1>1
<1> HIDE <1>1
<1>5. ASSUME NEW p \in Pages
      PROVE  /\ new[p] \in PageHeaders /\ new[p].size = ph[p].size
             /\ new[p].allocation_count = IF p = o THEN ph[p].allocation_count + d ELSE ph[p].allocation_count
  <2>1. PICK r : r = ph[p] /\ r \in PageHeaders
    BY <1>3
  <2>2. PICK q : q = [r EXCEPT !.allocation_count = @ + d]
    OBVIOUS
  <2>3. q \in PageHeaders /\ q.size = r.size /\ q.allocation_count = r.allocation_count + d
    BY <2>1, <2>2 DEF PageHeaders
  <2>4. new[p] = IF p = o THEN q ELSE r
    BY <1>2, <2>1, <2>2, Zenon
  <2> HIDE <2>2
  <2> QED BY <2>1, <2>3, <2>4
<1> QED BY <1>4, <1>5 DEF PagesIn

-----------------------------------------------------------------------------
(* allocate *)

\* The names of Carve: the chunk s starts from is cut behind n units when what
\* is left is larger than a header, and taken whole when not.
Rest(s, n) == s.header[s.chunk].size - n
Splits(s, n) == s.index # 0 /\ Rest(s, n) > HeaderSize
Taken(s, n) == IF s.index # 0 /\ ~Splits(s, n) THEN s.header[s.chunk].size ELSE n
Behind(s, n) == [page |-> s.chunk.page, offset |-> s.chunk.offset + n]
New(s, n) == IF Splits(s, n) THEN {Behind(s, n)} ELSE {}

Unlisted(s) == IF s.index = 0 THEN {s.chunk} ELSE {}
AllOf(s) == (live \cup Unlisted(s)) \cup ToSet(s.frees)

\* What Carve may start from: a state as the invariant has it, but for the
\* chunk that is about to be allocated.
Start(s, n) ==
    /\ s.frees \in Seq(Chunks)
    /\ s.count \in 0 .. allocations + 1 /\ s.pages \in [Slots -> Pages \cup {Null}]
    /\ \A i \in 0 .. s.count - 1 : s.pages[i] \in Pages
    /\ s.page_header \in [Pages -> PageHeaders]
    /\ DOMAIN s.header \subseteq Chunks /\ s.header \in [DOMAIN s.header -> Headers]
    /\ s.statistics \in Statistics
    /\ s.chunk \in DOMAIN s.header /\ s.chunk \notin live
    /\ s.header[s.chunk].size >= n
    /\ IF s.index = 0 THEN s.chunk \notin ToSet(s.frees) /\ s.header[s.chunk].size = n
       ELSE s.index \in DOMAIN s.frees /\ s.frees[s.index] = s.chunk
    /\ \A c \in live : s.header[c] = header[c]
    /\ Listed(live \cup Unlisted(s), s.frees, s.header, s.page_header, s.pages)
    /\ Figured(live, s.frees, s.header, s.page_header, s.statistics)
    /\ sound =>
           /\ Cut(AllOf(s), s.header, s.page_header)
           /\ InSlots(AllOf(s), s.header, s.page_header, s.pages, s.count)
           /\ \A p \in PagesIn(s.page_header) :
                  /\ s.page_header[p].allocation_count = Cardinality(LiveIn(live, p))
                  /\ s.page_header[p].allocation_count > 0 \/ p = s.chunk.page
           /\ Summed(s.page_header, s.statistics)

LEMMA CarveSizes ==
    ASSUME NEW s, NEW n \in Nat, Start(s, n), n >= HeaderSize
    PROVE  /\ s.chunk \in Chunks /\ s.chunk.page \in Pages /\ s.chunk.offset \in Nat
           /\ s.header[s.chunk] \in Headers /\ s.header[s.chunk].size \in Nat
           /\ Rest(s, n) \in Nat /\ Taken(s, n) \in Nat
           /\ Taken(s, n) >= HeaderSize /\ Taken(s, n) <= s.header[s.chunk].size
           /\ ~Splits(s, n) => Taken(s, n) = s.header[s.chunk].size
           /\ Splits(s, n) => /\ Taken(s, n) = n /\ s.index # 0 /\ Rest(s, n) > HeaderSize
                              /\ Taken(s, n) + Rest(s, n) = s.header[s.chunk].size
           /\ Behind(s, n) \in Chunks /\ Behind(s, n) = [s.chunk EXCEPT !.offset = @ + n]
           /\ Behind(s, n) # s.chunk
<1>1. s.chunk \in Chunks /\ s.header[s.chunk] \in Headers /\ s.header[s.chunk].size >= n
  BY DEF Start
<1>2. s.chunk.page \in Pages /\ s.chunk.offset \in Nat /\ s.header[s.chunk].size \in Nat
  BY <1>1 DEF Chunks, Headers
<1>3. Rest(s, n) \in Nat
  BY <1>1, <1>2 DEF Rest
<1>4. s.index = 0 => s.header[s.chunk].size = n
  BY DEF Start
<1>5. Behind(s, n) \in Chunks /\ Behind(s, n) = [s.chunk EXCEPT !.offset = @ + n]
  BY <1>1, <1>2 DEF Behind, Chunks
<1>6. Behind(s, n) # s.chunk
  BY <1>2, ManagerOK DEF Behind
<1> QED BY <1>1, <1>2, <1>3, <1>4, <1>5, <1>6, ManagerOK DEF Splits, Taken, Rest

LEMMA CarveLists ==
    ASSUME NEW s, NEW n \in Nat, Start(s, n), n >= HeaderSize, Carve(s, n)
    PROVE  /\ m_frees' \in Seq(Chunks)
           /\ Len(m_frees') = Len(s.frees) - (IF s.index # 0 /\ ~Splits(s, n) THEN 1 ELSE 0)
           /\ Behind(s, n) \notin ToSet(s.frees) \/ ~Splits(s, n) =>
                  NoTwice(m_frees') /\ ToSet(m_frees') = (ToSet(s.frees) \ {s.chunk}) \cup New(s, n)
<1>1. m_frees' = IF Splits(s, n) THEN [s.frees EXCEPT ![s.index] = Behind(s, n)]
                 ELSE IF s.index # 0 THEN RemoveIndex(s.frees, s.index) ELSE s.frees
  BY CarveSizes, Zenon DEF Carve, Splits, Rest
<1>2. s.frees \in Seq(Chunks) /\ NoTwice(s.frees)
  BY DEF Start, Listed
<1>3. Behind(s, n) \in Chunks
  BY CarveSizes
<1>4. CASE Splits(s, n)
  <2>1. s.index \in DOMAIN s.frees /\ s.frees[s.index] = s.chunk
    BY <1>4 DEF Start, Splits
  <2>2. PICK f, k : f = s.frees /\ k = s.index
    OBVIOUS
  <2>3. m_frees' = Put(f, k, Behind(s, n))
    BY <1>1, <1>4, <2>2, Zenon DEF Put
  <2>4. /\ m_frees' \in Seq(Chunks) /\ Len(m_frees') = Len(f)
        /\ Behind(s, n) \notin ToSet(f) => NoTwice(m_frees') /\ ToSet(m_frees') = (ToSet(f) \ {f[k]}) \cup {Behind(s, n)}
    BY <1>2, <1>3, <2>1, <2>2, <2>3, ReplaceKeeps
  <2>5. New(s, n) = {Behind(s, n)}
    BY <1>4 DEF New
  <2>6. Len(f) \in Nat
    BY <1>2, <2>2
  <2> HIDE <2>3, <1>1
  <2> QED BY <1>4, <2>1, <2>2, <2>4, <2>5, <2>6
<1>5. CASE ~Splits(s, n) /\ s.index # 0
  <2>1. s.index \in DOMAIN s.frees /\ s.frees[s.index] = s.chunk
    BY <1>5 DEF Start
  <2>2. PICK f, k : f = s.frees /\ k = s.index
    OBVIOUS
  <2>3. m_frees' = RemoveIndex(f, k)
    BY <1>1, <1>5, <2>2, Zenon
  <2>4. /\ m_frees' \in Seq(Chunks) /\ Len(m_frees') = Len(f) - 1
        /\ NoTwice(m_frees') /\ ToSet(m_frees') = ToSet(f) \ {f[k]}
    BY <1>2, <2>1, <2>2, <2>3, RemoveIndexIs, RemoveIndexKeeps
  <2>5. New(s, n) = {}
    BY <1>5 DEF New
  <2> HIDE <2>3, <1>1
  <2> QED BY <1>5, <2>1, <2>2, <2>4, <2>5
<1>6. CASE s.index = 0
  <2>1. ~Splits(s, n) /\ New(s, n) = {}
    BY <1>6 DEF Splits, New
  <2>2. m_frees' = s.frees /\ s.chunk \notin ToSet(s.frees)
    BY <1>1, <1>6, <2>1 DEF Start
  <2>3. Len(s.frees) \in Nat
    BY <1>2
  <2> QED BY <1>2, <1>6, <2>1, <2>2, <2>3
<1> QED BY <1>4, <1>5, <1>6

LEMMA CarveHeaders ==
    ASSUME NEW s, NEW n \in Nat, Start(s, n), n >= HeaderSize, m_domain \in Nat, Carve(s, n)
    PROVE  /\ DOMAIN header' = DOMAIN s.header \cup New(s, n)
           /\ header' \in [DOMAIN header' -> Headers]
           /\ header'[s.chunk].size = Taken(s, n)
           /\ header'[s.chunk].page_index = s.header[s.chunk].page_index
           /\ \A c \in New(s, n) :
                  header'[c].size = Rest(s, n) /\ header'[c].page_index = s.header[s.chunk].page_index
           /\ \A c \in DOMAIN s.header : c # s.chunk /\ c \notin New(s, n) => header'[c] = s.header[c]
<1> DEFINE h == s.header[s.chunk]
           d == m_domain % DomainWord
           value(c) == IF c = s.chunk THEN [h EXCEPT !.domain = d, !.size = Taken(s, n)]
                       ELSE IF Splits(s, n) /\ c = Behind(s, n) THEN [h EXCEPT !.size = Rest(s, n)]
                       ELSE s.header[c]
<1>1. header' = [c \in DOMAIN s.header \cup New(s, n) |-> value(c)]
  <2>1. Behind(s, n) = [s.chunk EXCEPT !.offset = @ + n]
    BY CarveSizes
  <2> QED BY <2>1, Zenon DEF Carve, Splits, Rest, Taken, New
<1>2. d \in Nat /\ Rest(s, n) \in Nat /\ Taken(s, n) \in Nat /\ h \in Headers /\ Behind(s, n) # s.chunk
  BY CarveSizes, ManagerOK
<1>3. PICK r, q : /\ r = [h EXCEPT !.domain = d, !.size = Taken(s, n)]
                  /\ q = [h EXCEPT !.size = Rest(s, n)]
  OBVIOUS
<1>4. /\ r \in Headers /\ r.size = Taken(s, n) /\ r.page_index = h.page_index
      /\ q \in Headers /\ q.size = Rest(s, n) /\ q.page_index = h.page_index
  <2> HIDE DEF d, h
  <2>1. /\ \A e, m \in Nat : [h EXCEPT !.domain = e, !.size = m] \in Headers
        /\ \A e, m \in Nat : [h EXCEPT !.domain = e, !.size = m].size = m
        /\ \A e, m \in Nat : [h EXCEPT !.domain = e, !.size = m].page_index = h.page_index
    BY <1>2, HeadersIs, Zenon
  <2>2. /\ \A m \in Nat : [h EXCEPT !.size = m] \in Headers
        /\ \A m \in Nat : [h EXCEPT !.size = m].size = m
        /\ \A m \in Nat : [h EXCEPT !.size = m].page_index = h.page_index
    BY <1>2, HeadersIs, Zenon
  <2>3. r \in Headers /\ r.size = Taken(s, n) /\ r.page_index = h.page_index
    BY <1>2, <1>3, <2>1, Zenon
  <2>4. q \in Headers /\ q.size = Rest(s, n) /\ q.page_index = h.page_index
    BY <1>2, <1>3, <2>2, Zenon
  <2> QED BY <2>3, <2>4
<1>5. \A c : value(c) = IF c = s.chunk THEN r ELSE IF c \in New(s, n) THEN q ELSE s.header[c]
  <2>1. \A c : c \in New(s, n) <=> Splits(s, n) /\ c = Behind(s, n)
    BY DEF New
  <2> QED BY <1>3, <2>1, Zenon
<1>6. s.chunk \in DOMAIN s.header /\ s.header \in [DOMAIN s.header -> Headers] /\ s.chunk \notin New(s, n)
  BY <1>2 DEF Start, New
<1> HIDE <1>3 DEF value
<1>7. DOMAIN header' = DOMAIN s.header \cup New(s, n)
      /\ \A c \in DOMAIN s.header \cup New(s, n) : header'[c] = value(c)
  BY <1>1
<1>8. \A c \in DOMAIN s.header \cup New(s, n) : value(c) \in Headers
  BY <1>4, <1>5, <1>6
<1>9. header' \in [DOMAIN header' -> Headers]
  BY <1>1, <1>7, <1>8
<1> HIDE <1>1
<1> QED BY <1>4, <1>5, <1>6, <1>7, <1>9

OwnerOf(s) == s.pages[s.header[s.chunk].page_index]

LEMMA CarveCounts ==
    ASSUME NEW s, NEW n \in Nat, Start(s, n), n >= HeaderSize, m_domain \in Nat, Carve(s, n)
    PROVE  /\ m_pages' = s.pages /\ page_count' = s.count /\ live' = live \cup {s.chunk}
           /\ page_header' \in [Pages -> PageHeaders]
           /\ \A p \in Pages : page_header'[p].size = s.page_header[p].size
           /\ \A p \in Pages : page_header'[p].allocation_count =
                  IF p = OwnerOf(s) THEN s.page_header[p].allocation_count + 1
                  ELSE s.page_header[p].allocation_count
           /\ PagesIn(page_header') = PagesIn(s.page_header)
<1>1. m_pages' = s.pages /\ page_count' = s.count /\ live' = live \cup {s.chunk}
  BY Zenon DEF Carve
<1>2. page_header' = [s.page_header EXCEPT ![OwnerOf(s)].allocation_count = @ + 1]
  BY Zenon DEF Carve, OwnerOf
<1>3. PICK ph, new : ph = s.page_header /\ new = CountsIn(ph, OwnerOf(s), 1)
  OBVIOUS
<1>4. page_header' = new
  BY <1>2, <1>3, Zenon DEF CountsIn
<1>5. ph \in [Pages -> PageHeaders]
  BY <1>3 DEF Start
<1>6. /\ new \in [Pages -> PageHeaders]
      /\ \A p \in Pages : new[p].size = ph[p].size
      /\ \A p \in Pages : new[p].allocation_count =
             IF p = OwnerOf(s) THEN ph[p].allocation_count + 1 ELSE ph[p].allocation_count
      /\ PagesIn(new) = PagesIn(ph)
  <2> HIDE <1>2
  <2> QED BY <1>3, <1>5, CountIs
<1>7. ph = s.page_header
  BY <1>3
<1> QED BY <1>1, <1>4, <1>6, <1>7, Zenon

LEMMA CarveFigures ==
    ASSUME NEW s, NEW n \in Nat, Start(s, n), n >= HeaderSize, m_domain \in Nat, Carve(s, n)
    PROVE  /\ m_statistics' \in Statistics
           /\ m_statistics'.allocation_used = s.statistics.allocation_used + 1
           /\ m_statistics'.memory_used = s.statistics.memory_used + Taken(s, n)
           /\ m_statistics'.allocation_unused =
                  s.statistics.allocation_unused - (IF s.index # 0 /\ ~Splits(s, n) THEN 1 ELSE 0)
           /\ m_statistics'.page_allocated = s.statistics.page_allocated
           /\ m_statistics'.memory_allocated = s.statistics.memory_allocated
<1>1. PICK m, u, b, v, d, new :
          /\ m = s.statistics /\ u = m.allocation_used + 1 /\ b = m.memory_used + Taken(s, n)
          /\ v = m.allocation_unused - (IF s.index # 0 /\ ~Splits(s, n) THEN 1 ELSE 0)
          /\ d = Charged(m.domains_allocated, m_domain % DomainWord, Taken(s, n))
          /\ new = AllocatedIn(m, u, b, v, d)
  BY Zenon
<1>2. m_statistics' =
          [s.statistics EXCEPT
              !.allocation_used = @ + 1, !.memory_used = @ + Taken(s, n),
              !.allocation_unused = @ - (IF s.index # 0 /\ ~Splits(s, n) THEN 1 ELSE 0),
              !.domains_allocated = Charged(@, m_domain % DomainWord, Taken(s, n))]
  BY Zenon DEF Carve, Splits, Rest, Taken
<1>3. m_statistics' = new
  BY <1>1, <1>2, Zenon DEF AllocatedIn
<1>4. m \in Statistics
  BY <1>1 DEF Start
<1>5. /\ new.allocation_used = u /\ new.memory_used = b /\ new.allocation_unused = v
      /\ new.domains_allocated = d /\ new.memory_allocated = m.memory_allocated
      /\ new.page_allocated = m.page_allocated
      /\ new = [x \in FigureNames |-> new[x]]
  <2> HIDE <1>2
  <2>1. new = AllocatedIn(m, u, b, v, d)
    BY <1>1
  <2> HIDE <1>1
  <2> QED BY <1>4, <2>1, FiguresOfCarve
<1>6. /\ m.memory_allocated \in Int /\ m.memory_used \in Int /\ m.page_allocated \in Int
      /\ m.allocation_used \in Int /\ m.allocation_unused \in Int /\ m.domains_allocated \in Seq(Int)
  BY <1>4, StatisticsAre
<1>7. m_domain % DomainWord \in Nat /\ Taken(s, n) \in Nat /\ Taken(s, n) \in Int
  BY CarveSizes, ManagerOK
<1>8. /\ m = s.statistics /\ u = m.allocation_used + 1 /\ b = m.memory_used + Taken(s, n)
      /\ v = m.allocation_unused - (IF s.index # 0 /\ ~Splits(s, n) THEN 1 ELSE 0)
      /\ d = Charged(m.domains_allocated, m_domain % DomainWord, Taken(s, n))
  BY <1>1
<1> HIDE <1>1, <1>2
<1>9. d \in Seq(Int)
  BY <1>6, <1>7, <1>8, ChargedIs
<1>10. u \in Int /\ b \in Int /\ v \in Int
  <2>1. PICK k \in Int : k = (IF s.index # 0 /\ ~Splits(s, n) THEN 1 ELSE 0)
    OBVIOUS
  <2>2. /\ \A i, j \in Int : i + j \in Int /\ i - j \in Int
        /\ 1 \in Int
    OBVIOUS
  <2>3. v = m.allocation_unused - k
    BY <1>8, <2>1, Zenon
  <2>4. u \in Int
    BY <1>6, <1>8, <2>2, Zenon
  <2>5. b \in Int
    BY <1>6, <1>7, <1>8, <2>2, Zenon
  <2>6. v \in Int
    BY <1>6, <2>1, <2>2, <2>3, Zenon
  <2> QED BY <2>4, <2>5, <2>6
<1>11. new \in Statistics
  BY <1>5, <1>6, <1>9, <1>10, StatisticsAre, Zenon
<1> QED BY <1>3, <1>5, <1>8, <1>11, Zenon

LEMMA CarveCorrupts ==
    ASSUME NEW s, NEW n \in Nat, Start(s, n), n >= HeaderSize, Carve(s, n)
    PROVE  corrupted' =
               \/ s.page_header[OwnerOf(s)].size = 0
               \/ s.chunk.offset + Taken(s, n) > s.page_header[s.chunk.page].size
               \/ Splits(s, n) /\ Behind(s, n) \in DOMAIN s.header
               \/ \E c \in live : Place(s.chunk, IF Splits(s, n) THEN n + HeaderSize ELSE Taken(s, n))
                                      \cap Place(c, header[c].size) # {}
<1>1. Behind(s, n) = [s.chunk EXCEPT !.offset = @ + n]
  BY CarveSizes
<1> QED BY <1>1, Zenon DEF Carve, OwnerOf, Splits, Rest, Taken

\* The header of what is left lies where no chunk was, or memory is corrupted.
LEMMA BehindIsNew ==
    ASSUME NEW s, NEW n \in Nat, Start(s, n), n >= HeaderSize, Carve(s, n), ~corrupted', Splits(s, n)
    PROVE  Behind(s, n) \notin DOMAIN s.header /\ Behind(s, n) \notin (live \cup Unlisted(s)) \cup ToSet(s.frees)
<1>1. Behind(s, n) \notin DOMAIN s.header
  BY CarveCorrupts
<1>2. Behind(s, n).page = s.chunk.page
  BY DEF Behind
<1>3. s.page_header[s.chunk.page].size # 0
  BY DEF Start, Listed
<1> QED BY <1>1, <1>2, <1>3 DEF Start, Listed

LEMMA StartSized ==
    ASSUME NEW s, NEW n \in Nat, Start(s, n), sound
    PROVE  /\ AllOf(s) \subseteq DOMAIN s.header /\ Sized(AllOf(s), s.header)
           /\ s.chunk \in AllOf(s) /\ DOMAIN s.header \subseteq AllOf(s)
           /\ s.chunk.page \in PagesIn(s.page_header)
           /\ OwnerOf(s) = s.chunk.page
           /\ s.page_header[s.chunk.page].size \in Nat
           /\ Tile(AllOf(s), s.header, s.chunk.page, s.page_header[s.chunk.page].size)
<1>1. AllOf(s) \subseteq DOMAIN s.header /\ DOMAIN s.header \subseteq AllOf(s)
  BY DEF Start, Listed, Cut, AllOf
<1>2. s.chunk \in AllOf(s) /\ DOMAIN s.header \subseteq Chunks /\ \A c \in DOMAIN s.header : s.header[c] \in Headers
  BY <1>1 DEF Start
<1>3. s.chunk.page \in Pages /\ s.page_header[s.chunk.page].size # 0
  BY <1>2 DEF Chunks, Start, Cut
<1>4. OwnerOf(s) = s.chunk.page
  BY <1>2 DEF Start, InSlots, OwnerOf
<1>5. Sized(AllOf(s), s.header)
  BY <1>1, <1>2 DEF Sized, Headers
<1>6. s.page_header[s.chunk.page] \in PageHeaders
  BY <1>3 DEF Start
<1> QED BY <1>1, <1>2, <1>3, <1>4, <1>5, <1>6 DEF PagesIn, PageHeaders, Start, Cut

LEMMA CarveSound ==
    ASSUME NEW s, NEW n \in Nat, Start(s, n), n >= HeaderSize, sound, Carve(s, n)
    PROVE  ~corrupted'
<1> DEFINE x == s.chunk
           h == s.header[x]
           y == Behind(s, n)
           size == s.page_header[x.page].size
           stored == IF Splits(s, n) THEN n + HeaderSize ELSE Taken(s, n)
<1>1. /\ AllOf(s) \subseteq DOMAIN s.header /\ DOMAIN s.header \subseteq AllOf(s) /\ Sized(AllOf(s), s.header)
      /\ x \in AllOf(s) /\ x.page \in PagesIn(s.page_header) /\ OwnerOf(s) = x.page
      /\ size \in Nat /\ Tile(AllOf(s), s.header, x.page, size)
  BY StartSized
<1>2. /\ x.offset \in Nat /\ h.size \in Nat /\ Taken(s, n) \in Nat /\ Taken(s, n) <= h.size
      /\ Splits(s, n) => Taken(s, n) = n /\ Rest(s, n) > HeaderSize /\ Taken(s, n) + Rest(s, n) = h.size /\ Rest(s, n) \in Nat
  BY CarveSizes
<1>3. \A c \in AllOf(s) : c.offset \in Nat /\ s.header[c].size \in Nat
  BY <1>1 DEF Sized, Chunks
<1>4. s.page_header[OwnerOf(s)].size # 0
  BY <1>1 DEF PagesIn
<1>5. ~ (x.offset + Taken(s, n) > size)
  <2>1. x.offset + h.size <= size
    BY <1>1 DEF Tile
  <2> QED BY <1>1, <1>2, <2>1
<1>6. ASSUME Splits(s, n), y \in DOMAIN s.header PROVE FALSE
  <2>1. y \in AllOf(s) /\ y.page = x.page /\ y # x /\ y.offset = x.offset + n
    BY <1>1, <1>6, CarveSizes DEF Behind
  <2>2. x.offset + h.size <= y.offset \/ y.offset + s.header[y].size <= x.offset
    BY <1>1, <2>1 DEF Tile
  <2>3. y.offset \in Nat /\ s.header[y].size \in Nat /\ s.header[y].size >= HeaderSize
    BY <1>1, <1>3, <2>1 DEF Tile
  <2> HIDE DEF x, y, h
  <2> QED BY <1>2, <1>6, <2>1, <2>2, <2>3, ManagerOK
<1>7. stored \in Nat /\ stored <= h.size
  BY <1>2, ManagerOK
<1>8. ASSUME NEW c \in live, Place(x, stored) \cap Place(c, header[c].size) # {} PROVE FALSE
  <2>1. c \in AllOf(s) /\ c # x /\ s.header[c] = header[c]
    BY DEF AllOf, Start
  <2>2. PICK u \in Place(x, stored) : u \in Place(c, header[c].size)
    BY <1>8
  <2>3. /\ u.page = x.page /\ u.offset \in x.offset .. x.offset + stored - 1
        /\ u.page = c.page /\ u.offset \in c.offset .. c.offset + s.header[c].size - 1
    BY <2>1, <2>2 DEF Place
  <2>4. x.offset + h.size <= c.offset \/ c.offset + s.header[c].size <= x.offset
    BY <1>1, <2>1, <2>3 DEF Tile
  <2>5. c.offset \in Nat /\ s.header[c].size \in Nat
    BY <1>3, <2>1
  <2> HIDE DEF x, h, stored
  <2> QED BY <1>2, <1>7, <2>3, <2>4, <2>5
<1> QED BY <1>4, <1>5, <1>6, <1>8, CarveCorrupts

\* The chunks after the allocation are those before, and what is left.
LEMMA CarveChunks ==
    ASSUME NEW s, NEW n \in Nat, Start(s, n), n >= HeaderSize, Carve(s, n), ~corrupted'
    PROVE  live' \cup Frees' = AllOf(s) \cup New(s, n)
<1>1. ToSet(m_frees') = (ToSet(s.frees) \ {s.chunk}) \cup New(s, n)
  BY CarveLists, BehindIsNew
<1>2. live' = live \cup {s.chunk}
  BY Zenon DEF Carve
<1>3. s.chunk \in AllOf(s)
  BY DEF Start, Listed, AllOf
<1>4. Frees' = ToSet(m_frees')
  BY DEF Frees
<1>5. Unlisted(s) \subseteq {s.chunk}
  BY DEF Unlisted
<1> QED BY <1>1, <1>2, <1>3, <1>4, <1>5 DEF AllOf

LEMMA CarveListed ==
    ASSUME NEW s, NEW n \in Nat, Start(s, n), n >= HeaderSize, m_domain \in Nat, Carve(s, n), ~corrupted'
    PROVE  Listed(live', m_frees', header', page_header', m_pages')
<1>1. /\ NoTwice(m_frees') /\ ToSet(m_frees') = (ToSet(s.frees) \ {s.chunk}) \cup New(s, n)
      /\ live' = live \cup {s.chunk} /\ m_pages' = s.pages
      /\ DOMAIN header' = DOMAIN s.header \cup New(s, n)
      /\ \A p \in Pages : page_header'[p].size = s.page_header[p].size
  BY CarveLists, CarveCounts, CarveHeaders, BehindIsNew
<1>2. \A c \in New(s, n) : /\ c \notin DOMAIN s.header /\ c \notin (live \cup Unlisted(s)) \cup ToSet(s.frees)
                           /\ c.page = s.chunk.page /\ c \in Chunks
  <2>1. New(s, n) = IF Splits(s, n) THEN {Behind(s, n)} ELSE {}
    BY DEF New
  <2>2. Behind(s, n).page = s.chunk.page /\ Behind(s, n) \in Chunks
    BY CarveSizes, Zenon DEF Behind
  <2>3. Splits(s, n) => /\ Behind(s, n) \notin DOMAIN s.header
                        /\ Behind(s, n) \notin (live \cup Unlisted(s)) \cup ToSet(s.frees)
    BY BehindIsNew
  <2> QED BY <2>1, <2>2, <2>3
<1>3. Unlisted(s) \subseteq {s.chunk} /\ s.chunk \notin live /\ s.chunk \in DOMAIN s.header
      /\ (s.chunk \in Unlisted(s) \/ s.chunk \in ToSet(s.frees))
  BY DEF Unlisted, Start, ToSet
<1>4. live' \cup ToSet(m_frees') = ((live \cup Unlisted(s)) \cup ToSet(s.frees)) \cup New(s, n)
  BY <1>1, <1>3
<1>5. live' \cap ToSet(m_frees') = {}
  BY <1>1, <1>2, <1>3 DEF Start, Listed
<1>6. live' \subseteq DOMAIN header' /\ DOMAIN header' \subseteq live' \cup ToSet(m_frees')
  BY <1>1, <1>3, <1>4 DEF Start, Listed
<1>7. s.page_header[s.chunk.page].size # 0 /\ live \cup Unlisted(s) \cup ToSet(s.frees) \subseteq Chunks
  <2>1. live \cup Unlisted(s) \subseteq DOMAIN s.header /\ DOMAIN s.header \subseteq Chunks /\ s.frees \in Seq(Chunks)
    BY DEF Start, Listed
  <2>2. ToSet(s.frees) \subseteq Chunks
    BY <2>1, ToSetFinite
  <2> QED BY <1>3, <2>1, <2>2 DEF Start, Listed
<1>8. ASSUME NEW c \in live' \cup ToSet(m_frees')
      PROVE  c \in DOMAIN header' <=> page_header'[c.page].size # 0
  <2>1. c.page \in Pages
    BY <1>2, <1>4, <1>7 DEF Chunks
  <2> QED BY <1>1, <1>2, <1>4, <1>7, <2>1 DEF Start, Listed
<1>9. ASSUME NEW c \in DOMAIN header'
      PROVE  /\ header'[c].size >= HeaderSize /\ header'[c].page_index \in Slots
             /\ m_pages'[header'[c].page_index] \in Pages
  <2>1. \A d \in DOMAIN s.header : /\ s.header[d].size >= HeaderSize /\ s.header[d].page_index \in Slots
                                   /\ s.pages[s.header[d].page_index] \in Pages
    BY DEF Start, Listed
  <2>2. CASE c = s.chunk
    BY <1>1, <1>3, <2>1, <2>2, CarveHeaders, CarveSizes
  <2>3. CASE c \in New(s, n)
    <3>1. header'[c].size = Rest(s, n) /\ header'[c].page_index = s.header[s.chunk].page_index
      BY <2>3, CarveHeaders
    <3>2. Rest(s, n) \in Nat /\ Rest(s, n) > HeaderSize
      BY <2>3, CarveSizes DEF New
    <3> QED BY <1>1, <1>3, <2>1, <3>1, <3>2, ManagerOK
  <2>4. CASE c # s.chunk /\ c \notin New(s, n)
    <3>1. c \in DOMAIN s.header /\ header'[c] = s.header[c]
      BY <1>1, <2>4, CarveHeaders
    <3> QED BY <1>1, <2>1, <3>1
  <2> QED BY <2>2, <2>3, <2>4
<1> QED BY <1>1, <1>5, <1>6, <1>8, <1>9 DEF Listed

LEMMA CarveCut ==
    ASSUME NEW s, NEW n \in Nat, Start(s, n), n >= HeaderSize, m_domain \in Nat, Carve(s, n), ~corrupted',
           sound
    PROVE  Cut(live' \cup Frees', header', page_header')
<1> DEFINE x == s.chunk
           y == Behind(s, n)
           S == AllOf(s)
           T == live' \cup Frees'
<1>1. /\ S \subseteq DOMAIN s.header /\ Sized(S, s.header) /\ x \in S /\ DOMAIN s.header \subseteq S
      /\ x.page \in PagesIn(s.page_header) /\ x \in DOMAIN s.header
  BY StartSized DEF Start
<1>2. T = S \cup New(s, n)
  BY CarveChunks
<1>3. PagesIn(page_header') = PagesIn(s.page_header) /\ \A p \in Pages : page_header'[p].size = s.page_header[p].size
  BY CarveCounts
<1>4. /\ DOMAIN header' = DOMAIN s.header \cup New(s, n)
      /\ header' \in [DOMAIN header' -> Headers]
      /\ header'[x].size = Taken(s, n)
      /\ \A c \in New(s, n) : header'[c].size = Rest(s, n)
      /\ \A c \in DOMAIN s.header : c # x /\ c \notin New(s, n) => header'[c] = s.header[c]
  BY CarveHeaders
<1>5. New(s, n) = IF Splits(s, n) THEN {y} ELSE {}
  BY DEF New
<1>6. Splits(s, n) => y \notin DOMAIN s.header
  BY BehindIsNew
<1>7. y.page = x.page /\ y.offset = x.offset + n /\ y \in Chunks
  BY CarveSizes, Zenon DEF Behind
<1>8. \A c \in S : c # x => header'[c].size = s.header[c].size
  BY <1>1, <1>4, <1>5, <1>6
<1>9. Sized(T, header')
  <2>1. T \subseteq Chunks
    BY <1>1, <1>2, <1>5, <1>7 DEF Sized
  <2>2. \A c \in T : header'[c] \in Headers
    BY <1>1, <1>2, <1>4
  <2> QED BY <2>1, <2>2 DEF Sized, Headers
<1>10. ASSUME NEW p \in PagesIn(s.page_header)
       PROVE  Tile(T, header', p, s.page_header[p].size)
  <2>1. Tile(S, s.header, p, s.page_header[p].size) /\ s.page_header[p].size \in Nat
    BY <1>10 DEF Start, Cut, PagesIn, PageHeaders
  <2>2. CASE p # x.page
    <3>1. \A c \in S \cup T : c.page = p => (c \in S <=> c \in T) /\ s.header[c].size = header'[c].size
      BY <1>2, <1>5, <1>7, <1>8, <2>2
    <3> HIDE DEF S, T
    <3> QED BY <2>1, <3>1, TileSame
  <2>3. CASE p = x.page /\ ~Splits(s, n)
    <3>1. Taken(s, n) = s.header[x].size
      BY <2>3, CarveSizes
    <3>2. \A c \in S \cup T : c.page = p => (c \in S <=> c \in T) /\ s.header[c].size = header'[c].size
      BY <1>2, <1>4, <1>5, <1>8, <2>3, <3>1
    <3> HIDE DEF S, T
    <3> QED BY <2>1, <3>2, TileSame
  <2>4. CASE p = x.page /\ Splits(s, n)
    <3>1. T = S \cup {y} /\ y \notin S
      BY <1>1, <1>2, <1>5, <1>6, <2>4
    <3>2. /\ Taken(s, n) = n /\ Taken(s, n) + Rest(s, n) = s.header[x].size
          /\ Taken(s, n) >= HeaderSize /\ Rest(s, n) > HeaderSize /\ Rest(s, n) \in Nat
      BY <2>4, CarveSizes
    <3>3. header'[x].size = n /\ header'[y].size = Rest(s, n)
      BY <1>4, <1>5, <2>4, <3>2
    <3>4. /\ y.offset = x.offset + header'[x].size /\ header'[x].size + header'[y].size = s.header[x].size
          /\ header'[x].size >= HeaderSize /\ header'[y].size >= HeaderSize
      BY <1>7, <3>2, <3>3, ManagerOK
    <3>5. Sized(S \cup {y}, header')
      BY <1>9, <3>1
    <3>6. \A c \in S \ {x} : header'[c].size = s.header[c].size
      BY <1>8
    <3>7. PICK m \in Nat : m = s.page_header[p].size
      BY <2>1
    <3>8. Tile(S, s.header, p, m) /\ x.page = p /\ y.page = p
      BY <1>7, <2>1, <2>4, <3>7
    <3> HIDE DEF S, T, x, y
    <3>9. Tile(S \cup {y}, header', p, m)
      BY <1>1, <3>1, <3>4, <3>5, <3>6, <3>8, TileSplit
    <3> QED BY <3>1, <3>7, <3>9
  <2> QED BY <2>2, <2>3, <2>4
<1>11. \A p \in PagesIn(s.page_header) : p \in Pages /\ s.page_header[p].size > PageHeaderSize
  BY DEF Start, Cut, PagesIn
<1>12. \A c \in T : page_header'[c.page].size # 0
  <2>1. \A c \in T : c.page \in Pages /\ s.page_header[c.page].size # 0
    BY <1>1, <1>2, <1>5, <1>7, <1>9 DEF Start, Cut, PagesIn, Sized, Chunks
  <2> QED BY <1>3, <2>1
<1> HIDE DEF T
<1>13. Cut(T, header', page_header')
  BY <1>3, <1>10, <1>11, <1>12 DEF Cut
<1> QED BY <1>13 DEF T

LEMMA CarveSlots ==
    ASSUME NEW s, NEW n \in Nat, Start(s, n), n >= HeaderSize, m_domain \in Nat, Carve(s, n), ~corrupted',
           sound
    PROVE  InSlots(live' \cup Frees', header', page_header', m_pages', page_count')
<1>1. InSlots(AllOf(s), s.header, s.page_header, s.pages, s.count) /\ AllOf(s) \subseteq DOMAIN s.header
      /\ s.chunk \in AllOf(s)
  BY StartSized DEF Start
<1>2. live' \cup Frees' = AllOf(s) \cup New(s, n) /\ m_pages' = s.pages /\ page_count' = s.count
      /\ PagesIn(page_header') = PagesIn(s.page_header)
  BY CarveChunks, CarveCounts
<1>3. /\ header'[s.chunk].page_index = s.header[s.chunk].page_index
      /\ \A c \in New(s, n) : header'[c].page_index = s.header[s.chunk].page_index
      /\ \A c \in DOMAIN s.header : c # s.chunk /\ c \notin New(s, n) => header'[c] = s.header[c]
  BY CarveHeaders
<1>4. \A c \in New(s, n) : c.page = s.chunk.page
  BY DEF New, Behind
<1>5. \A c \in AllOf(s) \cup New(s, n) :
          header'[c].page_index < s.count /\ s.pages[header'[c].page_index] = c.page
  BY <1>1, <1>3, <1>4 DEF InSlots
<1> QED BY <1>1, <1>2, <1>5 DEF InSlots

LEMMA CarveCounted ==
    ASSUME NEW s, NEW n \in Nat, Start(s, n), n >= HeaderSize, m_domain \in Nat, Carve(s, n),
           IsFiniteSet(live), sound
    PROVE  Counted(live', page_header') /\ Summed(page_header', m_statistics')
<1> DEFINE x == s.chunk
<1>1. /\ live' = live \cup {x} /\ PagesIn(page_header') = PagesIn(s.page_header) /\ x \notin live
      /\ \A p \in Pages : page_header'[p].size = s.page_header[p].size
      /\ \A p \in Pages : page_header'[p].allocation_count =
             IF p = x.page THEN s.page_header[p].allocation_count + 1
             ELSE s.page_header[p].allocation_count
  <2>1. OwnerOf(s) = x.page
    BY StartSized
  <2>2. x \notin live
    BY DEF Start
  <2> QED BY <2>1, <2>2, CarveCounts, Zenon
<1>2. ASSUME NEW p \in PagesIn(s.page_header)
      PROVE  page_header'[p].allocation_count = Cardinality(LiveIn(live', p))
             /\ page_header'[p].allocation_count > 0
  <2>1. p \in Pages
    BY DEF PagesIn
  <2>2. /\ s.page_header[p].allocation_count = Cardinality(LiveIn(live, p))
        /\ s.page_header[p].allocation_count > 0 \/ p = x.page
    BY DEF Start
  <2>3. IsFiniteSet(LiveIn(live, p)) /\ Cardinality(LiveIn(live, p)) \in Nat
    BY FS_Subset, FS_CardinalityType DEF LiveIn
  <2>4. CASE p = x.page
    <3>1. LiveIn(live', p) = LiveIn(live, p) \cup {x} /\ x \notin LiveIn(live, p)
      BY <1>1, <2>4 DEF LiveIn
    <3>2. Cardinality(LiveIn(live', p)) = Cardinality(LiveIn(live, p)) + 1
      BY <2>3, <3>1, FS_AddElement
    <3> QED BY <1>1, <2>1, <2>2, <2>3, <2>4, <3>2
  <2>5. CASE p # x.page
    <3>1. LiveIn(live', p) = LiveIn(live, p)
      BY <1>1, <2>5 DEF LiveIn
    <3> QED BY <1>1, <2>1, <2>2, <2>5, <3>1
  <2> QED BY <2>4, <2>5
<1>3. Total(page_header', PagesIn(s.page_header)) = Total(s.page_header, PagesIn(s.page_header))
  <2>1. IsFiniteSet(PagesIn(s.page_header))
    BY ManagerOK, FS_Subset DEF PagesIn
  <2>2. \A p \in PagesIn(s.page_header) : page_header'[p].size = s.page_header[p].size
    BY <1>1 DEF PagesIn
  <2> QED BY <2>1, <2>2, TotalSame
<1>4. m_statistics'.memory_allocated = s.statistics.memory_allocated
  BY CarveFigures
<1>5. Summed(s.page_header, s.statistics)
  BY DEF Start
<1>6. Summed(page_header', m_statistics')
  BY <1>1, <1>3, <1>4, <1>5 DEF Summed
<1>7. Counted(live', page_header')
  BY <1>1, <1>2 DEF Counted
<1> QED BY <1>6, <1>7

LEMMA CarveFigured ==
    ASSUME NEW s, NEW n \in Nat, Start(s, n), n >= HeaderSize, m_domain \in Nat, Carve(s, n), ~corrupted',
           IsFiniteSet(live)
    PROVE  Figured(live', m_frees', header', page_header', m_statistics')
<1> DEFINE x == s.chunk
<1>1. /\ live' = live \cup {x} /\ PagesIn(page_header') = PagesIn(s.page_header)
      /\ x \notin live /\ Figured(live, s.frees, s.header, s.page_header, s.statistics)
  BY CarveCounts DEF Start
<1>2. Cardinality(live') = Cardinality(live) + 1 /\ IsFiniteSet(live')
  BY <1>1, FS_AddElement
<1>3. \A c \in live : c \in DOMAIN s.header /\ c # x /\ header'[c] = s.header[c]
  <2>1. \A c \in live : c \in DOMAIN s.header /\ c # x
    BY DEF Start, Listed
  <2>2. \A c \in New(s, n) : c \notin live
    BY BehindIsNew DEF New
  <2> QED BY <2>1, <2>2, CarveHeaders
<1>4. \A c \in live' : header'[c].size \in Int
  <2>1. \A c \in live' : c \in DOMAIN header'
    <3>1. DOMAIN header' = DOMAIN s.header \cup New(s, n)
      BY CarveHeaders
    <3>2. x \in DOMAIN s.header
      BY DEF Start
    <3> QED BY <1>1, <1>3, <3>1, <3>2
  <2>2. header' \in [DOMAIN header' -> Headers]
    BY CarveHeaders
  <2> QED BY <2>1, <2>2 DEF Headers
<1>5. Total(header', live') = Taken(s, n) + Total(s.header, live)
  <2>1. Total(header', live) = Total(s.header, live)
    BY <1>3, TotalSame
  <2>2. header'[x].size = Taken(s, n)
    BY CarveHeaders
  <2>3. Total(header', live') = header'[x].size + Total(header', live)
    BY <1>1, <1>4, TotalWith
  <2> QED BY <2>1, <2>2, <2>3
<1>6. /\ m_statistics'.allocation_used = s.statistics.allocation_used + 1
      /\ m_statistics'.memory_used = s.statistics.memory_used + Taken(s, n)
      /\ m_statistics'.allocation_unused = s.statistics.allocation_unused
                                               - (IF s.index # 0 /\ ~Splits(s, n) THEN 1 ELSE 0)
      /\ m_statistics'.page_allocated = s.statistics.page_allocated
  BY CarveFigures
<1>7. Len(m_frees') = Len(s.frees) - (IF s.index # 0 /\ ~Splits(s, n) THEN 1 ELSE 0)
  BY CarveLists
<1>8. Total(s.header, live) \in Int /\ Taken(s, n) \in Nat
  <2>1. \A c \in live : s.header[c].size \in Int
    BY <1>3, <1>4, <1>1
  <2> QED BY <2>1, TotalInt, CarveSizes
<1>9. PICK w : w = PageHeaderSize * Cardinality(PagesIn(s.page_header)) /\ w \in Int
  <2>1. Cardinality(PagesIn(s.page_header)) \in Nat
    BY ManagerOK, FS_Subset, FS_CardinalityType DEF PagesIn
  <2> QED BY <2>1, ManagerOK
<1>10. s.statistics.memory_used = Total(s.header, live) + w
  BY <1>1, <1>9 DEF Figured
<1>11. m_statistics'.memory_used = Total(header', live') + w
  BY <1>5, <1>6, <1>8, <1>9, <1>10
<1> QED BY <1>1, <1>2, <1>6, <1>7, <1>9, <1>11 DEF Figured

\* The second half of allocate keeps the invariant.
LEMMA CarveKeeps ==
    ASSUME NEW s, NEW n \in Nat, Start(s, n), n >= HeaderSize, Types, allocations < MaxAllocations,
           allocations' = allocations + 1, Carve(s, n),
           UNCHANGED <<m_default_page_size, m_domain, sound>>
    PROVE  Inv'
<1>1. m_domain \in Nat /\ IsFiniteSet(live) /\ MaxAllocations \in Nat
  BY ManagerOK DEF Types
<1>2. Types'
  <2>1. /\ m_default_page_size' \in Nat /\ m_domain' \in Nat /\ allocations' \in 0 .. MaxAllocations
        /\ sound' \in BOOLEAN
    BY <1>1 DEF Types
  <2>2. /\ m_pages' = s.pages /\ page_count' = s.count /\ live' = live \cup {s.chunk}
        /\ page_header' \in [Pages -> PageHeaders]
    BY <1>1, CarveCounts
  <2>3. page_count' \in 0 .. allocations' /\ m_pages' \in [Slots -> Pages \cup {Null}]
        /\ \A i \in 0 .. page_count' - 1 : m_pages'[i] \in Pages
    BY <2>2 DEF Start
  <2>4. m_frees' \in Seq(Chunks) /\ m_statistics' \in Statistics
    BY <1>1, CarveLists, CarveFigures
  <2>5. DOMAIN header' \subseteq Chunks /\ header' \in [DOMAIN header' -> Headers]
    <3>1. New(s, n) \subseteq Chunks /\ DOMAIN s.header \subseteq Chunks
      BY CarveSizes DEF New, Start
    <3> QED BY ZenonT(60), <1>1, <3>1, CarveHeaders
  <2>6. live' \subseteq Chunks /\ IsFiniteSet(live')
    <3>1. live \subseteq Chunks /\ s.chunk \in Chunks
      BY CarveSizes DEF Types
    <3>2. IsFiniteSet(live \cup {s.chunk})
      BY <1>1, FS_AddElement
    <3> QED BY <2>2, <3>1, <3>2
  <2>7. corrupted' \in BOOLEAN
    BY CarveCorrupts
  <2> QED BY <2>1, <2>2, <2>3, <2>4, <2>5, <2>6, <2>7 DEF Types
<1>3. ASSUME ~corrupted'
      PROVE  Listed(live', m_frees', header', page_header', m_pages')
             /\ Figured(live', m_frees', header', page_header', m_statistics')
  BY <1>1, <1>3, CarveListed, CarveFigured
<1>4. ASSUME sound'
      PROVE  /\ ~corrupted'
             /\ Cut(live' \cup Frees', header', page_header')
             /\ InSlots(live' \cup Frees', header', page_header', m_pages', page_count')
             /\ Counted(live', page_header') /\ Summed(page_header', m_statistics')
  <2>1. sound /\ ~corrupted'
    BY <1>4, CarveSound
  <2> QED BY <1>1, <2>1, CarveCut, CarveSlots, CarveCounted
<1> QED BY <1>2, <1>3, <1>4 DEF Inv

\* What the record that Carve starts from holds.
From(c, i, f, k, q, ph, h, m) ==
    [chunk |-> c, index |-> i, frees |-> f, count |-> k, pages |-> q,
     page_header |-> ph, header |-> h, statistics |-> m]

LEMMA FromIs ==
    ASSUME NEW c, NEW i, NEW f, NEW k, NEW q, NEW ph, NEW h, NEW m, NEW s,
           s = From(c, i, f, k, q, ph, h, m)
    PROVE  /\ s.chunk = c /\ s.index = i /\ s.frees = f /\ s.count = k /\ s.pages = q
           /\ s.page_header = ph /\ s.header = h /\ s.statistics = m
BY DEF From

LEMMA MinIn ==
    ASSUME NEW n \in Nat, NEW S, S \subseteq 0 .. n, S # {}
    PROVE  Min(S) \in S /\ \A j \in S : Min(S) <= j
<1>1. PICK k \in S : \A j \in S : k <= j
  BY LeastNumber
<1> QED BY <1>1 DEF Min

\* A chunk the search found.
LEMMA StartFromFrees ==
    ASSUME Inv, ~corrupted, NEW n \in Nat, n >= HeaderSize, Fitting(n) # {}
    PROVE  Start(FromFrees(n), n)
<1> DEFINE i == Min(Fitting(n))
<1>1. PICK s : s = FromFrees(n)
  OBVIOUS
<1>2. /\ s.chunk = m_frees[i] /\ s.index = i /\ s.frees = m_frees /\ s.count = page_count
      /\ s.pages = m_pages /\ s.page_header = page_header /\ s.header = header
      /\ s.statistics = m_statistics
  <2>1. s = From(m_frees[i], i, m_frees, page_count, m_pages, page_header, header, m_statistics)
    BY <1>1, Zenon DEF FromFrees, From
  <2> HIDE DEF i
  <2> QED BY <2>1, FromIs
<1>3. m_frees \in Seq(Chunks) /\ Len(m_frees) \in Nat /\ DOMAIN m_frees = 1 .. Len(m_frees)
  BY DEF Inv, Types
<1>4. i \in Fitting(n)
  <2>1. Fitting(n) \subseteq 0 .. Len(m_frees)
    BY <1>3 DEF Fitting
  <2> QED BY <1>3, <2>1, MinIn
<1>5. i \in DOMAIN m_frees /\ m_frees[i] \in DOMAIN header /\ header[m_frees[i]].size >= n
  BY <1>4 DEF Fitting, Dangling
<1>6. Listed(live, m_frees, header, page_header, m_pages) /\ Figured(live, m_frees, header, page_header, m_statistics)
  BY DEF Inv
<1>7. m_frees[i] \in ToSet(m_frees) /\ m_frees[i] \notin live
  BY <1>5, <1>6 DEF ToSet, Listed
<1>8. s.index # 0 /\ live \cup Unlisted(s) = live /\ AllOf(s) = live \cup Frees
  BY <1>2, <1>3, <1>5 DEF Unlisted, AllOf, Frees
<1> HIDE DEF i
<1>9. /\ s.frees \in Seq(Chunks)
      /\ s.count \in 0 .. allocations + 1 /\ s.pages \in [Slots -> Pages \cup {Null}]
      /\ \A j \in 0 .. s.count - 1 : s.pages[j] \in Pages
      /\ s.page_header \in [Pages -> PageHeaders]
      /\ DOMAIN s.header \subseteq Chunks /\ s.header \in [DOMAIN s.header -> Headers]
      /\ s.statistics \in Statistics
      /\ s.chunk \in DOMAIN s.header /\ s.chunk \notin live /\ s.header[s.chunk].size >= n
  BY <1>2, <1>3, <1>5, <1>7, ManagerOK DEF Inv, Types
<1>10. IF s.index = 0 THEN s.chunk \notin ToSet(s.frees) /\ s.header[s.chunk].size = n
       ELSE s.index \in DOMAIN s.frees /\ s.frees[s.index] = s.chunk
  BY <1>2, <1>5, <1>8
<1>11. /\ Listed(live \cup Unlisted(s), s.frees, s.header, s.page_header, s.pages)
       /\ Figured(live, s.frees, s.header, s.page_header, s.statistics)
  BY <1>2, <1>6, <1>8, Zenon
<1>12. ASSUME sound
       PROVE  /\ Cut(AllOf(s), s.header, s.page_header)
              /\ InSlots(AllOf(s), s.header, s.page_header, s.pages, s.count)
              /\ \A p \in PagesIn(s.page_header) :
                     /\ s.page_header[p].allocation_count = Cardinality(LiveIn(live, p))
                     /\ s.page_header[p].allocation_count > 0 \/ p = s.chunk.page
              /\ Summed(s.page_header, s.statistics)
  <2>1. /\ Cut(live \cup Frees, header, page_header)
        /\ InSlots(live \cup Frees, header, page_header, m_pages, page_count)
        /\ Counted(live, page_header) /\ Summed(page_header, m_statistics)
    BY <1>12 DEF Inv
  <2> QED BY <1>2, <1>8, <2>1, Zenon DEF Counted
<1>13. \A c \in live : s.header[c] = header[c]
  BY <1>2
<1>14. Start(s, n)
  BY <1>9, <1>10, <1>11, <1>12, <1>13, Zenon DEF Start
<1> QED BY <1>1, <1>14, Zenon

-----------------------------------------------------------------------------
(* A new page *)

PageSize(n) == Max({PageHeaderSize + n, m_default_page_size})
Whole(p) == [page |-> p, offset |-> PageHeaderSize]
IsListed(n) == n < m_default_page_size

LEMMA PageSizeIs ==
    ASSUME m_default_page_size \in Nat, NEW n \in Nat, n >= HeaderSize
    PROVE  /\ PageSize(n) \in Nat /\ PageSize(n) >= PageHeaderSize + n /\ PageSize(n) > PageHeaderSize
           /\ PageSize(n) - PageHeaderSize \in Nat /\ PageSize(n) - PageHeaderSize >= HeaderSize
           /\ ~IsListed(n) => PageSize(n) - PageHeaderSize = n
<1>1. PageHeaderSize + n \in Nat
  BY ManagerOK
<1>2. PICK k \in Nat : k = PageHeaderSize + n
  BY <1>1
<1>3. PageSize(n) = IF m_default_page_size > k THEN m_default_page_size ELSE k
  BY <1>2 DEF PageSize, Max
<1> QED BY <1>2, <1>3, ManagerOK DEF IsListed

WithPage(p, n) == [page_header EXCEPT ![p] = [size |-> PageSize(n), allocation_count |-> 0]]

\* What Carve starts from then.
NewPage(s, n, p) ==
    /\ s.chunk = Whole(p)
    /\ s.index = IF IsListed(n) THEN Len(m_frees) + 1 ELSE 0
    /\ s.frees = IF IsListed(n) THEN Append(m_frees, Whole(p)) ELSE m_frees
    /\ s.count = page_count + 1
    /\ s.pages = [m_pages EXCEPT ![page_count] = p]
    /\ s.page_header = WithPage(p, n)
    /\ s.header = [c \in DOMAIN header \cup {Whole(p)} |->
                      IF c = Whole(p) THEN [domain |-> 0, page_index |-> page_count,
                                            size |-> PageSize(n) - PageHeaderSize]
                      ELSE header[c]]
    /\ s.statistics = PageIn(m_statistics, m_statistics.memory_allocated + PageSize(n),
                             m_statistics.memory_used + PageHeaderSize,
                             m_statistics.page_allocated + 1,
                             m_statistics.allocation_unused + (IF IsListed(n) THEN 1 ELSE 0))

LEMMA NewPageIs ==
    ASSUME NEW n, NEW p, NEW s, s = FromNewPage(n, p)
    PROVE  NewPage(s, n, p)
<1>1. PICK c, i, f, k, q, ph, h, m :
          /\ c = Whole(p)
          /\ i = (IF IsListed(n) THEN Len(m_frees) + 1 ELSE 0)
          /\ f = (IF IsListed(n) THEN Append(m_frees, Whole(p)) ELSE m_frees)
          /\ k = page_count + 1
          /\ q = [m_pages EXCEPT ![page_count] = p]
          /\ ph = WithPage(p, n)
          /\ h = [d \in DOMAIN header \cup {Whole(p)} |->
                     IF d = Whole(p) THEN [domain |-> 0, page_index |-> page_count,
                                           size |-> PageSize(n) - PageHeaderSize]
                     ELSE header[d]]
          /\ m = PageIn(m_statistics, m_statistics.memory_allocated + PageSize(n),
                        m_statistics.memory_used + PageHeaderSize,
                        m_statistics.page_allocated + 1,
                        m_statistics.allocation_unused + (IF IsListed(n) THEN 1 ELSE 0))
  BY Zenon
<1>2. s = From(c, i, f, k, q, ph, h, m)
  BY <1>1, Zenon DEF FromNewPage, From, PageSize, Whole, IsListed, PageIn, WithPage
<1>3. /\ s.chunk = c /\ s.index = i /\ s.frees = f /\ s.count = k /\ s.pages = q
      /\ s.page_header = ph /\ s.header = h /\ s.statistics = m
  <2> HIDE <1>1
  <2> QED BY <1>2, FromIs
<1> QED BY <1>1, <1>3, Zenon DEF NewPage

\* No free chunk the search passed was in a page that is gone.
LEMMA NoneDangles ==
    ASSUME m_frees \in Seq(Chunks), NEW n, ~SearchFails(n), Fitting(n) = {}
    PROVE  \A c \in ToSet(m_frees) : c \in DOMAIN header
BY DEF SearchFails, ToSet, Dangling

LEMMA TotalWithOther ==
    ASSUME NEW h, NEW k, NEW S, IsFiniteSet(S), NEW x, x \notin S, \A c \in S : h[c].size = k[c].size,
           \A c \in S \cup {x} : h[c].size \in Int
    PROVE  Total(h, S \cup {x}) = h[x].size + Total(k, S)
<1>1. Total(h, S \cup {x}) = h[x].size + Total(h, S)
  BY TotalWith
<1>2. Total(h, S) = Total(k, S)
  BY TotalSame
<1> QED BY <1>1, <1>2

LEMMA MoreIsInt ==
    \A a \in Int, k \in Nat : a + k \in Int
OBVIOUS

\* What the new page does to each part of the state.
LEMMA NewPageHeader ==
    ASSUME Types, NEW n \in Nat, n >= HeaderSize, NEW p \in Pages \ Allocated, NEW ph,
           ph = WithPage(p, n)
    PROVE  /\ ph \in [Pages -> PageHeaders]
           /\ ph[p].size = PageSize(n) /\ ph[p].allocation_count = 0
           /\ \A q \in Pages : q # p => ph[q] = page_header[q]
           /\ PagesIn(ph) = Allocated \cup {p} /\ PagesIn(page_header) = Allocated
           /\ IsFiniteSet(Allocated)
           /\ Cardinality(PagesIn(ph)) = Cardinality(Allocated) + 1
           /\ Total(ph, PagesIn(ph)) = PageSize(n) + Total(page_header, Allocated)
<1>1. PageSize(n) \in Nat /\ PageSize(n) > PageHeaderSize /\ PageHeaderSize \in Nat
  BY PageSizeIs, ManagerOK DEF Types
<1>2. PICK r : r = [size |-> PageSize(n), allocation_count |-> 0]
  OBVIOUS
<1>3. r \in PageHeaders /\ r.size = PageSize(n) /\ r.allocation_count = 0
  BY <1>1, <1>2 DEF PageHeaders
<1>4. ph = [page_header EXCEPT ![p] = r] /\ page_header \in [Pages -> PageHeaders]
  BY <1>2, Zenon DEF Types, WithPage
<1> HIDE <1>2
<1>5. ph \in [Pages -> PageHeaders] /\ ph[p] = r /\ \A q \in Pages : q # p => ph[q] = page_header[q]
  BY <1>3, <1>4
<1>6. PagesIn(page_header) = Allocated /\ p \notin Allocated
  BY DEF PagesIn, Allocated
<1>7. PagesIn(ph) = Allocated \cup {p}
  BY <1>1, <1>3, <1>5 DEF PagesIn, Allocated
<1>8. IsFiniteSet(Allocated)
  BY ManagerOK, FS_Subset DEF Allocated
<1>9. Cardinality(PagesIn(ph)) = Cardinality(Allocated) + 1
  BY <1>6, <1>7, <1>8, FS_AddElement
<1>10. Total(ph, PagesIn(ph)) = PageSize(n) + Total(page_header, Allocated)
  <2>1. \A q \in Allocated \cup {p} : ph[q].size \in Int
    BY <1>5 DEF PageHeaders, Allocated
  <2>2. \A q \in Allocated : ph[q].size = page_header[q].size
    BY <1>5, <1>6 DEF Allocated
  <2>3. Total(ph, Allocated \cup {p}) = ph[p].size + Total(page_header, Allocated)
    <3>1. IsFiniteSet(Allocated) /\ p \notin Allocated
      BY <1>6, <1>8
    <3> QED BY <2>1, <2>2, <3>1, TotalWithOther
  <2> QED BY <1>3, <1>5, <1>7, <2>3
<1> QED BY <1>3, <1>5, <1>6, <1>7, <1>8, <1>9, <1>10

LEMMA NewChunk ==
    ASSUME Types, NEW n \in Nat, n >= HeaderSize, NEW p \in Pages, NEW h, page_count \in Slots,
           h = [c \in DOMAIN header \cup {Whole(p)} |->
                   IF c = Whole(p) THEN [domain |-> 0, page_index |-> page_count,
                                         size |-> PageSize(n) - PageHeaderSize]
                   ELSE header[c]]
    PROVE  /\ DOMAIN h = DOMAIN header \cup {Whole(p)} /\ DOMAIN h \subseteq Chunks
           /\ h \in [DOMAIN h -> Headers]
           /\ h[Whole(p)].size = PageSize(n) - PageHeaderSize /\ h[Whole(p)].page_index = page_count
           /\ \A c \in DOMAIN header : c # Whole(p) => h[c] = header[c]
           /\ Whole(p) \in Chunks /\ Whole(p).page = p /\ Whole(p).offset = PageHeaderSize
<1>1. PageSize(n) - PageHeaderSize \in Nat /\ page_count \in Nat
  BY PageSizeIs DEF Types, Slots
<1>2. PICK r : r = [domain |-> 0, page_index |-> page_count, size |-> PageSize(n) - PageHeaderSize]
  OBVIOUS
<1>3. r \in Headers /\ r.size = PageSize(n) - PageHeaderSize /\ r.page_index = page_count
  BY <1>1, <1>2 DEF Headers
<1>4. PICK x : x = Whole(p)
  OBVIOUS
<1>5. x \in Chunks /\ x.page = p /\ x.offset = PageHeaderSize
  BY <1>4, ManagerOK DEF Whole, Chunks
<1>6. h = [c \in DOMAIN header \cup {x} |-> IF c = x THEN r ELSE header[c]]
  BY <1>2, <1>4, Zenon
<1>7. DOMAIN header \subseteq Chunks /\ header \in [DOMAIN header -> Headers]
  BY DEF Types
<1> HIDE <1>2, <1>4
<1>8. /\ DOMAIN h = DOMAIN header \cup {x} /\ h[x] = r
      /\ \A c \in DOMAIN header : c # x => h[c] = header[c]
  BY <1>6
<1>9. h \in [DOMAIN h -> Headers]
  BY <1>3, <1>6, <1>7
<1>10. DOMAIN h \subseteq Chunks
  BY <1>5, <1>7, <1>8
<1>11. x = Whole(p)
  BY <1>4
<1> QED BY <1>3, <1>5, <1>8, <1>9, <1>10, <1>11

LEMMA NewSlot ==
    ASSUME Types, page_count \in Slots, NEW p \in Pages, NEW q, q = [m_pages EXCEPT ![page_count] = p]
    PROVE  /\ q \in [Slots -> Pages \cup {Null}] /\ q[page_count] = p
           /\ \A i \in Slots : i # page_count => q[i] = m_pages[i]
           /\ \A i \in 0 .. page_count : q[i] \in Pages
<1>1. q \in [Slots -> Pages \cup {Null}] /\ q[page_count] = p
      /\ \A i \in Slots : i # page_count => q[i] = m_pages[i]
  BY DEF Types
<1>2. ASSUME NEW i \in 0 .. page_count PROVE q[i] \in Pages
  <2>1. i = page_count \/ (i \in 0 .. page_count - 1 /\ i \in Slots /\ i # page_count)
    BY ManagerOK DEF Slots
  <2> QED BY <1>1, <2>1 DEF Types
<1> QED BY <1>1, <1>2

LEMMA NewFigures ==
    ASSUME m_statistics \in Statistics, NEW n \in Nat, PageSize(n) \in Nat, NEW s,
           s = PageIn(m_statistics, m_statistics.memory_allocated + PageSize(n),
                      m_statistics.memory_used + PageHeaderSize,
                      m_statistics.page_allocated + 1,
                      m_statistics.allocation_unused + (IF IsListed(n) THEN 1 ELSE 0))
    PROVE  /\ s \in Statistics
           /\ s.memory_allocated = m_statistics.memory_allocated + PageSize(n)
           /\ s.memory_used = m_statistics.memory_used + PageHeaderSize
           /\ s.page_allocated = m_statistics.page_allocated + 1
           /\ s.allocation_used = m_statistics.allocation_used
           /\ s.allocation_unused = m_statistics.allocation_unused + (IF IsListed(n) THEN 1 ELSE 0)
<1>1. PICK m, a, b, q, v :
          /\ m = m_statistics
          /\ a = m.memory_allocated + PageSize(n) /\ b = m.memory_used + PageHeaderSize
          /\ q = m.page_allocated + 1 /\ v = m.allocation_unused + (IF IsListed(n) THEN 1 ELSE 0)
  BY Zenon
<1>2. s = PageIn(m, a, b, q, v) /\ m \in Statistics
  BY <1>1, Zenon
<1>3. /\ s.memory_allocated = a /\ s.memory_used = b /\ s.page_allocated = q
      /\ s.allocation_unused = v /\ s.allocation_used = m.allocation_used
      /\ s.domains_allocated = m.domains_allocated
      /\ s = [x \in FigureNames |-> s[x]]
  <2> HIDE <1>1
  <2> QED BY <1>2, FiguresOfPage
<1>4. /\ m.memory_allocated \in Int /\ m.memory_used \in Int /\ m.page_allocated \in Int
      /\ m.allocation_used \in Int /\ m.allocation_unused \in Int /\ m.domains_allocated \in Seq(Int)
  BY <1>2, StatisticsAre
<1>5. a \in Int /\ b \in Int /\ q \in Int /\ v \in Int
  <2>1. PICK z \in Nat, w \in Nat : z = PageSize(n) /\ w = (IF IsListed(n) THEN 1 ELSE 0)
    OBVIOUS
  <2>2. /\ a = m.memory_allocated + z /\ b = m.memory_used + PageHeaderSize
        /\ q = m.page_allocated + 1 /\ v = m.allocation_unused + w
    BY <1>1, <2>1, Zenon
  <2>3. 1 \in Nat /\ PageHeaderSize \in Nat
    BY ManagerOK
  <2>4. a \in Int /\ b \in Int
    BY <1>4, <2>2, <2>3, MoreIsInt, Zenon
  <2>5. q \in Int /\ v \in Int
    BY <1>4, <2>2, <2>3, MoreIsInt, Zenon
  <2> QED BY <2>4, <2>5
<1>6. s \in Statistics
  BY <1>3, <1>4, <1>5, StatisticsAre, Zenon
<1> QED BY <1>1, <1>3, <1>6, Zenon

LEMMA StartFromNewPage ==
    ASSUME Inv, ~corrupted, allocations < MaxAllocations, NEW n \in Nat, n >= HeaderSize,
           ~SearchFails(n), Fitting(n) = {}, NEW p \in Pages \ Allocated
    PROVE  Start(FromNewPage(n, p), n)
<1> DEFINE x == Whole(p)
<1>1. Types /\ Listed(live, m_frees, header, page_header, m_pages)
      /\ Figured(live, m_frees, header, page_header, m_statistics)
  BY DEF Inv
<1>2. page_count \in Slots /\ page_count \in Nat
  BY <1>1, ManagerOK DEF Types, Slots
<1>3. PICK s : s = FromNewPage(n, p)
  OBVIOUS
<1>20. PICK f, q, ph, h, m :
          s.frees = f /\ s.pages = q /\ s.page_header = ph /\ s.header = h /\ s.statistics = m
  BY Zenon
<1>4. /\ s.chunk = x /\ s.count = page_count + 1
      /\ s.index = (IF IsListed(n) THEN Len(m_frees) + 1 ELSE 0)
      /\ s.frees = f /\ s.pages = q /\ s.page_header = ph /\ s.header = h /\ s.statistics = m
      /\ f = (IF IsListed(n) THEN Append(m_frees, x) ELSE m_frees)
      /\ q = [m_pages EXCEPT ![page_count] = p]
      /\ ph = WithPage(p, n)
      /\ h = [c \in DOMAIN header \cup {Whole(p)} |->
                 IF c = Whole(p) THEN [domain |-> 0, page_index |-> page_count,
                                       size |-> PageSize(n) - PageHeaderSize]
                 ELSE header[c]]
      /\ m = PageIn(m_statistics, m_statistics.memory_allocated + PageSize(n),
                    m_statistics.memory_used + PageHeaderSize,
                    m_statistics.page_allocated + 1,
                    m_statistics.allocation_unused + (IF IsListed(n) THEN 1 ELSE 0))
  <2>1. NewPage(s, n, p)
    BY <1>3, NewPageIs, Zenon
  <2> QED BY <1>20, <2>1, Zenon DEF NewPage
<1>5. /\ PageSize(n) \in Nat /\ PageSize(n) > PageHeaderSize
      /\ PageSize(n) >= PageHeaderSize + n
      /\ PageSize(n) - PageHeaderSize \in Nat /\ PageSize(n) - PageHeaderSize >= HeaderSize
      /\ ~IsListed(n) => PageSize(n) - PageHeaderSize = n
  BY <1>1, PageSizeIs DEF Types
<1>6. /\ ph \in [Pages -> PageHeaders]
      /\ ph[p].size = PageSize(n) /\ ph[p].allocation_count = 0
      /\ \A r \in Pages : r # p => ph[r] = page_header[r]
      /\ PagesIn(ph) = Allocated \cup {p} /\ PagesIn(page_header) = Allocated
      /\ IsFiniteSet(Allocated)
      /\ Cardinality(PagesIn(ph)) = Cardinality(Allocated) + 1
      /\ Total(ph, PagesIn(ph)) = PageSize(n) + Total(page_header, Allocated)
  BY <1>1, <1>4, NewPageHeader
<1>7. /\ DOMAIN h = DOMAIN header \cup {x} /\ DOMAIN h \subseteq Chunks
      /\ h \in [DOMAIN h -> Headers]
      /\ h[x].size = PageSize(n) - PageHeaderSize /\ h[x].page_index = page_count
      /\ \A c \in DOMAIN header : c # x => h[c] = header[c]
      /\ x \in Chunks /\ x.page = p /\ x.offset = PageHeaderSize
  <2>1. PICK g : /\ g = h
                 /\ g = [c \in DOMAIN header \cup {Whole(p)} |->
                            IF c = Whole(p) THEN [domain |-> 0, page_index |-> page_count,
                                                  size |-> PageSize(n) - PageHeaderSize]
                            ELSE header[c]]
    BY <1>4
  <2> HIDE <1>4
  <2>2. /\ DOMAIN g = DOMAIN header \cup {Whole(p)} /\ DOMAIN g \subseteq Chunks
        /\ g \in [DOMAIN g -> Headers]
        /\ g[Whole(p)].size = PageSize(n) - PageHeaderSize /\ g[Whole(p)].page_index = page_count
        /\ \A c \in DOMAIN header : c # Whole(p) => g[c] = header[c]
        /\ Whole(p) \in Chunks /\ Whole(p).page = p /\ Whole(p).offset = PageHeaderSize
    BY <1>1, <1>2, <2>1, NewChunk
  <2>3. g = h
    BY <2>1
  <2> QED BY <2>2, <2>3, Zenon
<1>8. /\ q \in [Slots -> Pages \cup {Null}] /\ q[page_count] = p
      /\ \A i \in Slots : i # page_count => q[i] = m_pages[i]
      /\ \A i \in 0 .. page_count : q[i] \in Pages
  BY <1>1, <1>2, <1>4, NewSlot
<1>9. /\ m \in Statistics
      /\ m.memory_allocated = m_statistics.memory_allocated + PageSize(n)
      /\ m.memory_used = m_statistics.memory_used + PageHeaderSize
      /\ m.page_allocated = m_statistics.page_allocated + 1
      /\ m.allocation_used = m_statistics.allocation_used
      /\ m.allocation_unused = m_statistics.allocation_unused + (IF IsListed(n) THEN 1 ELSE 0)
  BY <1>1, <1>4, <1>5, NewFigures DEF Types
<1>10. /\ m_frees \in Seq(Chunks) /\ Len(m_frees) \in Nat /\ NoTwice(m_frees)
       /\ ToSet(m_frees) \subseteq DOMAIN header /\ live \subseteq DOMAIN header
       /\ DOMAIN header \subseteq live \cup ToSet(m_frees) /\ live \cap ToSet(m_frees) = {}
  BY <1>1, NoneDangles DEF Types, Listed
<1>11. \A c \in live \cup ToSet(m_frees) : c \in DOMAIN header /\ c.page \in Allocated /\ c.page # p /\ c # x
  <2>1. \A c \in DOMAIN header : c.page \in Pages /\ page_header[c.page].size # 0
    BY <1>1 DEF Types, Listed, Chunks
  <2>2. \A c \in DOMAIN header : c.page \in Allocated
    BY <2>1 DEF Allocated
  <2> QED BY <1>7, <1>10, <2>2
<1>12. /\ f \in Seq(Chunks) /\ NoTwice(f)
       /\ Len(f) = Len(m_frees) + (IF IsListed(n) THEN 1 ELSE 0)
       /\ ToSet(f) = IF IsListed(n) THEN ToSet(m_frees) \cup {x} ELSE ToSet(m_frees)
       /\ IsListed(n) => s.index \in DOMAIN f /\ f[s.index] = x /\ s.index # 0
       /\ ~IsListed(n) => s.index = 0
  <2>1. x \in Chunks /\ x \notin ToSet(m_frees)
    BY <1>7, <1>11
  <2>2. s.index = (IF IsListed(n) THEN Len(m_frees) + 1 ELSE 0)
        /\ f = (IF IsListed(n) THEN Append(m_frees, x) ELSE m_frees)
    BY <1>4
  <2> HIDE <1>4 DEF x
  <2>3. CASE IsListed(n)
    <3>1. f = Append(m_frees, x)
      BY <2>2, <2>3
    <3>2. /\ f \in Seq(Chunks) /\ Len(f) = Len(m_frees) + 1 /\ f[Len(f)] = x
          /\ ToSet(f) = ToSet(m_frees) \cup {x} /\ NoTwice(f)
      BY <1>10, <2>1, <3>1, AppendKeeps
    <3>3. s.index = Len(f) /\ Len(f) \in DOMAIN f /\ Len(f) # 0
      BY <1>10, <2>2, <2>3, <3>2
    <3> QED BY <2>3, <3>2, <3>3
  <2>4. CASE ~IsListed(n)
    BY <1>10, <2>2, <2>4
  <2> QED BY <2>3, <2>4
<1>13. s.chunk = x /\ s.count = page_count + 1
       /\ s.frees = f /\ s.pages = q /\ s.page_header = ph /\ s.header = h /\ s.statistics = m
  BY <1>4
<1> HIDE <1>4 DEF x
<1>14. /\ Unlisted(s) = (IF IsListed(n) THEN {} ELSE {x})
       /\ (live \cup Unlisted(s)) \cup ToSet(f) = (live \cup ToSet(m_frees)) \cup {x}
       /\ AllOf(s) = (live \cup Frees) \cup {x}
  BY <1>12, <1>13 DEF Unlisted, AllOf, Frees
<1>15. DOMAIN h = (live \cup ToSet(m_frees)) \cup {x}
  BY <1>7, <1>10
<1>16. Listed(live \cup Unlisted(s), f, h, ph, q)
  <2>1. (live \cup Unlisted(s)) \cap ToSet(f) = {}
    BY <1>10, <1>11, <1>12, <1>14
  <2>2. \A c \in DOMAIN h : ph[c.page].size # 0
    <3>1. \A r \in PagesIn(ph) : ph[r].size # 0
      BY DEF PagesIn
    <3> QED BY <1>6, <1>7, <1>11, <1>15, <3>1
  <2>3. \A c \in DOMAIN h : h[c].size >= HeaderSize /\ h[c].page_index \in Slots /\ q[h[c].page_index] \in Pages
    <3>1. h[x].size >= HeaderSize /\ h[x].page_index \in Slots /\ q[h[x].page_index] \in Pages
      BY <1>2, <1>5, <1>7, <1>8
    <3>2. ASSUME NEW c \in DOMAIN header, c # x
          PROVE  h[c].size >= HeaderSize /\ h[c].page_index \in Slots /\ q[h[c].page_index] \in Pages
      <4>1. /\ header[c].size >= HeaderSize /\ header[c].page_index \in Slots
            /\ m_pages[header[c].page_index] \in Pages
        BY <1>1 DEF Listed
      <4>2. q[header[c].page_index] \in Pages
        BY <1>8, <4>1
      <4> QED BY <1>7, <3>2, <4>1, <4>2
    <3> QED BY <1>7, <3>1, <3>2
  <2> QED BY <1>12, <1>14, <1>15, <2>1, <2>2, <2>3 DEF Listed
<1>17. Figured(live, f, h, ph, m)
  <2>1. Total(h, live) = Total(header, live)
    <3>1. \A c \in live : h[c].size = header[c].size
      BY <1>7, <1>11
    <3>2. IsFiniteSet(live)
      BY <1>1 DEF Types
    <3> QED BY <3>1, <3>2, TotalSame
  <2>2. PICK k \in Nat : k = Cardinality(Allocated)
    BY <1>6, FS_CardinalityType
  <2>3. PICK t \in Int : t = Total(header, live)
    <3>1. \A c \in live : header[c].size \in Int
      BY <1>1, <1>10 DEF Types, Headers
    <3> QED BY <1>1, <3>1, TotalInt DEF Types
  <2>4. /\ m_statistics.allocation_used = Cardinality(live)
        /\ m_statistics.allocation_unused = Len(m_frees)
        /\ m_statistics.page_allocated = k
        /\ m_statistics.memory_used = t + PageHeaderSize * k
    BY <1>1, <1>6, <2>2, <2>3, Zenon DEF Figured
  <2>5. PageHeaderSize * (k + 1) = PageHeaderSize * k + PageHeaderSize /\ PageHeaderSize * k \in Nat
        /\ PageHeaderSize \in Nat
    BY ManagerOK
  <2>6. m.memory_used = t + PageHeaderSize * (k + 1)
    BY <1>9, <2>4, <2>5
  <2>7. Cardinality(PagesIn(ph)) = k + 1 /\ Total(h, live) = t
    BY <1>6, <2>1, <2>2, <2>3
  <2> QED BY <1>9, <1>12, <2>4, <2>6, <2>7 DEF Figured
<1>18. ASSUME sound
       PROVE  /\ Cut(AllOf(s), h, ph)
              /\ InSlots(AllOf(s), h, ph, q, page_count + 1)
              /\ \A r \in PagesIn(ph) :
                     /\ ph[r].allocation_count = Cardinality(LiveIn(live, r))
                     /\ ph[r].allocation_count > 0 \/ r = x.page
              /\ Summed(ph, m)
  <2> DEFINE S == live \cup Frees
  <2>1. /\ Cut(S, header, page_header) /\ InSlots(S, header, page_header, m_pages, page_count)
        /\ Counted(live, page_header) /\ Summed(page_header, m_statistics)
    BY <1>18 DEF Inv
  <2>2. \A c \in S : c \in DOMAIN header /\ c.page \in Allocated /\ c.page # p /\ c # x /\ h[c] = header[c]
    BY <1>7, <1>11 DEF Frees
  <2>3. AllOf(s) = S \cup {x}
    BY <1>14
  <2>4. Sized(S \cup {x}, h)
    BY <1>7, <1>15 DEF Sized, Headers, Frees
  <2> HIDE DEF S
  <2>5. Tile(S \cup {x}, h, p, ph[p].size)
    <3>1. PICK k \in Nat : k = PageSize(n)
      BY <1>5
    <3>2. /\ \A c \in S \cup {x} : c.page = p <=> c = x
          /\ x.offset = PageHeaderSize /\ h[x].size = k - PageHeaderSize /\ h[x].size >= HeaderSize
      BY <1>5, <1>7, <2>2, <3>1
    <3>3. Tile(S \cup {x}, h, p, k)
      BY <2>4, <3>2, TileWhole
    <3> QED BY <1>6, <3>1, <3>3
  <2>6. ASSUME NEW r \in Allocated PROVE Tile(S \cup {x}, h, r, ph[r].size) /\ ph[r].size > PageHeaderSize
    <3>1. Tile(S, header, r, page_header[r].size) /\ page_header[r].size > PageHeaderSize
      BY <1>6, <2>1 DEF Cut
    <3>2. r # p /\ r \in Pages
      BY DEF Allocated
    <3>3. \A c \in S \cup (S \cup {x}) :
              c.page = r => (c \in S <=> c \in S \cup {x}) /\ header[c].size = h[c].size
      BY <1>7, <2>2, <3>2
    <3>4. Tile(S \cup {x}, h, r, page_header[r].size)
      BY <3>1, <3>3, TileSame
    <3> QED BY <1>6, <3>1, <3>2, <3>4
  <2>7. Cut(S \cup {x}, h, ph)
    <3>1. \A c \in S \cup {x} : ph[c.page].size # 0
      BY <1>6, <1>7, <2>2 DEF PagesIn
    <3>2. ph[p].size > PageHeaderSize
      BY <1>5, <1>6
    <3> QED BY <1>6, <2>5, <2>6, <3>1, <3>2 DEF Cut
  <2>8. InSlots(S \cup {x}, h, ph, q, page_count + 1)
    <3>1. /\ Allocated = {m_pages[i] : i \in 0 .. page_count - 1}
          /\ \A i, j \in 0 .. page_count - 1 : m_pages[i] = m_pages[j] => i = j
          /\ \A c \in S : header[c].page_index < page_count /\ m_pages[header[c].page_index] = c.page
      BY <1>6, <2>1 DEF InSlots
    <3>2. /\ (page_count + 1) - 1 = page_count
          /\ \A i \in 0 .. page_count : i = page_count \/ i \in 0 .. page_count - 1
          /\ \A i \in 0 .. page_count - 1 : i \in 0 .. page_count /\ i # page_count /\ i \in Slots
          /\ page_count \in 0 .. page_count
      <4>1. \A i \in 0 .. page_count - 1 : i \in 0 .. page_count /\ i # page_count
        BY <1>2
      <4>2. \A i \in 0 .. page_count - 1 : i \in Slots
        BY <1>2, ManagerOK DEF Slots
      <4>3. (page_count + 1) - 1 = page_count /\ page_count \in 0 .. page_count
        BY <1>2
      <4>4. \A i \in 0 .. page_count : i = page_count \/ i \in 0 .. page_count - 1
        BY <1>2
      <4> QED BY <4>1, <4>2, <4>3, <4>4, Zenon
    <3>3. \A i \in 0 .. page_count - 1 : q[i] = m_pages[i] /\ m_pages[i] # p
      BY <1>8, <3>1, <3>2
    <3>4. PagesIn(ph) = {q[i] : i \in 0 .. page_count}
      <4>1. \A r \in Allocated : \E i \in 0 .. page_count : r = q[i]
        BY <3>1, <3>2, <3>3
      <4>2. \A i \in 0 .. page_count : q[i] \in Allocated \cup {p}
        BY <1>8, <3>1, <3>2, <3>3
      <4> QED BY <1>6, <1>8, <3>2, <4>1, <4>2
    <3>5. \A i, j \in 0 .. page_count : q[i] = q[j] => i = j
      BY <1>8, <3>1, <3>2, <3>3
    <3>6. ASSUME NEW c \in S PROVE h[c].page_index < page_count + 1 /\ q[h[c].page_index] = c.page
      <4>1. header[c].page_index < page_count /\ m_pages[header[c].page_index] = c.page /\ h[c] = header[c]
            /\ header[c].page_index \in Slots
        BY <1>1, <2>2, <3>1 DEF Listed
      <4> QED BY <1>2, <1>8, <4>1 DEF Slots
    <3>7. h[x].page_index < page_count + 1 /\ q[h[x].page_index] = x.page
      BY <1>2, <1>7, <1>8
    <3> QED BY <3>2, <3>4, <3>5, <3>6, <3>7 DEF InSlots
  <2>9. ASSUME NEW r \in PagesIn(ph)
        PROVE  /\ ph[r].allocation_count = Cardinality(LiveIn(live, r))
               /\ ph[r].allocation_count > 0 \/ r = x.page
    <3>1. CASE r = p
      <4>1. LiveIn(live, p) = {}
        BY <1>11 DEF LiveIn
      <4> QED BY <1>6, <1>7, <3>1, <4>1, FS_EmptySet
    <3>2. CASE r \in Allocated
      BY <1>6, <2>1, <3>2 DEF Counted, Allocated
    <3> QED BY <1>6, <3>1, <3>2
  <2>10. Summed(ph, m)
    <3>1. m_statistics.memory_allocated = Total(page_header, Allocated)
      BY <1>6, <2>1 DEF Summed
    <3>2. m_statistics.memory_allocated \in Int
      BY <1>1, StatisticsAre DEF Types
    <3> QED BY <1>5, <1>6, <1>9, <3>1, <3>2 DEF Summed
  <2> QED BY <2>3, <2>7, <2>8, <2>9, <2>10
<1>19. Start(s, n)
  <2>1. /\ s.frees \in Seq(Chunks)
        /\ s.count \in 0 .. allocations + 1 /\ s.pages \in [Slots -> Pages \cup {Null}]
        /\ \A j \in 0 .. s.count - 1 : s.pages[j] \in Pages
        /\ s.page_header \in [Pages -> PageHeaders]
        /\ DOMAIN s.header \subseteq Chunks /\ s.header \in [DOMAIN s.header -> Headers]
        /\ s.statistics \in Statistics
    <3>1. page_count + 1 \in 0 .. allocations + 1 /\ (page_count + 1) - 1 = page_count
      BY <1>1, <1>2 DEF Types
    <3> QED BY <1>6, <1>7, <1>8, <1>9, <1>12, <1>13, <3>1
  <2>2. s.chunk \in DOMAIN s.header /\ s.chunk \notin live /\ s.header[s.chunk].size >= n
    BY <1>5, <1>7, <1>11, <1>13, ManagerOK
  <2>3. IF s.index = 0 THEN s.chunk \notin ToSet(s.frees) /\ s.header[s.chunk].size = n
        ELSE s.index \in DOMAIN s.frees /\ s.frees[s.index] = s.chunk
    BY <1>5, <1>7, <1>11, <1>12, <1>13
  <2>4. \A c \in live : s.header[c] = header[c]
    BY <1>7, <1>11, <1>13
  <2>5. /\ Listed(live \cup Unlisted(s), s.frees, s.header, s.page_header, s.pages)
        /\ Figured(live, s.frees, s.header, s.page_header, s.statistics)
    BY <1>13, <1>16, <1>17, Zenon
  <2>6. sound => /\ Cut(AllOf(s), s.header, s.page_header)
                 /\ InSlots(AllOf(s), s.header, s.page_header, s.pages, s.count)
                 /\ \A r \in PagesIn(s.page_header) :
                        /\ s.page_header[r].allocation_count = Cardinality(LiveIn(live, r))
                        /\ s.page_header[r].allocation_count > 0 \/ r = s.chunk.page
                 /\ Summed(s.page_header, s.statistics)
    BY <1>13, <1>18, Zenon
  <2> QED BY <2>1, <2>2, <2>3, <2>4, <2>5, <2>6, Zenon DEF Start
<1> QED BY <1>3, <1>19, Zenon

LEMMA AllocateKeeps ==
    ASSUME Inv, NEW size \in Sizes, Allocate(size)
    PROVE  Inv'
<1> DEFINE n == HeaderSize + size
<1>1. n \in Nat /\ n >= HeaderSize
  BY ManagerOK
<1>2. ~corrupted /\ allocations < MaxAllocations /\ allocations' = allocations + 1
      /\ UNCHANGED <<m_default_page_size, m_domain, sound>> /\ Types
  BY DEF Allocate, Inv
<1> HIDE DEF n
<1>3. CASE SearchFails(n)
  <2>1. /\ corrupted' = TRUE
        /\ UNCHANGED <<m_pages, page_count, m_frees, page_header, header, m_statistics, live>>
    BY <1>3, Zenon DEF Allocate, n
  <2>2. Types'
    BY <1>2, <2>1, ManagerOK DEF Types
  <2>3. ~sound
    <3> SUFFICES ASSUME sound PROVE FALSE
      OBVIOUS
    <3>1. \A c \in live \cup Frees : page_header[c.page].size # 0
      BY DEF Inv, Cut
    <3>2. \A c \in Frees : c \in DOMAIN header
      BY <1>2, <3>1 DEF Inv, Listed, Frees
    <3> QED BY <1>3, <3>2 DEF SearchFails, Dangling, Frees, ToSet
  <2> QED BY <1>2, <2>1, <2>2, <2>3 DEF Inv
<1>4. CASE ~SearchFails(n) /\ Fitting(n) # {}
  <2>1. Carve(FromFrees(n), n)
    BY <1>4, Zenon DEF Allocate, n
  <2>2. Start(FromFrees(n), n)
    BY <1>1, <1>2, <1>4, StartFromFrees
  <2> QED BY <1>1, <1>2, <2>1, <2>2, CarveKeeps
<1>5. CASE ~SearchFails(n) /\ Fitting(n) = {}
  <2>1. PICK p \in Pages \ Allocated : Carve(FromNewPage(n, p), n)
    BY <1>5, Zenon DEF Allocate, n
  <2>2. Start(FromNewPage(n, p), n)
    BY <1>1, <1>2, <1>5, StartFromNewPage
  <2> QED BY <1>1, <1>2, <2>1, <2>2, CarveKeeps
<1> QED BY <1>3, <1>4, <1>5

-----------------------------------------------------------------------------
(* deallocate *)

\* What deallocating a chunk of the caller may start from.
Given(a) ==
    /\ Inv /\ ~corrupted /\ a \in live
    /\ m_pages[header[a].page_index] \in Allocated
    /\ \A c \in Frees : c \in DOMAIN header

LEMMA GivenIs ==
    ASSUME NEW a, Given(a), NEW page, page = m_pages[header[a].page_index]
    PROVE  /\ Types /\ Listed(live, m_frees, header, page_header, m_pages)
           /\ Figured(live, m_frees, header, page_header, m_statistics)
           /\ a \in live /\ a \notin Frees /\ a \in Chunks /\ a \in DOMAIN header
           /\ live \cup Frees = DOMAIN header /\ live \cap Frees = {} /\ Frees = ToSet(m_frees)
           /\ header[a] \in Headers /\ header[a].size \in Nat /\ header[a].page_index \in Slots
           /\ page \in Allocated /\ page \in Pages /\ PagesIn(page_header) = Allocated
           /\ IsFiniteSet(Allocated) /\ IsFiniteSet(live) /\ m_frees \in Seq(Chunks) /\ NoTwice(m_frees)
           /\ \A c \in DOMAIN header : /\ c \in Chunks /\ c.page \in Allocated /\ header[c].size \in Nat
                                       /\ header[c] \in Headers /\ header[c].size >= HeaderSize
                                       /\ header[c].page_index \in Slots
                                       /\ m_pages[header[c].page_index] \in Pages
           /\ sound => /\ Cut(live \cup Frees, header, page_header)
                       /\ InSlots(live \cup Frees, header, page_header, m_pages, page_count)
                       /\ Counted(live, page_header) /\ Summed(page_header, m_statistics)
                       /\ page = a.page /\ header[a].page_index < page_count
<1>1. /\ Types /\ Listed(live, m_frees, header, page_header, m_pages)
      /\ Figured(live, m_frees, header, page_header, m_statistics)
  BY DEF Given, Inv
<1>2. a \in live /\ Frees = ToSet(m_frees) /\ PagesIn(page_header) = Allocated
  BY DEF Given, Frees, PagesIn, Allocated
<1>3. live \cup Frees = DOMAIN header /\ live \cap Frees = {} /\ a \notin Frees
  BY <1>1, <1>2 DEF Given, Listed
<1>4. /\ m_frees \in Seq(Chunks) /\ NoTwice(m_frees) /\ IsFiniteSet(live) /\ IsFiniteSet(Allocated)
      /\ page \in Allocated /\ page \in Pages
  BY <1>1, ManagerOK, FS_Subset DEF Types, Listed, Given, Allocated
<1>5. \A c \in DOMAIN header : c \in Chunks /\ header[c] \in Headers
  BY <1>1 DEF Types
<1>6. ASSUME NEW c \in DOMAIN header
      PROVE  /\ c.page \in Allocated /\ header[c].size \in Nat
             /\ header[c].size >= HeaderSize
             /\ header[c].page_index \in Slots /\ m_pages[header[c].page_index] \in Pages
  <2>1. c.page \in Pages /\ page_header[c.page].size # 0
    BY <1>1, <1>2, <1>3, <1>5 DEF Listed, Chunks
  <2>2. header[c].size \in Nat
    BY <1>5 DEF Headers
  <2> QED BY <1>1, <2>1, <2>2 DEF Listed, Allocated
<1>7. ASSUME sound
      PROVE  /\ Cut(live \cup Frees, header, page_header)
             /\ InSlots(live \cup Frees, header, page_header, m_pages, page_count)
             /\ Counted(live, page_header) /\ Summed(page_header, m_statistics)
             /\ page = a.page /\ header[a].page_index < page_count
  <2>1. /\ Cut(live \cup Frees, header, page_header)
        /\ InSlots(live \cup Frees, header, page_header, m_pages, page_count)
        /\ Counted(live, page_header) /\ Summed(page_header, m_statistics)
    BY <1>7 DEF Given, Inv
  <2> QED BY <1>2, <2>1 DEF InSlots
<1> QED BY <1>1, <1>2, <1>3, <1>4, <1>5, <1>6, <1>7

LEMMA ReturnedIs ==
    ASSUME m_statistics \in Statistics, NEW a, header[a] \in Headers
    PROVE  /\ Returned(a) \in Statistics
           /\ Returned(a).allocation_used = m_statistics.allocation_used - 1
           /\ Returned(a).memory_used = m_statistics.memory_used - header[a].size
           /\ Returned(a).allocation_unused = m_statistics.allocation_unused
           /\ Returned(a).page_allocated = m_statistics.page_allocated
           /\ Returned(a).memory_allocated = m_statistics.memory_allocated
<1>1. PICK m, u, b, d :
          /\ m = m_statistics /\ u = m.allocation_used - 1 /\ b = m.memory_used - header[a].size
          /\ d = Charged(m.domains_allocated, header[a].domain, header[a].size)
  BY Zenon
<1>2. Returned(a) = ReturnedIn(m, u, b, d) /\ m \in Statistics
  BY <1>1, Zenon DEF Returned, ReturnedIn
<1>3. PICK s : s = Returned(a)
  OBVIOUS
<1>4. /\ s.allocation_used = u /\ s.memory_used = b /\ s.domains_allocated = d
      /\ s.memory_allocated = m.memory_allocated /\ s.page_allocated = m.page_allocated
      /\ s.allocation_unused = m.allocation_unused
      /\ s = [x \in FigureNames |-> s[x]]
  BY <1>2, <1>3, FiguresOfReturn
<1>5. /\ m.memory_allocated \in Int /\ m.memory_used \in Int /\ m.page_allocated \in Int
      /\ m.allocation_used \in Int /\ m.allocation_unused \in Int /\ m.domains_allocated \in Seq(Int)
  BY <1>2, StatisticsAre
<1>6. header[a].domain \in Nat /\ header[a].size \in Nat /\ header[a].size \in Int
  BY DEF Headers
<1>7. u \in Int /\ b \in Int
  BY <1>1, <1>5, <1>6
<1>8. d \in Seq(Int)
  <2>1. PICK f, e, z : f = m.domains_allocated /\ e = header[a].domain /\ z = header[a].size
    OBVIOUS
  <2>2. f \in Seq(Int) /\ e \in Nat /\ z \in Int /\ d = Charged(f, e, z)
    BY <1>1, <1>5, <1>6, <2>1, Zenon
  <2> HIDE <1>1, <2>1
  <2> QED BY <2>2, ChargedIs
<1>9. s \in Statistics
  BY <1>4, <1>5, <1>7, <1>8, StatisticsAre, Zenon
<1> QED BY <1>1, <1>3, <1>4, <1>9, Zenon

LEMMA OneLessIs ==
    ASSUME page_header \in [Pages -> PageHeaders], NEW page \in Pages
    PROVE  /\ OneLess(page) \in [Pages -> PageHeaders]
           /\ \A p \in Pages : OneLess(page)[p].size = page_header[p].size
           /\ \A p \in Pages : OneLess(page)[p].allocation_count =
                  IF p = page THEN page_header[p].allocation_count - 1
                  ELSE page_header[p].allocation_count
           /\ PagesIn(OneLess(page)) = PagesIn(page_header)
<1>1. \A p \in Pages : page_header[p] \in PageHeaders /\ page_header[p].allocation_count \in Int
  BY DEF PageHeaders
<1>2. page_header[page].allocation_count - 1 = page_header[page].allocation_count + (0 - 1)
  BY <1>1
<1>3. OneLess(page) = CountsIn(page_header, page, 0 - 1)
  <2>1. OneLess(page) = [page_header EXCEPT ![page] = [page_header[page] EXCEPT
            !.allocation_count = page_header[page].allocation_count - 1]]
    BY DEF OneLess
  <2>2. CountsIn(page_header, page, 0 - 1) = [page_header EXCEPT ![page] = [page_header[page] EXCEPT
            !.allocation_count = page_header[page].allocation_count + (0 - 1)]]
    BY DEF CountsIn
  <2> QED BY <1>2, <2>1, <2>2, Zenon
<1> QED BY <1>1, <1>3, CountIs

\* The free chunks the chunk a can be joined to, and the one it is.
Ends(c, e) == c.page = e.page /\ c.offset + header[c].size = e.offset
Adjoining(a) == {i \in DOMAIN m_frees : Ends(m_frees[i], a) \/ Ends(a, m_frees[i])}
Beside(a) == m_frees[Min(Adjoining(a))]

Grown(k, z) == [header EXCEPT ![k].size = @ + z]

LEMMA JoinIs ==
    ASSUME NEW a, NEW page, Join(a, page)
    PROVE  /\ IF Adjoining(a) = {}
              THEN m_frees' = Append(m_frees, a) /\ header' = header /\ sound' = sound
              ELSE IF Ends(Beside(a), a)
              THEN /\ m_frees' = m_frees /\ sound' = sound
                   /\ header' = OnlyOf(Grown(Beside(a), header[a].size), DOMAIN header \ {a})
              ELSE /\ m_frees' = [m_frees EXCEPT ![Min(Adjoining(a))] = a]
                   /\ header' = OnlyOf(Grown(a, header[a].size), DOMAIN header \ {Beside(a)})
                   /\ sound' = (sound /\ header[Beside(a)].size = header[a].size)
           /\ m_statistics' = JoinedIn(Returned(a), Returned(a).allocation_unused
                                                        + (IF Adjoining(a) = {} THEN 1 ELSE 0))
           /\ page_header' = OneLess(page)
           /\ UNCHANGED <<m_pages, page_count, corrupted>>
<1>1. /\ m_statistics' = [Returned(a) EXCEPT !.allocation_unused = @ + (IF Adjoining(a) = {} THEN 1 ELSE 0)]
      /\ page_header' = OneLess(page)
      /\ UNCHANGED <<m_pages, page_count, corrupted>>
  BY Zenon DEF Join, Adjoining, Ends
<1>2. IF Adjoining(a) = {}
      THEN m_frees' = Append(m_frees, a) /\ header' = header /\ sound' = sound
      ELSE IF Ends(Beside(a), a)
      THEN /\ m_frees' = m_frees /\ sound' = sound
           /\ header' = OnlyOf(Grown(Beside(a), header[a].size), DOMAIN header \ {a})
      ELSE /\ m_frees' = [m_frees EXCEPT ![Min(Adjoining(a))] = a]
           /\ header' = OnlyOf(Grown(a, header[a].size), DOMAIN header \ {Beside(a)})
           /\ sound' = (sound /\ header[Beside(a)].size = header[a].size)
  BY Zenon DEF Join, Adjoining, Ends, Beside, Grown
<1>3. m_statistics' = JoinedIn(Returned(a), Returned(a).allocation_unused
                                                + (IF Adjoining(a) = {} THEN 1 ELSE 0))
  BY <1>1, Zenon DEF JoinedIn
<1> QED BY <1>1, <1>2, <1>3

LEMMA GrownIs ==
    ASSUME header \in [DOMAIN header -> Headers], NEW k \in DOMAIN header, NEW z \in Nat,
           NEW g \in DOMAIN header, k # g, NEW new, new = OnlyOf(Grown(k, z), DOMAIN header \ {g})
    PROVE  /\ DOMAIN new = DOMAIN header \ {g} /\ new \in [DOMAIN new -> Headers]
           /\ new[k].size = header[k].size + z /\ new[k].page_index = header[k].page_index
           /\ \A c \in DOMAIN header : c # g /\ c # k => new[c] = header[c]
<1>1. PICK r : r = header[k] /\ r \in Headers
  OBVIOUS
<1>2. PICK q : q = [r EXCEPT !.size = @ + z]
  OBVIOUS
<1>3. q \in Headers /\ q.size = r.size + z /\ q.page_index = r.page_index
  BY <1>1, <1>2 DEF Headers
<1>4. Grown(k, z) = [header EXCEPT ![k] = q]
  BY <1>1, <1>2, Zenon DEF Grown
<1> HIDE <1>2
<1>5. new = [c \in DOMAIN header \ {g} |-> IF c = k THEN q ELSE header[c]]
  <2>1. PICK f : f = Grown(k, z)
    OBVIOUS
  <2>2. \A c \in DOMAIN header : f[c] = IF c = k THEN q ELSE header[c]
    BY <1>4, <2>1
  <2>3. new = [c \in DOMAIN header \ {g} |-> f[c]]
    BY <2>1, Zenon DEF OnlyOf
  <2> HIDE <1>4, <2>1
  <2> QED BY <2>2, <2>3
<1> QED BY <1>1, <1>3, <1>5

\* What a join comes to, whichever chunk is joined.
JoinOutcome(a) ==
    /\ m_frees' \in Seq(Chunks) /\ NoTwice(m_frees')
    /\ Len(m_frees') = Len(m_frees) + (IF Adjoining(a) = {} THEN 1 ELSE 0)
    /\ DOMAIN header' \subseteq DOMAIN header /\ header' \in [DOMAIN header' -> Headers]
    /\ (live \ {a}) \cup ToSet(m_frees') = DOMAIN header'
    /\ (live \ {a}) \cap ToSet(m_frees') = {}
    /\ \A c \in DOMAIN header' : header'[c].size >= header[c].size /\ header'[c].page_index = header[c].page_index
    /\ \A c \in live \ {a} : header'[c] = header[c]
    /\ sound' \in BOOLEAN
    /\ sound' => sound /\ \A p \in Allocated : Tile(DOMAIN header', header', p, page_header[p].size)

LEMMA JoinNone ==
    ASSUME NEW a, Given(a), Adjoining(a) = {}, Join(a, m_pages[header[a].page_index])
    PROVE  JoinOutcome(a)
<1>1. m_frees' = Append(m_frees, a) /\ header' = header /\ sound' = sound
  BY JoinIs
<1>2. /\ m_frees \in Seq(Chunks) /\ a \in Chunks /\ a \notin ToSet(m_frees) /\ NoTwice(m_frees)
      /\ live \cup ToSet(m_frees) = DOMAIN header /\ live \cap ToSet(m_frees) = {}
      /\ header \in [DOMAIN header -> Headers] /\ sound \in BOOLEAN /\ a \in live
  BY GivenIs DEF Types
<1>3. /\ m_frees' \in Seq(Chunks) /\ Len(m_frees') = Len(m_frees) + 1 /\ NoTwice(m_frees')
      /\ ToSet(m_frees') = ToSet(m_frees) \cup {a}
  BY <1>1, <1>2, AppendKeeps
<1>4. sound => \A p \in Allocated : Tile(DOMAIN header, header, p, page_header[p].size)
  BY GivenIs DEF Cut
<1>5. \A c \in DOMAIN header : header[c].size >= header[c].size
  BY <1>2 DEF Headers
<1>6. /\ (live \ {a}) \cup ToSet(m_frees') = DOMAIN header'
      /\ (live \ {a}) \cap ToSet(m_frees') = {}
  BY <1>1, <1>2, <1>3
<1> HIDE DEF Adjoining
<1> QED BY <1>1, <1>2, <1>3, <1>4, <1>5, <1>6 DEF JoinOutcome

LEMMA BesideIs ==
    ASSUME NEW a, Given(a), Adjoining(a) # {}
    PROVE  /\ Min(Adjoining(a)) \in DOMAIN m_frees
           /\ Beside(a) \in Frees /\ Beside(a) \in DOMAIN header /\ Beside(a) # a /\ Beside(a) \notin live
           /\ Ends(Beside(a), a) \/ Ends(a, Beside(a))
<1>1. m_frees \in Seq(Chunks) /\ Len(m_frees) \in Nat /\ DOMAIN m_frees = 1 .. Len(m_frees)
  BY GivenIs
<1>2. Adjoining(a) \subseteq 0 .. Len(m_frees)
  BY <1>1 DEF Adjoining
<1>3. Min(Adjoining(a)) \in Adjoining(a)
  BY <1>1, <1>2, MinIn
<1>4. Min(Adjoining(a)) \in DOMAIN m_frees /\ (Ends(Beside(a), a) \/ Ends(a, Beside(a)))
  BY <1>3 DEF Adjoining, Beside
<1>5. Beside(a) \in Frees
  BY <1>4 DEF Beside, Frees, ToSet
<1> QED BY <1>4, <1>5, GivenIs

\* x, which ends where y begins, takes y in; the chunks are those of the header.
LEMMA JoinedTiles ==
    ASSUME NEW a, Given(a), sound, NEW x \in DOMAIN header, NEW y \in DOMAIN header, x # y, Ends(x, y),
           NEW k, DOMAIN k = DOMAIN header \ {y}, k \in [DOMAIN k -> Headers],
           k[x].size = header[x].size + header[y].size,
           \A c \in DOMAIN header \ {x, y} : k[c].size = header[c].size
    PROVE  \A p \in Allocated : Tile(DOMAIN k, k, p, page_header[p].size)
<1> SUFFICES ASSUME NEW p \in Allocated PROVE Tile(DOMAIN k, k, p, page_header[p].size)
  OBVIOUS
<1>1. Tile(DOMAIN header, header, p, page_header[p].size)
  <2>1. Cut(DOMAIN header, header, page_header) /\ PagesIn(page_header) = Allocated
    BY GivenIs
  <2> QED BY <2>1 DEF Cut
<1>2. PICK n \in Nat : n = page_header[p].size
  BY GivenIs DEF Types, Allocated, PageHeaders
<1>3. PICK S : S = DOMAIN header
  OBVIOUS
<1>4. Sized(S, header) /\ Sized(S \ {y}, k)
  <2>1. \A c \in DOMAIN header : c \in Chunks /\ header[c].size \in Nat
    BY GivenIs
  <2> QED BY <1>3, <2>1 DEF Sized, Headers
<1>5. x.page = y.page /\ x.offset + header[x].size = y.offset
  BY DEF Ends
<1>6. CASE p = x.page
  <2>1. Tile(S \ {y}, k, p, n)
    BY <1>1, <1>2, <1>3, <1>4, <1>5, <1>6, TileJoin
  <2> QED BY <1>2, <1>3, <2>1
<1>7. CASE p # x.page
  <2>1. \A c \in S \cup (S \ {y}) : c.page = p => (c \in S <=> c \in S \ {y}) /\ header[c].size = k[c].size
    BY <1>3, <1>5, <1>7
  <2>2. Tile(S, header, p, n)
    BY <1>1, <1>2, <1>3
  <2>3. Tile(S \ {y}, k, p, n)
    BY <2>1, <2>2, TileSame
  <2> QED BY <1>2, <1>3, <2>3
<1> QED BY <1>6, <1>7

LEMMA JoinBehind ==
    ASSUME NEW a, Given(a), Adjoining(a) # {}, Ends(Beside(a), a), Join(a, m_pages[header[a].page_index])
    PROVE  JoinOutcome(a)
<1> DEFINE b == Beside(a)
           z == header[a].size
<1>1. m_frees' = m_frees /\ sound' = sound /\ header' = OnlyOf(Grown(b, z), DOMAIN header \ {a})
  BY JoinIs
<1>2. b \in ToSet(m_frees) /\ b \in DOMAIN header /\ b # a /\ b \notin live
  BY BesideIs DEF Frees
<1>3. /\ m_frees \in Seq(Chunks) /\ Len(m_frees) \in Nat /\ a \notin ToSet(m_frees) /\ NoTwice(m_frees)
      /\ live \cup ToSet(m_frees) = DOMAIN header /\ live \cap ToSet(m_frees) = {}
      /\ header \in [DOMAIN header -> Headers] /\ sound \in BOOLEAN /\ a \in live /\ a \in DOMAIN header
      /\ z \in Nat /\ \A c \in DOMAIN header : header[c].size \in Nat
  <2>1. \A c \in DOMAIN header : header[c].size \in Nat
    BY GivenIs
  <2>2. header \in [DOMAIN header -> Headers] /\ sound \in BOOLEAN
    BY GivenIs DEF Types
  <2>3. /\ m_frees \in Seq(Chunks) /\ a \notin ToSet(m_frees) /\ NoTwice(m_frees)
        /\ live \cup ToSet(m_frees) = DOMAIN header /\ live \cap ToSet(m_frees) = {}
        /\ a \in live /\ a \in DOMAIN header /\ a \in Chunks /\ header[a].size \in Nat
    BY GivenIs
  <2> QED BY <2>1, <2>2, <2>3
<1> HIDE DEF b, z
<1>4. /\ DOMAIN header' = DOMAIN header \ {a} /\ header' \in [DOMAIN header' -> Headers]
      /\ header'[b].size = header[b].size + z /\ header'[b].page_index = header[b].page_index
      /\ \A c \in DOMAIN header : c # a /\ c # b => header'[c] = header[c]
  BY <1>1, <1>2, <1>3, GrownIs
<1>5. ASSUME sound' PROVE \A p \in Allocated : Tile(DOMAIN header', header', p, page_header[p].size)
  <2>1. sound /\ Ends(b, a) /\ header'[b].size = header[b].size + header[a].size
    BY <1>1, <1>4, <1>5 DEF b, z
  <2>2. \A c \in DOMAIN header \ {b, a} : header'[c].size = header[c].size
    BY <1>4
  <2> HIDE <1>1
  <2> QED BY <1>2, <1>3, <1>4, <2>1, <2>2, JoinedTiles
<1>6. \A c \in DOMAIN header' : header'[c].size >= header[c].size /\ header'[c].page_index = header[c].page_index
  BY <1>3, <1>4
<1>7. \A c \in live \ {a} : header'[c] = header[c]
  BY <1>2, <1>3, <1>4
<1>8. (live \ {a}) \cup ToSet(m_frees) = DOMAIN header' /\ (live \ {a}) \cap ToSet(m_frees) = {}
  BY <1>3, <1>4
<1>9. m_frees' = m_frees /\ sound' = sound
  BY <1>1
<1> HIDE <1>1
<1>10. Len(m_frees) = Len(m_frees) + (IF Adjoining(a) = {} THEN 1 ELSE 0)
  BY <1>3
<1>11. DOMAIN header' \subseteq DOMAIN header
  BY <1>4
<1> QED BY <1>3, <1>4, <1>5, <1>6, <1>7, <1>8, <1>9, <1>10, <1>11, Zenon DEF JoinOutcome

LEMMA JoinBefore ==
    ASSUME NEW a, Given(a), Adjoining(a) # {}, ~Ends(Beside(a), a), Join(a, m_pages[header[a].page_index])
    PROVE  JoinOutcome(a)
<1> DEFINE b == Beside(a)
           z == header[a].size
           i == Min(Adjoining(a))
<1>1. /\ m_frees' = [m_frees EXCEPT ![i] = a] /\ sound' = (sound /\ header[b].size = z)
      /\ header' = OnlyOf(Grown(a, z), DOMAIN header \ {b})
  BY JoinIs
<1>2. /\ b \in ToSet(m_frees) /\ b \in DOMAIN header /\ b # a /\ b \notin live /\ Ends(a, b)
      /\ i \in DOMAIN m_frees /\ m_frees[i] = b
  BY BesideIs DEF Frees, Beside
<1>3. /\ m_frees \in Seq(Chunks) /\ Len(m_frees) \in Nat /\ a \notin ToSet(m_frees) /\ NoTwice(m_frees)
      /\ live \cup ToSet(m_frees) = DOMAIN header /\ live \cap ToSet(m_frees) = {}
      /\ header \in [DOMAIN header -> Headers] /\ sound \in BOOLEAN /\ a \in live /\ a \in DOMAIN header
      /\ z \in Nat /\ (\A c \in DOMAIN header : header[c].size \in Nat) /\ a \in Chunks
  <2>1. \A c \in DOMAIN header : header[c].size \in Nat
    BY GivenIs
  <2>2. header \in [DOMAIN header -> Headers] /\ sound \in BOOLEAN
    BY GivenIs DEF Types
  <2>3. /\ m_frees \in Seq(Chunks) /\ a \notin ToSet(m_frees) /\ NoTwice(m_frees)
        /\ live \cup ToSet(m_frees) = DOMAIN header /\ live \cap ToSet(m_frees) = {}
        /\ a \in live /\ a \in DOMAIN header /\ a \in Chunks /\ header[a].size \in Nat
    BY GivenIs
  <2> QED BY <2>1, <2>2, <2>3
<1> HIDE DEF b, i
<1>4. /\ m_frees' \in Seq(Chunks) /\ Len(m_frees') = Len(m_frees)
      /\ NoTwice(m_frees') /\ ToSet(m_frees') = (ToSet(m_frees) \ {b}) \cup {a}
  <2>1. PICK f, k : f = m_frees /\ k = i
    BY Zenon
  <2>2. m_frees' = Put(f, k, a)
    BY <1>1, <2>1, Zenon DEF Put
  <2>3. f \in Seq(Chunks) /\ k \in DOMAIN f /\ a \in Chunks /\ NoTwice(f) /\ a \notin ToSet(f) /\ f[k] = b
    BY <1>2, <1>3, <2>1, Zenon
  <2> HIDE <1>1, <2>1, <2>2
  <2>4. /\ Put(f, k, a) \in Seq(Chunks) /\ Len(Put(f, k, a)) = Len(f)
        /\ NoTwice(Put(f, k, a)) /\ ToSet(Put(f, k, a)) = (ToSet(f) \ {f[k]}) \cup {a}
    BY ZenonT(60), <2>3, ReplaceKeeps
  <2> QED BY <2>1, <2>2, <2>3, <2>4, Zenon
<1>5. /\ DOMAIN header' = DOMAIN header \ {b} /\ header' \in [DOMAIN header' -> Headers]
      /\ header'[a].size = header[a].size + z /\ header'[a].page_index = header[a].page_index
      /\ \A c \in DOMAIN header : c # b /\ c # a => header'[c] = header[c]
  <2>1. header' = OnlyOf(Grown(a, z), DOMAIN header \ {b})
    BY <1>1
  <2> HIDE <1>1 DEF z
  <2> QED BY <1>2, <1>3, <2>1, GrownIs
<1>6. sound' = (sound /\ header[b].size = z)
  BY <1>1
<1> HIDE <1>1
<1>7. ASSUME sound' PROVE \A p \in Allocated : Tile(DOMAIN header', header', p, page_header[p].size)
  <2>1. sound /\ Ends(a, b) /\ header'[a].size = header[a].size + header[b].size
    BY <1>2, <1>5, <1>6, <1>7
  <2>2. \A c \in DOMAIN header \ {a, b} : header'[c].size = header[c].size
    BY <1>5
  <2>3. a \in DOMAIN header /\ b \in DOMAIN header /\ a # b
    BY <1>2, <1>3
  <2> QED BY <1>5, <2>1, <2>2, <2>3, JoinedTiles
<1>8. \A c \in DOMAIN header' : header'[c].size >= header[c].size /\ header'[c].page_index = header[c].page_index
  BY <1>3, <1>5
<1>9. \A c \in live \ {a} : header'[c] = header[c]
  BY <1>2, <1>3, <1>5
<1>10. (live \ {a}) \cup ToSet(m_frees') = DOMAIN header' /\ (live \ {a}) \cap ToSet(m_frees') = {}
  BY <1>2, <1>3, <1>4, <1>5
<1>11. sound' \in BOOLEAN /\ (sound' => sound)
  BY <1>3, <1>6
<1>12. Len(m_frees') = Len(m_frees) + (IF Adjoining(a) = {} THEN 1 ELSE 0)
  BY <1>3, <1>4
<1>13. DOMAIN header' \subseteq DOMAIN header
  BY <1>5
<1> QED BY <1>4, <1>5, <1>7, <1>8, <1>9, <1>10, <1>11, <1>12, <1>13, Zenon DEF JoinOutcome

LEMMA JoinComesTo ==
    ASSUME NEW a, Given(a), Join(a, m_pages[header[a].page_index])
    PROVE  JoinOutcome(a)
BY JoinNone, JoinBehind, JoinBefore

\* A chunk of the caller less: the count, and the sizes.
LEMMA LessOne ==
    ASSUME Types, NEW a \in live, live \subseteq DOMAIN header
    PROVE  /\ IsFiniteSet(live \ {a}) /\ Cardinality(live) \in Nat
           /\ Cardinality(live \ {a}) = Cardinality(live) - 1
           /\ Total(header, live \ {a}) \in Int
           /\ Total(header, live) = header[a].size + Total(header, live \ {a})
<1>1. IsFiniteSet(live) /\ \A c \in live : header[c].size \in Int
  BY DEF Types, Headers
<1>2. IsFiniteSet(live \ {a}) /\ Cardinality(live \ {a}) = Cardinality(live) - 1 /\ Cardinality(live) \in Nat
  BY <1>1, FS_RemoveElement, FS_CardinalityType, FS_Subset
<1>3. Total(header, live) = header[a].size + Total(header, live \ {a})
  BY <1>1, TotalWithout
<1>4. Total(header, live \ {a}) \in Int
  BY <1>1, <1>2, TotalInt
<1> QED BY <1>2, <1>3, <1>4

LEMMA LiveInLess ==
    ASSUME NEW a \in live, IsFiniteSet(live), NEW p
    PROVE  /\ Cardinality(LiveIn(live, p)) \in Nat
           /\ p # a.page => LiveIn(live \ {a}, p) = LiveIn(live, p)
           /\ p = a.page => Cardinality(LiveIn(live \ {a}, p)) = Cardinality(LiveIn(live, p)) - 1
<1>1. IsFiniteSet(LiveIn(live, p))
  BY FS_Subset DEF LiveIn
<1>2. p # a.page => LiveIn(live \ {a}, p) = LiveIn(live, p)
  BY DEF LiveIn
<1>3. ASSUME p = a.page PROVE Cardinality(LiveIn(live \ {a}, p)) = Cardinality(LiveIn(live, p)) - 1
  <2>1. LiveIn(live \ {a}, p) = LiveIn(live, p) \ {a} /\ a \in LiveIn(live, p)
    BY <1>3 DEF LiveIn
  <2> QED BY <1>1, <2>1, FS_RemoveElement
<1> QED BY <1>1, <1>2, <1>3, FS_CardinalityType

LEMMA JoinKeeps ==
    ASSUME NEW a, Given(a), NEW page, page = m_pages[header[a].page_index], ~LastAllocation(page),
           Join(a, page), live' = live \ {a}, UNCHANGED <<m_default_page_size, m_domain, allocations>>
    PROVE  Inv'
<1>1. JoinOutcome(a)
  BY JoinComesTo
<1>2. /\ Types /\ Figured(live, m_frees, header, page_header, m_statistics)
      /\ Listed(live, m_frees, header, page_header, m_pages)
      /\ a \in live /\ a \in DOMAIN header /\ header[a] \in Headers
      /\ live \cup Frees = DOMAIN header
      /\ page \in Pages /\ page \in Allocated /\ PagesIn(page_header) = Allocated /\ IsFiniteSet(live)
      /\ IsFiniteSet(Allocated)
  BY GivenIs
<1>3. /\ m_statistics' = JoinedIn(Returned(a), Returned(a).allocation_unused
                                                   + (IF Adjoining(a) = {} THEN 1 ELSE 0))
      /\ page_header' = OneLess(page) /\ UNCHANGED <<m_pages, page_count, corrupted>>
  BY JoinIs
<1>4. /\ page_header' \in [Pages -> PageHeaders]
      /\ \A p \in Pages : page_header'[p].size = page_header[p].size
      /\ \A p \in Pages : page_header'[p].allocation_count =
             IF p = page THEN page_header[p].allocation_count - 1
             ELSE page_header[p].allocation_count
      /\ PagesIn(page_header') = Allocated
  <2>1. page_header \in [Pages -> PageHeaders]
    BY <1>2 DEF Types
  <2> QED BY <1>2, <1>3, <2>1, OneLessIs, Zenon
<1>5. /\ Returned(a) \in Statistics
      /\ Returned(a).allocation_used = m_statistics.allocation_used - 1
      /\ Returned(a).memory_used = m_statistics.memory_used - header[a].size
      /\ Returned(a).allocation_unused = m_statistics.allocation_unused
      /\ Returned(a).page_allocated = m_statistics.page_allocated
      /\ Returned(a).memory_allocated = m_statistics.memory_allocated
  BY <1>2, ReturnedIs DEF Types
<1>6. /\ m_statistics' \in Statistics
      /\ m_statistics'.allocation_used = m_statistics.allocation_used - 1
      /\ m_statistics'.memory_used = m_statistics.memory_used - header[a].size
      /\ m_statistics'.allocation_unused = m_statistics.allocation_unused + (IF Adjoining(a) = {} THEN 1 ELSE 0)
      /\ m_statistics'.page_allocated = m_statistics.page_allocated
      /\ m_statistics'.memory_allocated = m_statistics.memory_allocated
  <2>1. PICK m, v, s : /\ m = Returned(a) /\ s = m_statistics'
                       /\ v = m.allocation_unused + (IF Adjoining(a) = {} THEN 1 ELSE 0)
    BY Zenon
  <2>2. m \in Statistics /\ s = JoinedIn(m, v)
    BY <1>3, <1>5, <2>1, Zenon
  <2> HIDE <1>3
  <2>3. /\ s.allocation_used = m.allocation_used /\ s.memory_used = m.memory_used
        /\ s.domains_allocated = m.domains_allocated
        /\ s.memory_allocated = m.memory_allocated /\ s.page_allocated = m.page_allocated
        /\ s.allocation_unused = v
        /\ s = [x \in FigureNames |-> s[x]]
    BY <2>2, FiguresOfJoin
  <2>4. /\ m.memory_allocated \in Int /\ m.memory_used \in Int /\ m.page_allocated \in Int
        /\ m.allocation_used \in Int /\ m.allocation_unused \in Int /\ m.domains_allocated \in Seq(Int)
    BY <2>2, StatisticsAre
  <2>5. v \in Int
    BY <2>1, <2>4
  <2>6. s \in Statistics
    BY <2>3, <2>4, <2>5, StatisticsAre, Zenon
  <2> QED BY <1>5, <2>1, <2>3, <2>6, Zenon
<1> DEFINE L == live \ {a}
<1>7. /\ m_frees' \in Seq(Chunks) /\ NoTwice(m_frees')
      /\ Len(m_frees') = Len(m_frees) + (IF Adjoining(a) = {} THEN 1 ELSE 0)
      /\ DOMAIN header' \subseteq DOMAIN header /\ header' \in [DOMAIN header' -> Headers]
      /\ L \cup ToSet(m_frees') = DOMAIN header' /\ L \cap ToSet(m_frees') = {}
      /\ \A c \in DOMAIN header' : header'[c].size >= header[c].size
                                   /\ header'[c].page_index = header[c].page_index
      /\ \A c \in L : header'[c] = header[c]
      /\ sound' \in BOOLEAN
      /\ sound' => sound /\ \A p \in Allocated : Tile(DOMAIN header', header', p, page_header[p].size)
  BY <1>1, Zenon DEF JoinOutcome
<1>8. \A c \in DOMAIN header : /\ c \in Chunks /\ c.page \in Allocated /\ header[c].size \in Nat
                               /\ header[c].size >= HeaderSize /\ header[c].page_index \in Slots
                               /\ m_pages[header[c].page_index] \in Pages
  BY GivenIs
<1>9. L = live' /\ corrupted' = FALSE /\ m_pages' = m_pages /\ page_count' = page_count
  BY <1>3 DEF Given, Inv, Types
<1> HIDE <1>1, <1>3
<1>10. Types'
  <2>1. L \subseteq Chunks /\ IsFiniteSet(L)
    BY <1>2, FS_Subset DEF Types
  <2>2. DOMAIN header' \subseteq Chunks
    BY <1>7, <1>8
  <2> QED BY <1>2, <1>4, <1>6, <1>7, <1>9, <2>1, <2>2 DEF Types
<1>11. Listed(L, m_frees', header', page_header', m_pages)
  <2>1. \A c \in DOMAIN header' : page_header'[c.page].size # 0
    BY <1>4, <1>7, <1>8 DEF Allocated
  <2>2. \A c \in DOMAIN header' : /\ header'[c].size >= HeaderSize /\ header'[c].page_index \in Slots
                                  /\ m_pages[header'[c].page_index] \in Pages
    <3> SUFFICES ASSUME NEW c \in DOMAIN header'
                 PROVE  /\ header'[c].size >= HeaderSize /\ header'[c].page_index \in Slots
                        /\ m_pages[header'[c].page_index] \in Pages
      OBVIOUS
    <3>1. header'[c].size \in Nat /\ header[c].size \in Nat /\ header'[c].size >= header[c].size
          /\ header[c].size >= HeaderSize
      BY <1>7, <1>8 DEF Headers
    <3> QED BY <1>7, <1>8, <3>1, ManagerOK
  <2> HIDE DEF L
  <2> QED BY <1>7, <2>1, <2>2 DEF Listed
<1>12. Figured(L, m_frees', header', page_header', m_statistics')
  <2>1. live \subseteq DOMAIN header
    BY <1>2
  <2>2. /\ IsFiniteSet(L) /\ Cardinality(live) \in Nat
        /\ Cardinality(L) = Cardinality(live) - 1
        /\ Total(header, L) \in Int
        /\ Total(header, live) = header[a].size + Total(header, L)
    BY <1>2, <2>1, LessOne
  <2>3. Total(header', L) = Total(header, L)
    <3>1. \A c \in L : header'[c].size = header[c].size
      BY <1>7
    <3> HIDE DEF L
    <3> QED BY <2>2, <3>1, TotalSame
  <2>4. PICK w \in Int : w = PageHeaderSize * Cardinality(Allocated)
    <3>1. Cardinality(Allocated) \in Nat
      BY <1>2, FS_CardinalityType
    <3> QED BY <3>1, ManagerOK
  <2>5. /\ m_statistics.allocation_used = Cardinality(live)
        /\ m_statistics.allocation_unused = Len(m_frees)
        /\ m_statistics.page_allocated = Cardinality(Allocated)
        /\ m_statistics.memory_used = Total(header, live) + w
    BY <1>2, <2>4, Zenon DEF Figured
  <2>6. header[a].size \in Nat
    BY <1>8, <1>2
  <2>7. m_statistics'.memory_used = Total(header', L) + w
    BY <1>6, <2>2, <2>3, <2>4, <2>5, <2>6
  <2> QED BY <1>4, <1>6, <1>7, <2>2, <2>4, <2>5, <2>7 DEF Figured
<1>13. ASSUME sound'
       PROVE  /\ Cut(DOMAIN header', header', page_header')
              /\ InSlots(DOMAIN header', header', page_header', m_pages, page_count)
              /\ Counted(L, page_header') /\ Summed(page_header', m_statistics')
  <2>1. sound
    BY <1>7, <1>13
  <2>2. /\ Cut(DOMAIN header, header, page_header)
        /\ InSlots(DOMAIN header, header, page_header, m_pages, page_count)
        /\ Counted(live, page_header) /\ Summed(page_header, m_statistics)
        /\ page = a.page
    BY <1>2, <2>1, GivenIs
  <2>3. Cut(DOMAIN header', header', page_header')
    <3>1. \A c \in DOMAIN header' : page_header'[c.page].size # 0
      BY <1>4, <1>7, <1>8 DEF Allocated
    <3>2. \A p \in Allocated : page_header'[p].size = page_header[p].size /\ page_header[p].size > PageHeaderSize
      BY <1>2, <1>4, <2>2 DEF Cut, Allocated
    <3>3. \A p \in Allocated : Tile(DOMAIN header', header', p, page_header[p].size)
      BY <1>7, <1>13
    <3> QED BY <1>4, <3>1, <3>2, <3>3 DEF Cut
  <2>4. InSlots(DOMAIN header', header', page_header', m_pages, page_count)
    BY <1>2, <1>4, <1>7, <2>2 DEF InSlots
  <2>5. Counted(L, page_header')
    <3> SUFFICES ASSUME NEW p \in Allocated
                 PROVE  /\ page_header'[p].allocation_count = Cardinality(LiveIn(L, p))
                        /\ page_header'[p].allocation_count > 0
      BY <1>4 DEF Counted
    <3>1. /\ page_header[p].allocation_count = Cardinality(LiveIn(live, p))
          /\ page_header[p].allocation_count > 0 /\ p \in Pages
      BY <1>2, <2>2 DEF Counted, Allocated
    <3>2. /\ Cardinality(LiveIn(live, p)) \in Nat
          /\ p # a.page => LiveIn(L, p) = LiveIn(live, p)
          /\ p = a.page => Cardinality(LiveIn(L, p)) = Cardinality(LiveIn(live, p)) - 1
      BY <1>2, LiveInLess
    <3>3. p = page => page_header[p].allocation_count # 1
      BY DEF LastAllocation
    <3> HIDE DEF L
    <3> QED BY <1>4, <2>2, <3>1, <3>2, <3>3
  <2>6. Summed(page_header', m_statistics')
    <3>1. \A p \in Allocated : page_header[p].size = page_header'[p].size
      BY <1>4 DEF Allocated
    <3>2. Total(page_header, Allocated) = Total(page_header', Allocated)
      BY <1>2, <3>1, TotalSame
    <3> QED BY <1>2, <1>4, <1>6, <2>2, <3>2 DEF Summed
  <2> QED BY <2>3, <2>4, <2>5, <2>6
<1>14. live' \cup Frees' = DOMAIN header'
  BY <1>7, <1>9 DEF Frees
<1>15. Listed(live', m_frees', header', page_header', m_pages')
       /\ Figured(live', m_frees', header', page_header', m_statistics')
  BY <1>9, <1>11, <1>12, Zenon
<1>16. sound' => /\ Cut(live' \cup Frees', header', page_header')
                 /\ InSlots(live' \cup Frees', header', page_header', m_pages', page_count')
                 /\ Counted(live', page_header') /\ Summed(page_header', m_statistics')
  BY <1>9, <1>13, <1>14, Zenon
<1> QED BY <1>9, <1>10, <1>15, <1>16 DEF Inv

\* What giving a page back makes of the figures.
GivenIn(m, v, q, b, w) ==
    [m EXCEPT !.allocation_unused = v, !.page_allocated = q, !.memory_used = b, !.memory_allocated = w]

LEMMA FiguresOfGiven ==
    ASSUME NEW m \in Statistics, NEW v, NEW q, NEW b, NEW w, NEW s, s = GivenIn(m, v, q, b, w)
    PROVE  /\ s.memory_allocated = w /\ s.memory_used = b /\ s.page_allocated = q
           /\ s.allocation_unused = v /\ s.allocation_used = m.allocation_used
           /\ s.domains_allocated = m.domains_allocated
           /\ s = [x \in FigureNames |-> s[x]]
<1>1. DOMAIN m = FigureNames
  BY StatisticsAre
<1> QED BY <1>1, Zenon DEF GivenIn, FigureNames

\* The free chunks that go with a page slot, and the chunks that stay.
Gone(i) == {m_frees[k] : k \in Leaving(m_frees, i)}
Stay(a, page) == {c \in DOMAIN header \ {a} : c.page # page /\ c \notin Gone(header[a].page_index)}

WithoutPage(page) == [page_header EXCEPT ![page] = NoPage]
SlotFilled(i) == [m_pages EXCEPT ![i] = IF i < page_count THEN m_pages[page_count - 1] ELSE @]

\* What giving page back does.
PageGiven(a, page) ==
    LET slot == header[a].page_index IN
    /\ m_frees' = Dropped(m_frees, slot)
    /\ m_pages' = SlotFilled(slot)
    /\ page_count' = (IF slot < page_count THEN page_count - 1 ELSE page_count)
    /\ page_header' = WithoutPage(page)
    /\ header' = OnlyOf(header, Stay(a, page))
    /\ m_statistics' =
           GivenIn(Returned(a), Returned(a).allocation_unused - Cardinality(Leaving(m_frees, slot)),
                   Returned(a).page_allocated - 1, Returned(a).memory_used - PageHeaderSize,
                   Returned(a).memory_allocated - PageHeaderSize - header[a].size
                       - Total(header, Gone(slot)))
    /\ sound' = (sound /\ slot = page_count - 1)
    /\ corrupted' = \E c \in live \ {a} : c.page = page

LEMMA GiveBackIs ==
    ASSUME NEW a, NEW page, GiveBack(a, page)
    PROVE  PageGiven(a, page)
<1> DEFINE slot == header[a].page_index
           gone == {i \in DOMAIN m_frees : header[m_frees[i]].page_index = slot}
           kept == {c \in DOMAIN header \ {a} : c.page # page /\ \A i \in gone : m_frees[i] # c}
<1>1. /\ m_frees' = Dropped(m_frees, slot)
      /\ m_pages' = [m_pages EXCEPT ![slot] = IF slot < page_count THEN m_pages[page_count - 1] ELSE @]
      /\ page_count' = (IF slot < page_count THEN page_count - 1 ELSE page_count)
      /\ page_header' = [page_header EXCEPT ![page] = NoPage]
      /\ header' = OnlyOf(header, kept)
      /\ sound' = (sound /\ slot = page_count - 1)
      /\ corrupted' = \E c \in live \ {a} : c.page = page
  BY Zenon DEF GiveBack
<1>2. m_statistics' = [Returned(a) EXCEPT !.allocation_unused = @ - Cardinality(gone),
                                          !.page_allocated = @ - 1,
                                          !.memory_used = @ - PageHeaderSize,
                                          !.memory_allocated = @ - PageHeaderSize - header[a].size
                                                                 - SizeOf({m_frees[i] : i \in gone})]
  BY Zenon DEF GiveBack
<1>3. gone = Leaving(m_frees, slot) /\ {m_frees[i] : i \in gone} = Gone(slot)
  BY Zenon DEF Leaving, Gone
<1>4. SizeOf(Gone(slot)) = Total(header, Gone(slot))
  BY Zenon DEF SizeOf, Total
<1>5. kept = Stay(a, page)
  <2>1. \A c : (\A i \in gone : m_frees[i] # c) <=> c \notin {m_frees[i] : i \in gone}
    OBVIOUS
  <2>2. \A c : (\A i \in gone : m_frees[i] # c) <=> c \notin Gone(slot)
    BY <1>3, <2>1, Zenon
  <2> HIDE DEF gone
  <2> QED BY <2>2 DEF Stay
<1>6. m_statistics' =
          GivenIn(Returned(a), Returned(a).allocation_unused - Cardinality(Leaving(m_frees, slot)),
                  Returned(a).page_allocated - 1, Returned(a).memory_used - PageHeaderSize,
                  Returned(a).memory_allocated - PageHeaderSize - header[a].size
                      - Total(header, Gone(slot)))
  BY <1>2, <1>3, <1>4, Zenon DEF GivenIn
<1> HIDE DEF gone, kept
<1> QED BY <1>1, <1>5, <1>6, Zenon DEF WithoutPage, SlotFilled, PageGiven

LEMMA SlotFilledIs ==
    ASSUME Types, NEW i \in Slots, m_pages[i] \in Pages
    PROVE  LET k == IF i < page_count THEN page_count - 1 ELSE page_count IN
           /\ SlotFilled(i) \in [Slots -> Pages \cup {Null}]
           /\ k \in 0 .. page_count
           /\ \A j \in 0 .. k - 1 : SlotFilled(i)[j] \in Pages
           /\ \A j \in Slots : m_pages[j] \in Pages => SlotFilled(i)[j] \in Pages
           /\ i = page_count - 1 => SlotFilled(i) = m_pages
<1> DEFINE v == IF i < page_count THEN m_pages[page_count - 1] ELSE m_pages[i]
           k == IF i < page_count THEN page_count - 1 ELSE page_count
<1>1. /\ m_pages \in [Slots -> Pages \cup {Null}] /\ page_count \in Nat /\ i \in Nat /\ page_count <= MaxAllocations
      /\ \A j \in 0 .. page_count - 1 : m_pages[j] \in Pages /\ j \in Slots
  BY SMTT(30), ManagerOK DEF Types, Slots
<1>2. v \in Pages
  <2>1. i < page_count => page_count - 1 \in 0 .. page_count - 1
    BY <1>1
  <2> QED BY <1>1, <2>1
<1>3. k \in 0 .. page_count /\ k <= page_count
  BY <1>1
<1>4. SlotFilled(i) = [m_pages EXCEPT ![i] = v]
  BY Zenon DEF SlotFilled
<1>5. i = page_count - 1 => v = m_pages[i]
  BY <1>1
<1> HIDE DEF v
<1>6. /\ SlotFilled(i) \in [Slots -> Pages \cup {Null}]
      /\ \A j \in Slots : SlotFilled(i)[j] = IF j = i THEN v ELSE m_pages[j]
  BY <1>1, <1>2, <1>4
<1>7. v = m_pages[i] => SlotFilled(i) = m_pages
  <2>1. m_pages = [j \in Slots |-> m_pages[j]]
    BY <1>1
  <2> QED BY <1>4, <2>1
<1> HIDE <1>4
<1>8. \A j \in 0 .. k - 1 : SlotFilled(i)[j] \in Pages
  <2>1. \A j \in 0 .. k - 1 : j \in 0 .. page_count - 1
    BY <1>1, <1>3
  <2> QED BY <1>1, <1>2, <1>6, <2>1
<1> QED BY <1>2, <1>3, <1>5, <1>6, <1>7, <1>8

LEMMA WithoutPageIs ==
    ASSUME page_header \in [Pages -> PageHeaders], NEW page \in Allocated
    PROVE  /\ WithoutPage(page) \in [Pages -> PageHeaders] /\ WithoutPage(page)[page].size = 0
           /\ \A p \in Pages : p # page => WithoutPage(page)[p] = page_header[p]
           /\ PagesIn(WithoutPage(page)) = Allocated \ {page}
           /\ Cardinality(PagesIn(WithoutPage(page))) = Cardinality(Allocated) - 1
           /\ Cardinality(Allocated) \in Nat
           /\ Total(page_header, Allocated)
                  = page_header[page].size + Total(WithoutPage(page), PagesIn(WithoutPage(page)))
           /\ Total(WithoutPage(page), PagesIn(WithoutPage(page))) \in Int
<1>1. NoPage \in PageHeaders /\ NoPage.size = 0
  BY DEF NoPage, PageHeaders
<1>2. page \in Pages /\ IsFiniteSet(Allocated)
  BY ManagerOK, FS_Subset DEF Allocated
<1>3. PICK ph : ph = WithoutPage(page)
  OBVIOUS
<1>4. ph = [page_header EXCEPT ![page] = NoPage]
  BY <1>3, Zenon DEF WithoutPage
<1>5. ph \in [Pages -> PageHeaders] /\ ph[page] = NoPage /\ \A p \in Pages : p # page => ph[p] = page_header[p]
  BY <1>1, <1>2, <1>4
<1> HIDE <1>4
<1>6. PagesIn(ph) = Allocated \ {page}
  BY <1>1, <1>2, <1>5 DEF PagesIn, Allocated
<1>7. Cardinality(Allocated \ {page}) = Cardinality(Allocated) - 1 /\ Cardinality(Allocated) \in Nat
      /\ IsFiniteSet(Allocated \ {page})
  BY <1>2, FS_RemoveElement, FS_CardinalityType, FS_Subset
<1>8. \A p \in Allocated : page_header[p].size \in Int
  BY DEF Allocated, PageHeaders
<1>9. Total(page_header, Allocated) = page_header[page].size + Total(page_header, Allocated \ {page})
  BY <1>2, <1>8, TotalWithout
<1>10. Total(page_header, Allocated \ {page}) = Total(ph, Allocated \ {page})
  <2>1. \A p \in Allocated \ {page} : page_header[p].size = ph[p].size
    BY <1>5 DEF Allocated
  <2> QED BY <1>7, <2>1, TotalSame
<1>11. Total(page_header, Allocated \ {page}) \in Int
  <2>1. \A p \in Allocated \ {page} : page_header[p].size \in Int
    BY <1>8
  <2> QED BY <1>7, <2>1, TotalInt
<1>12. /\ ph \in [Pages -> PageHeaders] /\ ph[page].size = 0
       /\ \A p \in Pages : p # page => ph[p] = page_header[p]
       /\ PagesIn(ph) = Allocated \ {page}
       /\ Cardinality(PagesIn(ph)) = Cardinality(Allocated) - 1
       /\ Cardinality(Allocated) \in Nat
       /\ Total(page_header, Allocated) = page_header[page].size + Total(ph, PagesIn(ph))
       /\ Total(ph, PagesIn(ph)) \in Int
  BY <1>1, <1>5, <1>6, <1>7, <1>9, <1>10, <1>11
<1> QED BY <1>3, <1>12, Zenon

\* The free chunks of the page and the last allocation are what the page was cut into.
LEMMA GivenPage ==
    ASSUME NEW a, Given(a), sound, NEW page, page = m_pages[header[a].page_index], LastAllocation(page)
    PROVE  LET slot == header[a].page_index IN
           /\ \A c \in live \ {a} : c.page # page
           /\ Gone(slot) = {c \in Frees : c.page = page}
           /\ {c \in DOMAIN header : c.page = page} = Gone(slot) \cup {a}
           /\ page_header[page].size = PageHeaderSize + header[a].size + Total(header, Gone(slot))
           /\ Total(header, Gone(slot)) \in Int
<1> DEFINE slot == header[a].page_index
<1>1. /\ a \in live /\ a \notin Frees /\ a \in DOMAIN header /\ live \cup Frees = DOMAIN header
      /\ page = a.page /\ page \in Allocated /\ page \in Pages /\ slot < page_count
      /\ Frees = ToSet(m_frees) /\ m_frees \in Seq(Chunks) /\ IsFiniteSet(live)
      /\ PagesIn(page_header) = Allocated
      /\ Cut(DOMAIN header, header, page_header)
      /\ InSlots(DOMAIN header, header, page_header, m_pages, page_count)
      /\ Counted(live, page_header)
  BY GivenIs
<1>2. \A c \in DOMAIN header : c \in Chunks /\ header[c].size \in Nat /\ header[c].page_index \in Slots
  BY GivenIs
<1>3. \A c \in live \ {a} : c.page # page
  <2>1. Cardinality(LiveIn(live, page)) = 1
    BY <1>1 DEF Counted, LastAllocation
  <2>2. IsFiniteSet(LiveIn(live, page)) /\ a \in LiveIn(live, page)
    BY <1>1, FS_Subset DEF LiveIn
  <2>3. Cardinality(LiveIn(live, page) \ {a}) = 0 /\ IsFiniteSet(LiveIn(live, page) \ {a})
    BY <2>1, <2>2, FS_RemoveElement, FS_Subset
  <2>4. LiveIn(live, page) \ {a} = {}
    BY <2>3, FS_EmptySet
  <2> QED BY <2>4 DEF LiveIn
<1>4. \A c \in DOMAIN header : header[c].page_index = slot <=> c.page = page
  <2>1. \A c \in DOMAIN header : /\ header[c].page_index \in 0 .. page_count - 1
                                 /\ m_pages[header[c].page_index] = c.page
    <3>1. page_count \in Int
      BY GivenIs DEF Types
    <3>2. \A c \in DOMAIN header : header[c].page_index < page_count /\ m_pages[header[c].page_index] = c.page
      BY <1>1 DEF InSlots
    <3> QED BY <1>2, <3>1, <3>2, ManagerOK DEF Slots
  <2> QED BY <1>1, <2>1 DEF InSlots
<1>5. Gone(slot) = {c \in Frees : c.page = page}
  <2>1. \A k \in DOMAIN m_frees : m_frees[k] \in Frees
    BY <1>1 DEF ToSet
  <2>2. \A c \in Frees : \E k \in DOMAIN m_frees : c = m_frees[k]
    BY <1>1 DEF ToSet
  <2>3. Frees \subseteq DOMAIN header
    BY <1>1
  <2> HIDE DEF slot
  <2> QED BY <1>4, <2>1, <2>2, <2>3 DEF Gone, Leaving
<1>6. {c \in DOMAIN header : c.page = page} = Gone(slot) \cup {a}
  BY <1>1, <1>3, <1>5
<1>7. IsFiniteSet(DOMAIN header) /\ IsFiniteSet(Gone(slot)) /\ a \notin Gone(slot)
  <2>1. IsFiniteSet(Frees)
    BY <1>1, ToSetFinite
  <2>2. IsFiniteSet(live \cup Frees)
    BY <1>1, <2>1, FS_Union
  <2>3. Gone(slot) \subseteq Frees
    BY <1>5
  <2>4. IsFiniteSet(Gone(slot))
    BY <2>1, <2>3, FS_Subset
  <2> QED BY <1>1, <2>2, <2>3, <2>4
<1>8. Total(header, {c \in DOMAIN header : c.page = page}) = page_header[page].size - PageHeaderSize
  <2>1. PICK S, n : S = DOMAIN header /\ n = page_header[page].size
    OBVIOUS
  <2>2. n \in Nat /\ n > PageHeaderSize /\ Tile(S, header, page, n)
    BY <1>1, <2>1, GivenIs DEF Cut, Types, PageHeaders
  <2>3. Sized(S, header) /\ IsFiniteSet(S) /\ n >= PageHeaderSize
    BY <1>2, <1>7, <2>1, <2>2, ManagerOK DEF Sized
  <2>4. Total(header, {c \in S : c.page = page}) = n - PageHeaderSize
    BY <2>2, <2>3, TotalOfPage
  <2> QED BY <2>1, <2>4, Zenon
<1>9. \A c \in Gone(slot) \cup {a} : header[c].size \in Int
  BY <1>1, <1>2, <1>5
<1>10. Total(header, Gone(slot) \cup {a}) = header[a].size + Total(header, Gone(slot))
  BY <1>7, <1>9, TotalWith
<1>11. Total(header, Gone(slot)) \in Int
  <2>1. \A c \in Gone(slot) : header[c].size \in Int
    BY <1>9
  <2> QED BY <1>7, <2>1, TotalInt
<1>12. page_header[page].size \in Int /\ header[a].size \in Int
  BY <1>1, <1>2, GivenIs DEF Types, PageHeaders
<1>13. page_header[page].size = PageHeaderSize + header[a].size + Total(header, Gone(slot))
  <2>1. page_header[page].size - PageHeaderSize = header[a].size + Total(header, Gone(slot))
    BY <1>6, <1>8, <1>10, Zenon
  <2> HIDE DEF slot
  <2> QED BY <1>11, <1>12, <2>1, ManagerOK
<1> QED BY <1>3, <1>5, <1>6, <1>11, <1>13

LEMMA LessIsInt ==
    \A m \in Int, k \in Int : m - k \in Int
OBVIOUS

LEMMA GiveBackKeeps ==
    ASSUME NEW a, Given(a), NEW page, page = m_pages[header[a].page_index], LastAllocation(page),
           GiveBack(a, page), live' = live \ {a},
           UNCHANGED <<m_default_page_size, m_domain, allocations>>
    PROVE  Inv'
<1> DEFINE slot == header[a].page_index
           L == live \ {a}
           G == Gone(slot)
<1>1. /\ Types /\ Figured(live, m_frees, header, page_header, m_statistics)
      /\ Listed(live, m_frees, header, page_header, m_pages)
      /\ a \in live /\ a \in DOMAIN header /\ a \notin Frees /\ header[a] \in Headers /\ header[a].size \in Nat
      /\ live \cup Frees = DOMAIN header /\ live \cap Frees = {} /\ Frees = ToSet(m_frees)
      /\ page \in Pages /\ page \in Allocated /\ PagesIn(page_header) = Allocated /\ IsFiniteSet(live)
      /\ IsFiniteSet(Allocated) /\ slot \in Slots /\ m_frees \in Seq(Chunks) /\ NoTwice(m_frees)
  BY GivenIs
<1>2. \A c \in DOMAIN header : /\ c \in Chunks /\ c.page \in Allocated /\ header[c].size \in Nat
                               /\ header[c].size >= HeaderSize /\ header[c].page_index \in Slots
                               /\ header[c] \in Headers /\ m_pages[header[c].page_index] \in Pages
  BY GivenIs
<1>3. /\ m_frees' = Dropped(m_frees, slot)
      /\ m_pages' = SlotFilled(slot)
      /\ page_count' = (IF slot < page_count THEN page_count - 1 ELSE page_count)
      /\ page_header' = WithoutPage(page)
      /\ header' = OnlyOf(header, Stay(a, page))
      /\ m_statistics' =
             GivenIn(Returned(a), Returned(a).allocation_unused - Cardinality(Leaving(m_frees, slot)),
                     Returned(a).page_allocated - 1, Returned(a).memory_used - PageHeaderSize,
                     Returned(a).memory_allocated - PageHeaderSize - header[a].size
                         - Total(header, Gone(slot)))
      /\ sound' = (sound /\ slot = page_count - 1)
      /\ corrupted' = \E c \in live \ {a} : c.page = page
  <2>1. PageGiven(a, page)
    BY GiveBackIs
  <2> QED BY <2>1, Zenon DEF PageGiven
<1>4. /\ Dropped(m_frees, slot) \in Seq(Chunks) /\ NoTwice(Dropped(m_frees, slot))
      /\ ToSet(Dropped(m_frees, slot)) = Frees \ G
      /\ Len(Dropped(m_frees, slot)) = Len(m_frees) - Cardinality(Leaving(m_frees, slot))
  <2> HIDE DEF slot
  <2> QED BY <1>1, DroppedKeeps DEF Gone
<1>5. /\ m_frees' \in Seq(Chunks) /\ NoTwice(m_frees') /\ ToSet(m_frees') = Frees \ G
      /\ Len(m_frees') = Len(m_frees) - Cardinality(Leaving(m_frees, slot))
      /\ Cardinality(Leaving(m_frees, slot)) \in Nat
  <2>1. IsFiniteSet(Leaving(m_frees, slot))
    <3>1. PICK n \in Nat : n = Len(m_frees) /\ DOMAIN m_frees = 1 .. n
      BY <1>1
    <3>2. IsFiniteSet(1 .. n) /\ Leaving(m_frees, slot) \subseteq 1 .. n
      BY <3>1, FS_Interval DEF Leaving
    <3> QED BY <3>2, FS_Subset
  <2> QED BY <1>3, <1>4, <2>1, FS_CardinalityType
<1>6. /\ m_pages' \in [Slots -> Pages \cup {Null}] /\ page_count' \in 0 .. page_count
      /\ \A j \in 0 .. page_count' - 1 : m_pages'[j] \in Pages
      /\ \A j \in Slots : m_pages[j] \in Pages => m_pages'[j] \in Pages
      /\ slot = page_count - 1 => m_pages' = m_pages
  <2>1. m_pages[slot] \in Pages
    BY <1>1
  <2> HIDE DEF slot
  <2>2. LET k == IF slot < page_count THEN page_count - 1 ELSE page_count IN
        /\ SlotFilled(slot) \in [Slots -> Pages \cup {Null}]
        /\ k \in 0 .. page_count
        /\ \A j \in 0 .. k - 1 : SlotFilled(slot)[j] \in Pages
        /\ \A j \in Slots : m_pages[j] \in Pages => SlotFilled(slot)[j] \in Pages
        /\ slot = page_count - 1 => SlotFilled(slot) = m_pages
    BY <1>1, <2>1, SlotFilledIs
  <2> QED BY <1>3, <2>2, Zenon
<1>7. /\ page_header' \in [Pages -> PageHeaders] /\ page_header'[page].size = 0
      /\ \A p \in Pages : p # page => page_header'[p] = page_header[p]
      /\ PagesIn(page_header') = Allocated \ {page}
      /\ Cardinality(PagesIn(page_header')) = Cardinality(Allocated) - 1
      /\ Cardinality(Allocated) \in Nat
      /\ Total(page_header, Allocated) = page_header[page].size + Total(page_header', PagesIn(page_header'))
      /\ Total(page_header', PagesIn(page_header')) \in Int
  <2>1. page_header \in [Pages -> PageHeaders]
    BY <1>1 DEF Types
  <2> QED BY <1>1, <1>3, <2>1, WithoutPageIs, Zenon
<1>8. /\ DOMAIN header' = Stay(a, page) /\ header' \in [DOMAIN header' -> Headers]
      /\ \A c \in DOMAIN header' : header'[c] = header[c]
      /\ Stay(a, page) = {c \in DOMAIN header \ {a} : c.page # page /\ c \notin G}
  <2>1. Stay(a, page) = {c \in DOMAIN header \ {a} : c.page # page /\ c \notin G}
    BY Zenon DEF Stay
  <2>2. header' = [c \in Stay(a, page) |-> header[c]]
    BY <1>3, Zenon DEF OnlyOf
  <2>3. DOMAIN header' = Stay(a, page) /\ \A c \in Stay(a, page) : header'[c] = header[c]
    BY <2>2
  <2>4. \A c \in Stay(a, page) : header[c] \in Headers
    BY <1>2, <2>1
  <2> QED BY <2>1, <2>2, <2>3, <2>4
<1>9. /\ m_statistics' \in Statistics
      /\ m_statistics'.allocation_used = m_statistics.allocation_used - 1
      /\ m_statistics'.memory_used = m_statistics.memory_used - header[a].size - PageHeaderSize
      /\ m_statistics'.allocation_unused = m_statistics.allocation_unused - Cardinality(Leaving(m_frees, slot))
      /\ m_statistics'.page_allocated = m_statistics.page_allocated - 1
      /\ m_statistics'.memory_allocated =
             m_statistics.memory_allocated - PageHeaderSize - header[a].size - Total(header, G)
  <2>1. /\ Returned(a) \in Statistics
        /\ Returned(a).allocation_used = m_statistics.allocation_used - 1
        /\ Returned(a).memory_used = m_statistics.memory_used - header[a].size
        /\ Returned(a).allocation_unused = m_statistics.allocation_unused
        /\ Returned(a).page_allocated = m_statistics.page_allocated
        /\ Returned(a).memory_allocated = m_statistics.memory_allocated
    BY <1>1, ReturnedIs DEF Types
  <2>2. PICK m, v, q, b, w, s : /\ m = Returned(a) /\ s = m_statistics'
                                /\ v = m.allocation_unused - Cardinality(Leaving(m_frees, slot))
                                /\ q = m.page_allocated - 1 /\ b = m.memory_used - PageHeaderSize
                                /\ w = m.memory_allocated - PageHeaderSize - header[a].size - Total(header, G)
    BY Zenon
  <2>3. m \in Statistics /\ s = GivenIn(m, v, q, b, w)
    BY <1>3, <2>1, <2>2, Zenon
  <2> HIDE <1>3
  <2>4. /\ s.memory_allocated = w /\ s.memory_used = b /\ s.page_allocated = q
        /\ s.allocation_unused = v /\ s.allocation_used = m.allocation_used
        /\ s.domains_allocated = m.domains_allocated
        /\ s = [x \in FigureNames |-> s[x]]
    BY <2>3, FiguresOfGiven
  <2>5. /\ m.memory_allocated \in Int /\ m.memory_used \in Int /\ m.page_allocated \in Int
        /\ m.allocation_used \in Int /\ m.allocation_unused \in Int /\ m.domains_allocated \in Seq(Int)
    BY <2>3, StatisticsAre
  <2>6. Total(header, G) \in Int
    <3>1. IsFiniteSet(Frees)
      BY <1>1, ToSetFinite
    <3>2. G \subseteq Frees
      BY <1>1 DEF Gone, Leaving, ToSet
    <3>3. IsFiniteSet(G)
      BY <3>1, <3>2, FS_Subset
    <3>4. \A c \in G : header[c].size \in Int
      BY <1>1, <1>2, <3>2
    <3> HIDE DEF G
    <3> QED BY <3>3, <3>4, TotalInt
  <2>7. PICK z \in Nat, y \in Int, x \in Nat : z = Cardinality(Leaving(m_frees, slot)) /\ y = Total(header, G)
                                              /\ x = header[a].size
    BY <1>1, <1>5, <2>6
  <2>8. /\ v = m.allocation_unused - z /\ q = m.page_allocated - 1 /\ b = m.memory_used - PageHeaderSize
        /\ w = m.memory_allocated - PageHeaderSize - x - y
    BY <2>2, <2>7, Zenon
  <2>9. v \in Int /\ q \in Int /\ b \in Int /\ w \in Int
    <3>1. z \in Int /\ 1 \in Int /\ PageHeaderSize \in Int /\ x \in Int
      BY ManagerOK
    <3>2. v \in Int
      BY <2>5, <2>8, <3>1, LessIsInt, Zenon
    <3>3. q \in Int
      BY <2>5, <2>8, <3>1, LessIsInt, Zenon
    <3>4. b \in Int
      BY <2>5, <2>8, <3>1, LessIsInt, Zenon
    <3>5. w \in Int
      BY <2>5, <2>8, <3>1, LessIsInt, Zenon
    <3> QED BY <3>2, <3>3, <3>4, <3>5
  <2>10. s \in Statistics
    BY <2>4, <2>5, <2>9, StatisticsAre, Zenon
  <2> QED BY <2>1, <2>2, <2>4, <2>10, Zenon
<1>10. L = live' /\ live' \cup Frees' = L \cup (Frees \ G) /\ Frees' = ToSet(m_frees')
  BY <1>5 DEF Frees
<1>11. /\ sound' = (sound /\ slot = page_count - 1)
       /\ page_count' = (IF slot < page_count THEN page_count - 1 ELSE page_count)
       /\ corrupted' = \E c \in L : c.page = page
  BY <1>3
<1> HIDE <1>3, <1>4
<1>12. G \subseteq Frees
  BY <1>1 DEF Gone, Leaving, ToSet
<1>13. Types'
  <2>1. L \subseteq Chunks /\ IsFiniteSet(L)
    BY <1>1, FS_Subset DEF Types
  <2>2. DOMAIN header' \subseteq Chunks
    BY <1>2, <1>8
  <2>3. sound' \in BOOLEAN /\ corrupted' \in BOOLEAN
    BY <1>1, <1>11 DEF Types
  <2>4. page_count' \in 0 .. allocations'
    BY <1>1, <1>6 DEF Types
  <2> HIDE <1>11 DEF L
  <2> QED BY <1>1, <1>5, <1>6, <1>7, <1>8, <1>9, <1>10, <2>1, <2>2, <2>3, <2>4 DEF Types
<1> HIDE DEF L, G
<1>14. L \subseteq live /\ a \notin L /\ live = L \cup {a}
  BY <1>1 DEF L
<1>15. ASSUME ~corrupted' PROVE Listed(L, m_frees', header', page_header', m_pages')
  <2>1. \A c \in L : c.page # page
    BY <1>11, <1>15
  <2>2. L \cap ToSet(m_frees') = {}
    BY <1>1, <1>5, <1>14
  <2>3. L \subseteq DOMAIN header'
    BY <1>1, <1>8, <1>12, <1>14, <2>1
  <2>4. DOMAIN header' \subseteq L \cup ToSet(m_frees')
    BY <1>1, <1>5, <1>8, <1>14
  <2>5. ASSUME NEW c \in L \cup ToSet(m_frees') PROVE c \in DOMAIN header' <=> page_header'[c.page].size # 0
    <3>1. c \in DOMAIN header /\ c # a /\ c \notin G /\ c.page \in Allocated /\ c.page \in Pages
      BY <1>1, <1>2, <1>5, <1>12, <1>14 DEF Allocated
    <3>2. page_header[c.page].size # 0
      BY <3>1 DEF Allocated
    <3> QED BY <1>7, <1>8, <3>1, <3>2
  <2>6. \A c \in DOMAIN header' : /\ header'[c].size >= HeaderSize /\ header'[c].page_index \in Slots
                                  /\ m_pages'[header'[c].page_index] \in Pages
    BY <1>2, <1>6, <1>8
  <2> QED BY <1>5, <2>2, <2>3, <2>4, <2>5, <2>6 DEF Listed
<1>16. ASSUME ~corrupted' PROVE Figured(L, m_frees', header', page_header', m_statistics')
  <2>1. /\ IsFiniteSet(L) /\ Cardinality(live) \in Nat
        /\ Cardinality(L) = Cardinality(live) - 1
        /\ Total(header, L) \in Int
        /\ Total(header, live) = header[a].size + Total(header, L)
    <3>1. live \subseteq DOMAIN header
      BY <1>1
    <3> QED BY <1>1, <3>1, LessOne DEF L
  <2>2. Total(header', L) = Total(header, L)
    <3>1. \A c \in L : header'[c].size = header[c].size
      BY <1>8, <1>15, <1>16 DEF Listed
    <3> QED BY <2>1, <3>1, TotalSame
  <2>3. PICK k \in Nat : k = Cardinality(Allocated) /\ Cardinality(PagesIn(page_header')) = k - 1
    BY <1>7
  <2>4. PageHeaderSize * (k - 1) = PageHeaderSize * k - PageHeaderSize /\ PageHeaderSize * k \in Int
        /\ PageHeaderSize \in Int
    BY ManagerOK
  <2>5. /\ m_statistics.allocation_used = Cardinality(live)
        /\ m_statistics.allocation_unused = Len(m_frees)
        /\ m_statistics.page_allocated = k
        /\ m_statistics.memory_used = Total(header, live) + PageHeaderSize * k
    BY <1>1, <2>3, Zenon DEF Figured
  <2>6. m_statistics'.memory_used = Total(header', L) + PageHeaderSize * (k - 1)
    BY <1>1, <1>9, <2>1, <2>2, <2>4, <2>5
  <2> QED BY <1>5, <1>9, <2>1, <2>3, <2>5, <2>6 DEF Figured
<1>17. ASSUME sound'
       PROVE  /\ ~corrupted'
              /\ Cut(L \cup (Frees \ G), header', page_header')
              /\ InSlots(L \cup (Frees \ G), header', page_header', m_pages', page_count')
              /\ Counted(L, page_header') /\ Summed(page_header', m_statistics')
  <2>1. sound /\ slot = page_count - 1 /\ m_pages' = m_pages
    BY <1>6, <1>11, <1>17
  <2>2. /\ \A c \in live \ {a} : c.page # page
        /\ Gone(slot) = {c \in Frees : c.page = page}
        /\ page_header[page].size = PageHeaderSize + header[a].size + Total(header, Gone(slot))
        /\ Total(header, Gone(slot)) \in Int
    BY <2>1, GivenPage
  <2>3. /\ \A c \in L : c.page # page
        /\ G = {c \in Frees : c.page = page}
        /\ page_header[page].size = PageHeaderSize + header[a].size + Total(header, G)
        /\ Total(header, G) \in Int
    BY <2>2, Zenon DEF G, L
  <2>4. /\ Cut(DOMAIN header, header, page_header)
        /\ InSlots(DOMAIN header, header, page_header, m_pages, page_count)
        /\ Counted(live, page_header) /\ Summed(page_header, m_statistics)
        /\ page = a.page /\ slot < page_count /\ m_pages[slot] = page
    BY <1>1, <2>1, GivenIs
  <2> HIDE DEF slot
  <2>5. page_count \in Nat /\ slot \in Nat /\ page_count' = page_count - 1
    <3>1. page_count \in Nat
      BY <1>1 DEF Types
    <3> QED BY <1>1, <1>11, <2>4, <3>1, ManagerOK DEF Slots
  <2>6. DOMAIN header' = L \cup (Frees \ G) /\ \A c \in DOMAIN header : c \in DOMAIN header' <=> c.page # page
    <3>1. a \in DOMAIN header /\ a.page = page
      BY <1>1, <2>4
    <3> QED BY <1>1, <1>8, <1>12, <1>14, <2>3, <3>1
  <2>7. ~corrupted'
    BY <1>11, <2>3
  <2>8. Cut(DOMAIN header', header', page_header')
    <3>1. \A c \in DOMAIN header' : page_header'[c.page].size # 0
      BY <1>2, <1>7, <1>8 DEF Allocated
    <3>2. ASSUME NEW p \in Allocated \ {page}
          PROVE  page_header'[p].size > PageHeaderSize /\ Tile(DOMAIN header', header', p, page_header'[p].size)
      <4>1. page_header'[p] = page_header[p]
        BY <1>7 DEF Allocated
      <4>2. page_header[p].size > PageHeaderSize /\ Tile(DOMAIN header, header, p, page_header[p].size)
        BY <1>1, <2>4 DEF Cut
      <4>3. \A c \in DOMAIN header \cup DOMAIN header' : c.page = p =>
                (c \in DOMAIN header <=> c \in DOMAIN header') /\ header[c].size = header'[c].size
        BY <1>8, <2>6
      <4>4. PICK S, T : S = DOMAIN header /\ T = DOMAIN header'
        OBVIOUS
      <4>5. Tile(T, header', p, page_header[p].size)
        BY <4>2, <4>3, <4>4, TileSame
      <4> QED BY <4>1, <4>2, <4>4, <4>5
    <3> QED BY <1>7, <3>1, <3>2 DEF Cut
  <2>9. InSlots(DOMAIN header', header', page_header', m_pages, page_count - 1)
    <3>1. /\ Allocated = {m_pages[i] : i \in 0 .. page_count - 1}
          /\ \A i, j \in 0 .. page_count - 1 : m_pages[i] = m_pages[j] => i = j
          /\ \A c \in DOMAIN header : header[c].page_index < page_count /\ m_pages[header[c].page_index] = c.page
      BY <1>1, <2>4 DEF InSlots
    <3>2. /\ \A i \in 0 .. page_count - 1 : i = slot \/ i \in 0 .. (page_count - 1) - 1
          /\ \A i \in 0 .. (page_count - 1) - 1 : i \in 0 .. page_count - 1 /\ i # slot
          /\ slot \in 0 .. page_count - 1
      BY <2>1, <2>5
    <3>3. PagesIn(page_header') = {m_pages[i] : i \in 0 .. (page_count - 1) - 1}
      <4>1. \A p \in Allocated \ {page} : \E i \in 0 .. (page_count - 1) - 1 : p = m_pages[i]
        BY <2>4, <3>1, <3>2
      <4>2. \A i \in 0 .. (page_count - 1) - 1 : m_pages[i] \in Allocated \ {page}
        BY <2>4, <3>1, <3>2
      <4> QED BY <1>7, <4>1, <4>2
    <3>4. \A i, j \in 0 .. (page_count - 1) - 1 : m_pages[i] = m_pages[j] => i = j
      BY <3>1, <3>2
    <3>5. ASSUME NEW c \in DOMAIN header'
          PROVE  header'[c].page_index < page_count - 1 /\ m_pages[header'[c].page_index] = c.page
      <4>1. c \in DOMAIN header /\ c.page # page /\ header'[c] = header[c] /\ header[c].page_index \in Nat
        BY <1>2, <1>8 DEF Headers
      <4>2. header[c].page_index < page_count /\ m_pages[header[c].page_index] = c.page
        BY <3>1, <4>1
      <4>3. header[c].page_index # slot
        BY <2>4, <4>1, <4>2
      <4> QED BY <2>1, <2>5, <4>1, <4>2, <4>3
    <3> QED BY <3>3, <3>4, <3>5 DEF InSlots
  <2>10. Counted(L, page_header')
    <3> SUFFICES ASSUME NEW p \in Allocated \ {page}
                 PROVE  /\ page_header'[p].allocation_count = Cardinality(LiveIn(L, p))
                        /\ page_header'[p].allocation_count > 0
      BY <1>7 DEF Counted
    <3>1. LiveIn(L, p) = LiveIn(live, p)
      BY <1>14, <2>4 DEF LiveIn
    <3>2. page_header'[p] = page_header[p]
      BY <1>7 DEF Allocated
    <3> QED BY <1>1, <2>4, <3>1, <3>2 DEF Counted
  <2>11. Summed(page_header', m_statistics')
    <3>1. m_statistics.memory_allocated = Total(page_header, Allocated)
      BY <1>1, <2>4 DEF Summed
    <3>2. PICK t \in Int, g \in Int : t = Total(page_header', PagesIn(page_header')) /\ g = Total(header, G)
      BY <1>7, <2>3
    <3>3. m_statistics.memory_allocated = (PageHeaderSize + header[a].size + g) + t
      BY <1>7, <2>3, <3>1, <3>2, Zenon
    <3>4. m_statistics'.memory_allocated = m_statistics.memory_allocated - PageHeaderSize - header[a].size - g
      BY <1>9, <3>2, Zenon
    <3>5. m_statistics'.memory_allocated = t
      <4> HIDE <3>2
      <4> QED BY <1>1, <3>3, <3>4, ManagerOK
    <3> QED BY <3>2, <3>5 DEF Summed
  <2> QED BY <2>1, <2>5, <2>6, <2>7, <2>8, <2>9, <2>10, <2>11, Zenon
<1>18. ~corrupted' => /\ Listed(live', m_frees', header', page_header', m_pages')
                      /\ Figured(live', m_frees', header', page_header', m_statistics')
  BY <1>10, <1>15, <1>16, Zenon
<1>19. sound' => /\ ~corrupted'
                 /\ Cut(live' \cup Frees', header', page_header')
                 /\ InSlots(live' \cup Frees', header', page_header', m_pages', page_count')
                 /\ Counted(live', page_header') /\ Summed(page_header', m_statistics')
  BY <1>10, <1>17, Zenon
<1> QED BY <1>13, <1>18, <1>19 DEF Inv

LEMMA DeallocateKeeps ==
    ASSUME Inv, NEW a \in live, Deallocate(a)
    PROVE  Inv'
<1> DEFINE page == m_pages[header[a].page_index]
<1>1. /\ ~corrupted /\ live' = live \ {a} /\ Types
      /\ UNCHANGED <<m_default_page_size, m_domain, allocations>>
  BY DEF Deallocate, Inv
<1>2. CASE page \notin Allocated \/ \E i \in DOMAIN m_frees : Dangling(m_frees[i])
  <2>1. /\ corrupted' = TRUE
        /\ UNCHANGED <<m_pages, page_count, m_frees, page_header, header, m_statistics, sound>>
    BY <1>2, Zenon DEF Deallocate
  <2>2. ~sound
    <3> SUFFICES ASSUME sound PROVE FALSE
      OBVIOUS
    <3>1. /\ Cut(live \cup Frees, header, page_header)
          /\ InSlots(live \cup Frees, header, page_header, m_pages, page_count)
          /\ Listed(live, m_frees, header, page_header, m_pages)
      BY <1>1 DEF Inv
    <3>2. \A c \in live \cup Frees : c \in DOMAIN header
      BY <3>1 DEF Cut, Listed, Frees
    <3>3. page = a.page /\ a \in Chunks /\ page_header[a.page].size # 0
      BY <1>1, <3>1 DEF Cut, InSlots, Types
    <3>4. page \in Allocated
      BY <3>3 DEF Allocated, Chunks
    <3>5. \A i \in DOMAIN m_frees : m_frees[i] \in Frees
      BY DEF Frees, ToSet
    <3> QED BY <1>2, <3>2, <3>4, <3>5 DEF Dangling
  <2>3. Types'
    <3>1. live \ {a} \subseteq Chunks /\ IsFiniteSet(live \ {a})
      BY <1>1, FS_Subset DEF Types
    <3> QED BY <1>1, <2>1, <3>1 DEF Types
  <2> QED BY <2>1, <2>2, <2>3 DEF Inv
<1>3. CASE ~ (page \notin Allocated \/ \E i \in DOMAIN m_frees : Dangling(m_frees[i]))
  <2>1. Given(a)
    BY <1>1, <1>3 DEF Given, Frees, ToSet, Dangling
  <2>2. IF LastAllocation(page) THEN GiveBack(a, page) ELSE Join(a, page)
    BY <1>3, Zenon DEF Deallocate
  <2> QED BY <1>1, <2>1, <2>2, GiveBackKeeps, JoinKeeps
<1> QED BY <1>2, <1>3

-----------------------------------------------------------------------------
(* The specification keeps the invariant *)

LEMMA InitKeeps == Init => Inv
<1> SUFFICES ASSUME Init PROVE Inv
  OBVIOUS
<1>1. ToSet(m_frees) = {} /\ Len(m_frees) = 0 /\ DOMAIN m_frees = {} /\ m_frees \in Seq(Chunks)
  <2>1. m_frees = <<>>
    BY Zenon DEF Init
  <2> QED BY <2>1 DEF ToSet
<1>2. /\ m_default_page_size \in Nat /\ m_domain = 0 /\ page_count = 0 /\ live = {} /\ allocations = 0
      /\ sound = TRUE /\ corrupted = FALSE
  BY ManagerOK DEF Init
<1>3. m_pages \in [Slots -> Pages \cup {Null}]
  BY DEF Init
<1>4. page_header \in [Pages -> PageHeaders] /\ PagesIn(page_header) = {}
  BY DEF Init, NoPage, PageHeaders, PagesIn
<1>5. DOMAIN header = {} /\ header \in [DOMAIN header -> Headers]
  BY DEF Init
<1>6. /\ m_statistics \in Statistics
      /\ m_statistics.allocation_used = 0 /\ m_statistics.allocation_unused = 0
      /\ m_statistics.page_allocated = 0 /\ m_statistics.memory_used = 0 /\ m_statistics.memory_allocated = 0
  BY DEF Init, Statistics
<1>7. IsFiniteSet({}) /\ Cardinality({}) = 0 /\ \A h : Total(h, {}) = 0
  BY FS_EmptySet, TotalNone
<1>8. Types
  <2>1. allocations \in 0 .. MaxAllocations /\ page_count \in 0 .. allocations /\ m_domain \in Nat
    BY <1>2, ManagerOK
  <2>2. \A i \in 0 .. page_count - 1 : m_pages[i] \in Pages
    BY <1>2
  <2>3. live \subseteq Chunks /\ IsFiniteSet(live) /\ sound \in BOOLEAN /\ corrupted \in BOOLEAN
        /\ DOMAIN header \subseteq Chunks
    BY <1>2, <1>5, <1>7
  <2> QED BY <1>1, <1>2, <1>3, <1>4, <1>5, <1>6, <2>1, <2>2, <2>3, Zenon DEF Types
<1>9. Listed(live, m_frees, header, page_header, m_pages)
  BY <1>1, <1>2, <1>5 DEF Listed, NoTwice
<1>10. Figured(live, m_frees, header, page_header, m_statistics)
  BY <1>1, <1>2, <1>4, <1>6, <1>7, ManagerOK DEF Figured
<1>11. live \cup Frees = {}
  BY <1>1, <1>2 DEF Frees
<1>12. Cut({}, header, page_header) /\ InSlots({}, header, page_header, m_pages, page_count)
       /\ Counted(live, page_header) /\ Summed(page_header, m_statistics)
  BY <1>2, <1>4, <1>6, <1>7 DEF Cut, InSlots, Counted, Summed
<1> QED BY <1>2, <1>8, <1>9, <1>10, <1>11, <1>12 DEF Inv

LEMMA SetPageSizeKeeps ==
    ASSUME Inv, NEW size \in PageSizes, SetPageSize(size)
    PROVE  Inv'
<1>1. /\ UNCHANGED <<m_domain, m_pages, page_count, m_frees, page_header, header,
                     m_statistics, live, allocations, sound, corrupted>>
      /\ m_default_page_size' \in Nat
  BY ManagerOK DEF SetPageSize
<1>2. Types'
  BY <1>1 DEF Inv, Types
<1>3. Frees' = Frees
  BY <1>1 DEF Frees
<1> QED BY <1>1, <1>2, <1>3 DEF Inv

LEMMA SetDomainKeeps ==
    ASSUME Inv, NEW domain \in Domains, SetDomain(domain)
    PROVE  Inv'
<1>1. /\ UNCHANGED <<m_default_page_size, m_pages, page_count, m_frees, page_header,
                     header, live, allocations, sound, corrupted>>
      /\ m_domain' \in Nat /\ domain \in Nat
  BY ManagerOK DEF SetDomain
<1>2. PICK m, f, d, s : /\ m = m_statistics /\ f = m.domains_allocated /\ s = m_statistics'
                        /\ d = f \o [i \in 1 .. domain + 1 - Len(f) |-> 0]
  BY Zenon
<1>3. s = [m EXCEPT !.domains_allocated = d]
  BY <1>2, Zenon DEF SetDomain
<1>4. m \in Statistics
  BY <1>2 DEF Inv, Types
<1>5. /\ m.memory_allocated \in Int /\ m.memory_used \in Int /\ m.page_allocated \in Int
      /\ m.allocation_used \in Int /\ m.allocation_unused \in Int /\ m.domains_allocated \in Seq(Int)
      /\ DOMAIN m = FigureNames
  BY <1>4, StatisticsAre
<1>6. d \in Seq(Int)
  <2>1. f \in Seq(Int)
    BY <1>2, <1>5
  <2>2. PICK k \in Int : k = domain + 1 - Len(f)
    <3>1. PICK n \in Nat : n = Len(f)
      BY <2>1
    <3>2. domain + 1 - n \in Int
      BY <1>1
    <3> QED BY <3>1, <3>2
  <2>3. PICK z : z = [i \in 1 .. k |-> 0]
    OBVIOUS
  <2>4. z \in Seq(Int)
    <3>1. CASE k >= 0
      <4>1. k \in Nat /\ z \in [1 .. k -> Int]
        BY <2>3, <3>1
      <4> QED BY <4>1, SeqDef
    <3>2. CASE ~ (k >= 0)
      <4>1. 1 .. k = 1 .. 0
        BY <3>2
      <4>2. z \in [1 .. 0 -> Int] /\ 0 \in Nat
        BY <2>3, <4>1
      <4> QED BY <4>2, SeqDef
    <3> QED BY <3>1, <3>2
  <2>5. d = f \o z
    BY <1>2, <2>2, <2>3, Zenon
  <2> HIDE <2>3, <1>2
  <2> QED BY <2>1, <2>4, <2>5
<1> HIDE <1>2
<1>7. /\ s.memory_allocated = m.memory_allocated /\ s.memory_used = m.memory_used
      /\ s.page_allocated = m.page_allocated /\ s.allocation_used = m.allocation_used
      /\ s.allocation_unused = m.allocation_unused /\ s.domains_allocated = d
      /\ s = [x \in FigureNames |-> s[x]]
  BY <1>3, <1>5, Zenon DEF FigureNames
<1>8. s \in Statistics
  BY <1>5, <1>6, <1>7, StatisticsAre, Zenon
<1>9. s = m_statistics' /\ m = m_statistics
  BY <1>2
<1>10. Types'
  BY <1>1, <1>8, <1>9 DEF Inv, Types
<1>11. Frees' = Frees
  BY <1>1 DEF Frees
<1>12. ~corrupted => Figured(live, m_frees, header, page_header, m_statistics')
  BY <1>7, <1>9 DEF Inv, Figured
<1>13. sound => Summed(page_header, m_statistics')
  BY <1>7, <1>9 DEF Inv, Summed
<1>14. ~corrupted' => Listed(live', m_frees', header', page_header', m_pages')
                      /\ Figured(live', m_frees', header', page_header', m_statistics')
  BY <1>1, <1>12 DEF Inv
<1>15. sound' => /\ ~corrupted'
                 /\ Cut(live' \cup Frees', header', page_header')
                 /\ InSlots(live' \cup Frees', header', page_header', m_pages', page_count')
                 /\ Counted(live', page_header') /\ Summed(page_header', m_statistics')
  BY <1>1, <1>11, <1>13 DEF Inv
<1> QED BY <1>10, <1>14, <1>15 DEF Inv

LEMMA StutterKeeps ==
    ASSUME Inv, UNCHANGED vars
    PROVE  Inv'
<1>1. UNCHANGED <<m_default_page_size, m_domain, m_pages, page_count, m_frees, page_header, header,
                  m_statistics, live, allocations, sound, corrupted>>
  BY DEF vars
<1>2. Frees' = Frees /\ Types'
  BY <1>1 DEF Frees, Inv, Types
<1> QED BY <1>1, <1>2 DEF Inv

LEMMA NextKeeps == Inv /\ [Next]_vars => Inv'
<1> SUFFICES ASSUME Inv, [Next]_vars PROVE Inv'
  OBVIOUS
<1>1. ASSUME NEW size \in PageSizes, SetPageSize(size) PROVE Inv'
  BY <1>1, SetPageSizeKeeps
<1>2. ASSUME NEW domain \in Domains, SetDomain(domain) PROVE Inv'
  BY <1>2, SetDomainKeeps
<1>3. ASSUME NEW size \in Sizes, Allocate(size) PROVE Inv'
  BY <1>3, AllocateKeeps
<1>4. ASSUME NEW a \in live, Deallocate(a) PROVE Inv'
  BY <1>4, DeallocateKeeps
<1>5. CASE UNCHANGED vars
  BY <1>5, StutterKeeps
<1> QED BY <1>1, <1>2, <1>3, <1>4, <1>5 DEF Next

-----------------------------------------------------------------------------
(* The theorems *)

THEOREM Invariance == Spec => []Inv
<1>1. Init => Inv
  BY InitKeeps
<1>2. Inv /\ [Next]_vars => Inv'
  BY NextKeeps
<1> QED BY <1>1, <1>2, PTL DEF Spec

LEMMA TypesAre ==
    ASSUME Inv
    PROVE  TypeOK
<1>1. /\ m_default_page_size \in Nat /\ m_domain \in Nat
      /\ m_pages \in [Slots -> Pages \cup {Null}]
      /\ m_frees \in Seq(Chunks)
      /\ page_header \in [Pages -> PageHeaders]
      /\ live \subseteq Chunks
      /\ header \in [DOMAIN header -> Headers]
      /\ m_statistics \in Statistics
      /\ allocations \in 0 .. MaxAllocations
      /\ sound \in BOOLEAN
      /\ corrupted \in BOOLEAN
  BY DEF Inv, Types
<1>2. page_count \in 0 .. MaxAllocations
  BY ManagerOK DEF Inv, Types
<1>3. ASSUME sound
      PROVE  DOMAIN header = live \cup Frees /\ live \cap Frees = {} /\ Len(m_frees) = Cardinality(Frees)
  <2>1. Listed(live, m_frees, header, page_header, m_pages) /\ Cut(live \cup Frees, header, page_header)
    BY <1>3 DEF Inv
  <2>2. \A c \in live \cup Frees : c \in DOMAIN header
    BY <2>1 DEF Listed, Cut, Frees
  <2>3. NoTwice(m_frees) /\ live \cap Frees = {} /\ DOMAIN header \subseteq live \cup Frees
    BY <2>1 DEF Listed, Frees
  <2>4. Len(m_frees) = Cardinality(Frees)
    BY <1>1, <2>3, ToSetFinite DEF Frees
  <2> QED BY <2>2, <2>3, <2>4
<1> QED BY <1>1, <1>2, <1>3, Zenon DEF TypeOK

\* A unit of a page that is cut up exactly is in one chunk.
LEMMA UnitOnce ==
    ASSUME NEW S, NEW h, Sized(S, h), NEW p, NEW n \in Nat, Tile(S, h, p, n),
           NEW u \in PageHeaderSize .. n - 1
    PROVE  Cardinality({c \in S : c.page = p /\ u \in c.offset .. c.offset + h[c].size - 1}) = 1
<1> DEFINE of == {c \in S : c.page = p /\ u \in c.offset .. c.offset + h[c].size - 1}
<1>1. \A c \in S : c.offset \in Nat /\ h[c].size \in Nat
  BY DEF Sized, Chunks
<1>2. u \in Int
  BY ManagerOK
<1>3. \A c \in S : u \in c.offset .. c.offset + h[c].size - 1 <=> c.offset <= u /\ u < c.offset + h[c].size
  BY <1>1, <1>2
<1>4. PICK x \in S : x.page = p /\ x.offset <= u /\ u < x.offset + h[x].size
  BY DEF Tile
<1>5. \A c \in S : c.page = p /\ c.offset <= u /\ u < c.offset + h[c].size => c = x
  <2> SUFFICES ASSUME NEW c \in S, c.page = p, c.offset <= u, u < c.offset + h[c].size, c # x
               PROVE  FALSE
    OBVIOUS
  <2>1. c.offset + h[c].size <= x.offset \/ x.offset + h[x].size <= c.offset
    BY <1>4 DEF Tile
  <2> QED BY <1>1, <1>2, <1>4, <2>1
<1>6. of = {x}
  BY <1>3, <1>4, <1>5
<1> HIDE DEF of
<1>7. Cardinality(of) = 1
  BY <1>6, FS_Singleton
<1> QED BY <1>7 DEF of

\* A page is cut up exactly by its chunks: whatever was allocated, split,
\* given back and joined before, no unit of a page is in two chunks and none
\* is in no chunk (memory_manager.cpp, allocate and deallocate).
THEOREM PagesStayTiled == Spec => []Tiling
<1>1. ASSUME Inv PROVE Tiling
  <2>1. TypeOK
    BY <1>1, TypesAre
  <2>2. ASSUME sound
        PROVE  /\ \A c \in live \cup Frees :
                      /\ c.page \in Allocated /\ header[c].size >= HeaderSize
                      /\ c.offset >= PageHeaderSize
                      /\ c.offset + header[c].size <= page_header[c.page].size
               /\ \A p \in Allocated : \A unit \in PageHeaderSize .. page_header[p].size - 1 :
                      Cardinality({c \in live \cup Frees :
                         c.page = p /\ unit \in c.offset .. c.offset + header[c].size - 1}) = 1
    <3>1. Cut(live \cup Frees, header, page_header) /\ PagesIn(page_header) = Allocated
      BY <1>1, <2>2 DEF Inv, PagesIn, Allocated
    <3>2. Sized(live \cup Frees, header)
      <4>1. /\ DOMAIN header = live \cup Frees /\ live \subseteq Chunks /\ m_frees \in Seq(Chunks)
            /\ header \in [DOMAIN header -> Headers]
        BY <2>1, <2>2, Zenon DEF TypeOK
      <4>2. Frees \subseteq Chunks
        BY <4>1, ToSetFinite DEF Frees
      <4>3. \A c \in live \cup Frees : header[c] \in Headers
        BY <4>1
      <4> QED BY <4>1, <4>2, <4>3, HeadersIs DEF Sized
    <3>3. \A c \in live \cup Frees : c.page \in Allocated
      BY <3>1, <3>2 DEF Cut, Sized, Chunks, Allocated
    <3>4. \A p \in Allocated : Tile(live \cup Frees, header, p, page_header[p].size)
      BY <3>1 DEF Cut
    <3>5. \A p \in Allocated : page_header[p].size \in Nat
      BY <2>1 DEF TypeOK, Allocated, PageHeaders
    <3>6. ASSUME NEW c \in live \cup Frees
          PROVE  /\ header[c].size >= HeaderSize /\ c.offset >= PageHeaderSize
                 /\ c.offset + header[c].size <= page_header[c.page].size
      BY <3>3, <3>4 DEF Tile
    <3>7. ASSUME NEW p \in Allocated, NEW unit \in PageHeaderSize .. page_header[p].size - 1
          PROVE  Cardinality({c \in live \cup Frees :
                     c.page = p /\ unit \in c.offset .. c.offset + header[c].size - 1}) = 1
      <4>1. PICK n \in Nat : n = page_header[p].size
        BY <3>5
      <4>2. PICK S : S = live \cup Frees
        OBVIOUS
      <4>3. Sized(S, header) /\ Tile(S, header, p, n) /\ unit \in PageHeaderSize .. n - 1
        BY <3>2, <3>4, <4>1, <4>2, Zenon
      <4>4. Cardinality({c \in S : c.page = p /\ unit \in c.offset .. c.offset + header[c].size - 1}) = 1
        BY <4>3, UnitOnce
      <4> QED BY <4>2, <4>4, Zenon
    <3> QED BY <3>3, <3>6, <3>7, Zenon
  <2> QED BY <2>1, <2>2, Zenon DEF Tiling
<1> QED BY <1>1, Invariance, PTL

\* Until a page moves to another slot, the count that decides when a page is
\* given back is that of its allocations, and the slot in the header of a
\* chunk is that of its page (memory_manager.cpp:150-157).
THEOREM CountsStayRight == Spec => []PagesCounted
<1>1. ASSUME Inv PROVE PagesCounted
  <2> SUFFICES ASSUME sound
               PROVE  /\ ~corrupted
                      /\ Allocated = {m_pages[i] : i \in 0 .. page_count - 1}
                      /\ \A c \in live \cup Frees : header[c].page_index < page_count
                                                    /\ m_pages[header[c].page_index] = c.page
                      /\ \A p \in Allocated :
                            page_header[p].allocation_count = Cardinality({c \in live : c.page = p})
    BY Zenon DEF PagesCounted
  <2>1. /\ ~corrupted /\ InSlots(live \cup Frees, header, page_header, m_pages, page_count)
        /\ Counted(live, page_header) /\ PagesIn(page_header) = Allocated
    BY <1>1 DEF Inv, PagesIn, Allocated
  <2> QED BY <2>1, Zenon DEF InSlots, Counted, LiveIn
<1> QED BY <1>1, Invariance, PTL

\* What get_memory_statistics returns is what is allocated, after every split,
\* reuse, join and page given back, and no page is kept without an allocation
\* (memory_manager.cpp:118, 164).
THEOREM FiguresStayExact == Spec => []StatisticsExact
<1>1. ASSUME Inv PROVE FiguresExact
  <2> SUFFICES ASSUME ~corrupted
               PROVE  /\ m_statistics.allocation_used = Cardinality(live)
                      /\ m_statistics.allocation_unused = Len(m_frees)
                      /\ m_statistics.page_allocated = Cardinality(Allocated)
                      /\ m_statistics.memory_used = SizeOf(live) + PageHeaderSize * Cardinality(Allocated)
    BY Zenon DEF FiguresExact
  <2>1. Figured(live, m_frees, header, page_header, m_statistics) /\ PagesIn(page_header) = Allocated
    BY <1>1 DEF Inv, PagesIn, Allocated
  <2>2. SizeOf(live) = Total(header, live)
    BY Zenon DEF SizeOf, Total
  <2> QED BY <2>1, <2>2, Zenon DEF Figured
<1>2. ASSUME Inv PROVE PagesExact
  <2> SUFFICES ASSUME sound
               PROVE  /\ m_statistics.memory_allocated
                           = MapThenSumSet(LAMBDA p : page_header[p].size, Allocated)
                      /\ \A p \in Allocated : \E c \in live : c.page = p
    BY Zenon DEF PagesExact
  <2>1. /\ Counted(live, page_header) /\ Summed(page_header, m_statistics)
        /\ PagesIn(page_header) = Allocated
    BY <1>2 DEF Inv, PagesIn, Allocated
  <2>2. MapThenSumSet(LAMBDA p : page_header[p].size, Allocated) = Total(page_header, Allocated)
    BY Zenon DEF Total
  <2>3. ASSUME NEW p \in Allocated PROVE \E c \in live : c.page = p
    <3>1. Cardinality(LiveIn(live, p)) > 0
      BY <2>1 DEF Counted
    <3>2. LiveIn(live, p) # {}
      BY <3>1, FS_EmptySet
    <3> QED BY <3>2 DEF LiveIn
  <2> QED BY <2>1, <2>2, <2>3, Zenon DEF Summed
<1> QED BY <1>1, <1>2, Invariance, PTL DEF StatisticsExact

=============================================================================
