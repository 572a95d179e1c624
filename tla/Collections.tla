----------------------------- MODULE Collections -----------------------------
(***************************************************************************)
(* What a Vector and a HashMap promise: a sequence of elements and a       *)
(* function from keys to values, each changed by one call at a time.       *)
(***************************************************************************)
EXTENDS Integers, Sequences, SequencesExt, FiniteSets

CONSTANTS Vectors, Maps, Keys, Values,
          Unset,            \* an element nobody has set
          None,           \* no value
          Unspecified     \* a vector that was moved from, a map that was assigned to

VARIABLES seq, map

Elements == Values \cup {Unset}

Init ==
    /\ seq = [v \in Vectors |-> <<>>]
    /\ map = [m \in Maps |-> [k \in Keys |-> None]]

-----------------------------------------------------------------------------
(* Sequences *)

Padded(s, n) == s \o [i \in 1 .. n - Len(s) |-> Unset]

\* An element at the end, or at an index; an index behind the end is reached.
Insertions(s) ==
    {Append(s, x) : x \in Elements}
        \cup {InsertAt(s, i, x) : i \in 1 .. Len(s), x \in Elements}
        \cup {[Padded(s, Len(s) + 2) EXCEPT ![Len(s) + 2] = x] : x \in Elements}

\* The last element takes the place of the one removed.
Removals(s) == {[j \in 1 .. Len(s) - 1 |-> IF j = i THEN Last(s) ELSE s[j]] : i \in DOMAIN s}

\* resize() keeps what it does not cut, or nothing; expand() keeps everything.
Resized(s, t) ==
    \/ \A i \in DOMAIN s \cap DOMAIN t : t[i] = s[i]
    \/ \A i \in DOMAIN t : t[i] = Unset
    \/ \E x \in Values : \A i \in DOMAIN t : t[i] = x

Sorted(s, t) ==
    /\ Len(s) = Len(t)
    /\ Unset \notin ToSet(s) \cup ToSet(t)
    /\ \A i \in 1 .. Len(t) - 1 : t[i] <= t[i + 1]
    /\ \A x \in Values : Cardinality({i \in DOMAIN t : t[i] = x}) = Cardinality({i \in DOMAIN s : s[i] = x})

ChangedSeq(s, t) ==
    \/ t \in Insertions(s) \cup Removals(s)
    \/ Resized(s, t)
    \/ Sorted(s, t)

ChangeOne ==
    \E v \in Vectors :
        /\ \A w \in Vectors \ {v} : seq'[w] = seq[w]
        /\ \/ seq'[v] = <<>>
           \/ /\ seq[v] # Unspecified
              /\ seq'[v] # Unspecified
              /\ \/ ChangedSeq(seq[v], seq'[v])
                 \/ \E w \in Vectors : seq[w] # Unspecified /\ seq'[v] \in {seq[w], seq[v] \o seq[w]}

Move ==
    \E v, w \in Vectors :
        /\ seq'[v] = IF v = w THEN <<>> ELSE seq[w]
        /\ v # w => seq'[w] \in {Unspecified, seq[w]} /\ (seq[w] # <<>> => seq'[w] = Unspecified)
        /\ \A u \in Vectors \ {v, w} : seq'[u] = seq[u]

-----------------------------------------------------------------------------
(* Maps *)

Empty == [k \in Keys |-> None]

\* One key is given a value.
PutIn(f, g) ==
    LET keys == {k \in Keys : g[k] # f[k]}
    IN  Cardinality(keys) <= 1 /\ \A k \in keys : g[k] \in Values

ChangedMap(f, g) == g \in {Unspecified, Empty} \/ (f # Unspecified /\ PutIn(f, g))

ChangeMap ==
    \E m \in Maps :
        /\ ChangedMap(map[m], map'[m])
        /\ \A n \in Maps \ {m} : map'[n] = map[n]

-----------------------------------------------------------------------------
Next ==
    \/ UNCHANGED seq /\ ChangeMap
    \/ UNCHANGED map /\ (ChangeOne \/ Move)

Spec == Init /\ [][Next]_<<seq, map>>
=============================================================================
