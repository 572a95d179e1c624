------------------------------ MODULE NamedTree ------------------------------
(***************************************************************************)
(* What a dictionary promises: a tree.  A node has a format, the size of   *)
(* its characters or bytes, and, as an object or array, children in the    *)
(* order they were added, each with a title.  Nothing is said of where the *)
(* nodes lie.                                                              *)
(***************************************************************************)
EXTENDS Integers, Sequences, SequencesExt

CONSTANTS Titles,     \* names, and what a child without a name may be found by
          Formats, Containers,
          MaxDepth    \* bound: longest path

VARIABLE tree

\* An object as "add" makes it.
Empty == [format |-> "OBJECT", extra |-> 0, kids |-> <<>>]

\* The node a path of child numbers leads to in the tree t.
At(t, path) ==
    LET node[k \in 0 .. Len(path)] ==
            IF k = 0 THEN t ELSE node[k - 1].kids[path[k]].node
    IN  node[Len(path)]

Paths(t) ==
    {path \in SeqOf(1 .. MaxDepth, MaxDepth) :
        \A k \in DOMAIN path : path[k] \in DOMAIN At(t, SubSeq(path, 1, k - 1)).kids}

\* The tree t when the path leads to "new".
With(t, path, new) ==
    LET node[k \in 0 .. Len(path)] ==
            IF k = Len(path) THEN new
            ELSE [At(t, SubSeq(path, 1, k)) EXCEPT !.kids[path[k + 1]].node = node[k + 1]]
    IN  node[0]

-----------------------------------------------------------------------------
Init == tree = Empty

\* A new child comes last.  A parent with a child without a name is an array.
AddChild(t, path) ==
    LET parent == At(t, path)
        Grown(title, format) ==
            [parent EXCEPT !.kids = Append(@, [title |-> title, node |-> Empty]),
                           !.format = format]
    IN  /\ parent.format \in Containers
        /\ tree' \in {With(t, path, Grown(title, format)) :
                         title \in Titles, format \in {parent.format, "ARRAY"}}

\* The first child of a name goes, and its children with it.
RemoveChild(t, path) ==
    LET parent == At(t, path)
        firsts == {i \in DOMAIN parent.kids :
                      \A j \in 1 .. i - 1 : parent.kids[j].title # parent.kids[i].title}
    IN  tree' \in {With(t, path, [parent EXCEPT !.kids = RemoveAt(@, i)]) : i \in firsts}

\* A node takes another value, and loses the children it had.
SetNode(t, path) ==
    /\ path \in Paths(tree')
    /\ LET new == At(tree', path)
       IN  /\ new.format \in (IF path = <<>> THEN Containers ELSE Formats)
           /\ new.kids = <<>>
           /\ tree' = With(t, path, new)

\* The root is left without children.
Clear(t) == tree' = [t EXCEPT !.kids = <<>>]

Next ==
    LET t == tree
    IN  \/ \E path \in Paths(t) : AddChild(t, path) \/ RemoveChild(t, path) \/ SetNode(t, path)
        \/ Clear(t)

Spec == Init /\ [][Next]_tree
=============================================================================
