-------------------------- MODULE DictionaryStreams --------------------------
(***************************************************************************)
(* A dictionary that is filled, written to a stream and read again, as     *)
(* JSON, as CSV or as the binary image of its pages: Dictionary::read,     *)
(* write and clear, and the three streams.  The stream may refuse any of   *)
(* the writes, so that a file ends anywhere.                               *)
(*                                                                         *)
(* The dictionary is a tree of values here; how it lies in its pages is in *)
(* Dictionary, and of the pages only those are counted that the binary     *)
(* stream goes by.                                                         *)
(***************************************************************************)
EXTENDS DictionaryJson

Csv == INSTANCE DictionaryCsv

CONSTANTS Trees,        \* what the caller fills the dictionary with
          Large,        \* characters that take a page of their own
          MaxCalls,     \* bound: calls of a behaviour
          MaxRow        \* bound: rows written of a table

ASSUME BoundsOK == MaxCalls \in Nat /\ MaxRow \in Nat

VARIABLES
    root,        \* the tree, from m_root on
    pages,       \* [capacity]: pages m_pages has room for; [first]: pages of
                 \* m_allocations[0]; [aligned]: m_pages begins there
    text,        \* what is on the stream
    image,       \* the binary image on the stream: a tree and its pages
    source,      \* ghost: [format, tree, whole]: what the stream was written from
    writing,     \* a CSV table being written: [row, ancestors], or Idle
    outcome,     \* the latest call: [call, ok, clean, fresh]
    undefined,   \* TRUE once the code did what C++ leaves undefined
    calls

vars == <<root, pages, text, image, source, writing, outcome, undefined, calls>>
streamVars == <<text, image, source>>

Idle    == [row |-> 0, ancestors |-> <<>>]
NoImage == [pages |-> -1, tree |-> Fresh]
NoPages == [capacity |-> 0, first |-> 0, aligned |-> TRUE]
Pretty  == {TRUE, FALSE}

\* Mutant: clear() leaves the children of the root.
Cleared_Kept == root

\* A dictionary without children keeps the format its root has.
Cleared == [root EXCEPT !.children = <<>>]

\* The pages of a tree: one, and one more for every child that is large.
IsLarge(node) ==
    \/ node.format = "STRING" /\ node.chars = <<Large>>
    \/ node.format = "BUFFER" /\ <<Large>> \in ToSet(node.items)
PagesOf(tree) ==
    IF tree.children = <<>> THEN 0
    ELSE 1 + Cardinality({c \in DOMAIN tree.children : IsLarge(tree.children[c].node)})

\* Mutant: the array of pages shrinks to what is asked for.
Allocated_Anew(n, atOnce) ==
    [capacity |-> n,
     first    |-> IF pages.first # 0 \/ n = 0 THEN pages.first ELSE IF atOnce THEN n ELSE 1,
     aligned  |-> pages.aligned]

\* add_page_internal(): pages in m_pages are used again, others allocated: one
\* at a time for nodes, all at once for an image.
Allocated(n, atOnce) ==
    [capacity |-> IF n > pages.capacity THEN n ELSE pages.capacity,
     first    |-> IF pages.first # 0 \/ n = 0 THEN pages.first ELSE IF atOnce THEN n ELSE 1,
     aligned  |-> pages.aligned /\ ~(atOnce /\ n > pages.capacity /\ pages.capacity # 0)]

Call(name, ok) == [call |-> name, ok |-> ok, clean |-> root.format = "OBJECT",
                   fresh |-> pages.capacity = 0]

\* The next call, when none is running.
NextCall == writing = Idle /\ ~undefined /\ calls < MaxCalls /\ calls' = calls + 1

-----------------------------------------------------------------------------
Init ==
    /\ root = Fresh
    /\ pages = NoPages
    /\ text = <<>>
    /\ image = NoImage
    /\ source = [format |-> "NONE", tree |-> Fresh, whole |-> FALSE]
    /\ writing = Idle
    /\ outcome = [call |-> "none", ok |-> TRUE, clean |-> TRUE, fresh |-> TRUE]
    /\ undefined = FALSE
    /\ calls = 0

\* What was just written is read by a dictionary that was never used.
Renew ==
    /\ writing = Idle /\ ~undefined /\ calls < MaxCalls
    /\ outcome.call = "write"
    /\ root' = Fresh
    /\ pages' = NoPages
    /\ outcome' = [outcome EXCEPT !.call = "none"]
    /\ UNCHANGED <<streamVars, writing, undefined, calls>>

\* clear(), then an add() and a set for every node of the tree.
Fill(tree) ==
    /\ NextCall
    /\ root' = [FoldLeft(Added, Cleared, tree.children) EXCEPT
                    !.format = IF tree.format = "ARRAY" THEN "ARRAY" ELSE @]
    /\ pages' = Allocated(PagesOf(tree), FALSE)
    /\ outcome' = Call("fill", TRUE)
    /\ UNCHANGED <<streamVars, writing, undefined>>

\* read<...>() of a text: clear(), then what the text makes of the root.
ReadText(result) ==
    /\ NextCall
    /\ root' = result.node
    /\ undefined' = result.undefined
    /\ pages' = Allocated(PagesOf(result.node), FALSE)
    /\ outcome' = Call("read", result.ok)
    /\ UNCHANGED <<streamVars, writing>>

ReadJsonText(leftover) ==
    /\ source.format = "JSON"
    /\ ReadText(ReadJson(text, Cleared, leftover))

ReadCsvText ==
    /\ source.format = "CSV"
    /\ ReadText(Csv!ReadCsv(text, Cleared))

\* What the stream took of a text.
Put(format, all, length) ==
    /\ NextCall
    /\ text' = SubSeq(all, 1, length)
    /\ image' = NoImage
    /\ source' = [format |-> format, tree |-> root, whole |-> format = "JSON" /\ length = Len(all)]
    /\ outcome' = Call("write", source'.whole)
    /\ UNCHANGED <<root, pages, undefined>>

\* write<DictionaryJsonStream>()
WriteJson(pretty) ==
    LET json == Json(root, pretty)
    IN  \E length \in 0 .. Len(json) : Put("JSON", json, length) /\ UNCHANGED writing

\* write<DictionaryBinaryStream>(): the pages as they are.  A dictionary
\* without pages writes their number, 0, and nothing else.
WriteBinary ==
    /\ NextCall
    /\ image' = [pages |-> PagesOf(root), tree |-> root]
    /\ source' = [format |-> "BINARY", tree |-> root, whole |-> TRUE]
    /\ outcome' = Call("write", TRUE)
    /\ text' = <<>>
    /\ UNCHANGED <<root, pages, writing, undefined>>

\* read<DictionaryBinaryStream>(): the bytes go to m_allocations[0], and are
\* looked for in m_pages.
ReadBinary ==
    LET after == Allocated(image.pages, TRUE)
    IN  /\ NextCall
        /\ source.format = "BINARY"
        /\ root' = IF image.pages = 0 THEN Cleared ELSE image.tree
        /\ pages' = after
        /\ undefined' = (image.pages > 0 /\ (~after.aligned \/ after.first < image.pages))
        /\ outcome' = Call("read", TRUE)
        /\ UNCHANGED <<streamVars, writing>>

\* write<DictionaryCsvStream>(): the line of names, of an object with children.
BeginCsv ==
    LET isTable == root.format = "OBJECT" /\ root.children # <<>>
        header == IF isTable THEN Csv!HeaderText(root) ELSE <<>>
    IN  \E length \in {0, 1, Len(header)} :
            /\ length <= Len(header)
            /\ Put("CSV", header, length)
            /\ writing' = IF ~isTable \/ length < Len(header) THEN Idle
                          ELSE [row |-> 0, ancestors |-> [c \in DOMAIN root.children |-> 0]]

\* A row behind the rows before it, or what the stream took of it.
PutRow(cells, row, done, length) ==
    LET ok == length = Len(row) /\ \A c \in DOMAIN cells : cells[c].ok
    IN  /\ text' = text \o SubSeq(row, 1, length)
        /\ undefined' = \E c \in DOMAIN cells : cells[c].undefined
        /\ writing' = IF done \/ ~ok THEN Idle
                      ELSE [row |-> writing.row + 1,
                            ancestors |-> [c \in DOMAIN cells |-> cells[c].ancestor]]
        /\ outcome' = [outcome EXCEPT !.ok = done /\ ok]
        /\ source' = [source EXCEPT !.whole = done /\ ok]
        /\ UNCHANGED <<root, pages, image, calls>>

WriteCells(cells) ==
    LET row == Csv!RowText(cells)
    IN  \E length \in 0 .. Len(row) : PutRow(cells, row, Csv!AllFinished(cells), length)

WriteRow ==
    /\ writing # Idle /\ ~undefined
    /\ writing.row < MaxRow
    /\ WriteCells(Csv!RowCells(root, writing.row, writing.ancestors))

Next ==
    \/ \E tree \in Trees : Fill(tree)
    \/ \E pretty \in Pretty : WriteJson(pretty)
    \/ \E leftover \in {"INTEGER", "FLOAT"} : ReadJsonText(leftover)
    \/ WriteBinary
    \/ ReadBinary
    \/ Renew
    \/ BeginCsv
    \/ WriteRow
    \/ ReadCsvText

\* A call that began goes on: nothing but its own thread runs it.
Spec == Init /\ [][Next]_vars /\ WF_vars(WriteRow)

-----------------------------------------------------------------------------
(* What a caller may rely on *)

Widened(format) == CASE TypeOf(format) = "INTEGER" -> "INTEGER64"
                     [] TypeOf(format) = "FLOAT" -> "FLOAT64"
                     [] OTHER -> format

Normal(format, chars) == IF TypeOf(format) = "INTEGER" THEN <<IntegerOf(chars[1])>> ELSE chars

\* The values of a node that is one, or a row of them.
Flat(node) ==
    CASE node.format = "BUFFER" -> [i \in DOMAIN node.items |-> Scalar(node.element, node.items[i])]
      [] node.format = "ARRAY"  -> [i \in DOMAIN node.children |-> node.children[i].node]
      [] OTHER                  -> <<node>>

IsFlat(node) == \A i \in DOMAIN Flat(node) : Flat(node)[i].format \in Scalars

\* A value the text tells: no quote in it, and no number the text loses.
Tells(value) ==
    IF value.format = "STRING" THEN Quote \notin ToSet(value.chars)
    ELSE Value(value.chars).type = TypeOf(value.format) /\ value.chars[1] \notin Gapped

\* An array of values JSON keeps: all of one type, and two numbers at least.
KeepsFlat(values) ==
    /\ \A i \in DOMAIN values : /\ Tells(values[i])
                               /\ TypeOf(values[i].format) = TypeOf(values[1].format)
    /\ Len(values) = 1 => TypeOf(values[1].format) \in {"BOOLEAN", "STRING"}

RECURSIVE JsonKeeps(_)
JsonKeeps(node) ==
    CASE node.format = "ZERO"    -> TRUE
      [] node.format \in Scalars -> Tells(node)
      [] node.format = "BUFFER"  -> KeepsFlat(Flat(node))
      [] node.format = "OBJECT"  -> \A i \in DOMAIN node.children :
                                        /\ node.children[i].name # NoName
                                        /\ JsonKeeps(node.children[i].node)
      [] node.format = "ARRAY"   ->
            /\ \A i \in DOMAIN node.children : node.children[i].name = NoName
            /\ IF node.children # <<>> /\ node.children[1].node.format \notin Containers \cup {"BUFFER"}
               THEN IsFlat(node) /\ KeepsFlat(Flat(node))
               ELSE \A i \in DOMAIN node.children : JsonKeeps(node.children[i].node)

\* What comes back: numbers of 64 bits, and arrays of values as buffers.
RECURSIVE JsonNormal(_)
JsonNormal(node) ==
    LET values == Flat(node)
        isRow == node.format \in {"BUFFER", "ARRAY"} /\ values # <<>> /\ IsFlat(node)
    IN  CASE node.format = "ZERO"    -> Zero
          [] node.format \in Scalars -> Scalar(Widened(node.format), Normal(node.format, node.chars))
          [] isRow -> Buffer(Widened(values[1].format),
                             [i \in DOMAIN values |-> Normal(values[i].format, values[i].chars)])
          [] values = <<>> /\ node.format = "BUFFER" -> Array(<<>>)
          [] node.format \in Containers /\ ~isRow ->
                [node EXCEPT !.children = [i \in DOMAIN @ |->
                    Named(@[i].name, JsonNormal(@[i].node))]]

\* The root has to be an object, or an array that begins with one.
JsonKeepsRoot(tree) == JsonKeeps(tree) /\ JsonNormal(tree).format # "BUFFER"

\* A string of a table: no quote, no number, and, as the reader looks no
\* further than the next special character, a separator behind a newline.
TellsInCell(value) ==
    \/ value.format = "ZERO"
    \/ value.format # "STRING" /\ Tells(value)
    \/ /\ Tells(value) /\ Value(value.chars).type = "STRING"
       /\ \A i \in DOMAIN value.chars : value.chars[i] = Newline =>
            \E j \in i + 1 .. Len(value.chars) :
                /\ value.chars[j] = Csv!Separator
                /\ Newline \notin {value.chars[k] : k \in i + 1 .. j}

CellType(value) == IF value.format = "ZERO" THEN "STRING" ELSE TypeOf(value.format)

Rows(tree) ==
    LET lengths == {Len(Flat(tree.children[c].node)) : c \in DOMAIN tree.children}
    IN  CHOOSE n \in lengths : \A m \in lengths : m <= n

\* A table CSV keeps: values of one type in every column, arrays of full
\* length, and no quoted string in the last column.
CsvKeeps(tree) ==
    /\ tree.format = "OBJECT" /\ tree.children # <<>>
    /\ \A c \in DOMAIN tree.children :
        LET values == Flat(tree.children[c].node)
        IN  /\ tree.children[c].name # NoName
            /\ values # <<>>
            /\ \A i \in DOMAIN values :
                /\ values[i].format \in Scalars \cup {"ZERO"}
                /\ TellsInCell(values[i])
                /\ CellType(values[i]) = CellType(values[1])
                /\ c = Len(tree.children) => values[i].format # "STRING"
            /\ tree.children[c].node.format = "ARRAY" => Len(values) = Rows(tree)

CsvNormal(tree) ==
    [tree EXCEPT !.children = [c \in DOMAIN @ |->
        LET values == Flat(@[c].node)
            At(i) == values[IF i < Len(values) THEN i ELSE Len(values)]
        IN  Named(@[c].name,
                  Buffer(Widened(CellType(values[1])),
                         [i \in 1 .. Rows(tree) |->
                            IF At(i).format = "ZERO" THEN <<>>
                            ELSE Normal(At(i).format, At(i).chars)]))]]

-----------------------------------------------------------------------------
(* Properties *)

\* Every variable has its type.
TypeOK ==
    /\ root.format \in Containers
    /\ pages.capacity \in Nat /\ pages.first \in 0 .. pages.capacity
    /\ source.whole \in BOOLEAN /\ outcome.ok \in BOOLEAN /\ undefined \in BOOLEAN
    /\ writing # Idle => /\ writing.row \in 0 .. MaxRow
                         /\ DOMAIN writing.ancestors = DOMAIN root.children
    /\ calls \in 0 .. MaxCalls

\* What was written whole is read back, in each of the formats: the values,
\* their order and their names, a number with 64 bits, the columns of a table
\* padded with their last value.  Asked of the trees the format can tell, and
\* of a dictionary whose root was not left an array, nor, for an image of
\* several pages, used before.
ReadsBack ==
    outcome.call = "read" /\ source.whole =>
        CASE source.format = "JSON" ->
                JsonKeepsRoot(source.tree) /\ outcome.clean =>
                    outcome.ok /\ ~undefined /\ root = JsonNormal(source.tree)
          [] source.format = "CSV" ->
                CsvKeeps(source.tree) /\ outcome.clean =>
                    outcome.ok /\ ~undefined /\ root = CsvNormal(source.tree)
          [] source.format = "BINARY" ->
                /\ source.tree.children # <<>> \/ (source.tree.format = "OBJECT" /\ outcome.clean)
                /\ image.pages <= 1 \/ outcome.fresh
                => outcome.ok /\ ~undefined /\ root = source.tree

\* A JSON text that ends too early is refused, wherever it ends: only behind
\* a bracket the reader does not come back.
TruncatedRefused ==
    outcome.call = "read" /\ source.format = "JSON" /\ ~source.whole
        /\ JsonKeepsRoot(source.tree) =>
            ~outcome.ok /\ (undefined => Last(text) = "[")

\* A node read from the beginning of a text, and the node of all of it.  An
\* array may end with a node added for an element that did not come, before the
\* reader knew that the array is to be a buffer.
RECURSIVE Begins(_, _)
Begins(part, whole) ==
    \/ part = whole
    \/ part = Fresh
    \/ part = Array(<<Item(Fresh)>>) /\ whole.format = "BUFFER"
    \/ /\ part.format = "BUFFER" /\ whole.format = "BUFFER"
       /\ IsPrefix(SelectSeq(part.items, LAMBDA item : item # <<Garbage>>), whole.items)
    \/ /\ part.format \in Containers /\ whole.format \in Containers
       /\ LET n == Len(part.children)
          IN  /\ \A i \in 1 .. n - 1 : part.children[i] = whole.children[i]
              /\ n > 0 =>
                    IF n > Len(whole.children)
                    THEN part.format = "ARRAY" /\ part.children[n] = Item(Fresh)
                    ELSE /\ part.children[n].name = whole.children[n].name
                         /\ Begins(part.children[n].node, whole.children[n].node)

\* What a refused read leaves is the beginning of the tree that was written:
\* all before the place where the text ends is there, complete and in order,
\* and nothing of what the dictionary held before.
RefusedIsBeginning ==
    outcome.call = "read" /\ ~outcome.ok /\ ~undefined /\ outcome.clean
        /\ source.format = "JSON" /\ JsonKeepsRoot(source.tree) =>
            Begins(root, JsonNormal(source.tree))

\* A table is written in the end: columns of different lengths do finish in the
\* same row, unless one is empty.
NoneEmpty(tree) == \A c \in DOMAIN tree.children : Flat(tree.children[c].node) # <<>>

WritingEnds == (writing # Idle /\ NoneEmpty(root)) ~> (writing = Idle \/ undefined)
=============================================================================
