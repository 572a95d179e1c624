---------------------------- MODULE DictionaryCsv ----------------------------
(***************************************************************************)
(* src/src/stream/dictionary/dictionary_csv_stream.cpp: an object as a     *)
(* table, one column per child.  The reader keeps a cursor in the text;    *)
(* "undefined" in a result says that the code leaves its buffers, reads    *)
(* what was never set, or never ends.                                      *)
(***************************************************************************)
EXTENDS DictionaryText

Separator == ";"

-----------------------------------------------------------------------------
(* Reading *)

\* find_next_operation(): the next quote, separator or end of line, or, unless
\* skipped, the next character that is no blank.  The cursor stays on it; at
\* the end of the file it goes back to the last character.
FindNext(text, cursor, skip_value) ==
    LET stops == {i \in cursor .. Len(text) :
                    \/ text[i] \in {Quote, Separator, Newline}
                    \/ ~skip_value /\ text[i] # Blank}
    IN  IF stops = {} THEN [operation |-> "END_OF_FILE", at |-> Len(text), behind |-> Len(text) + 1]
        ELSE LET at == CHOOSE i \in stops : \A j \in stops : i <= j
             IN  [operation |-> IF text[at] \in {Quote, Separator, Newline} THEN text[at] ELSE "VALUE",
                  at |-> at, behind |-> at + 1]

WithoutFirst(chars) ==
    IF Len(chars[1]) = 1 THEN Tail(chars) ELSE <<Tail(chars[1])>> \o Tail(chars)
WithoutLast(chars) ==
    LET last == Last(chars)
    IN  Front(chars) \o (IF Len(last) = 1 THEN <<>> ELSE <<SubSeq(last, 1, Len(last) - 1)>>)

\* The characters from "start" to where "next" stopped: at the end of the file
\* without the last one.
Piece(text, start, next) ==
    CASE next.operation # "END_OF_FILE" -> SubSeq(text, start, next.at - 1)
      [] next.operation = "END_OF_FILE" /\ start > Len(text) -> <<>>
      [] OTHER -> WithoutLast(SubSeq(text, start, Len(text)))

\* read_line(): the values of a line, over those of the line before.  A line
\* that ends after a quote is looked at again from the next line on; inside
\* quotes nothing ends a cell.  [values, column, cursor, undefined]
RECURSIVE ReadCells(_, _, _, _, _)

\* The cell from "start" to where "next" stopped.
ReadCell(text, next, endsLine, start, quote_count, line) ==
    LET piece == Piece(text, start, next)
        column == line.column + 1
        fits == column <= Len(line.values)
        value == Value(IF quote_count = 0 THEN piece ELSE WithoutFirst(WithoutLast(piece)))
        more == [line EXCEPT !.column = column, !.cursor = next.behind,
                             !.values = IF fits THEN [@ EXCEPT ![column] = value] ELSE @,
                             !.undefined = ~fits]
    IN  CASE quote_count % 2 = 0 ->
                IF endsLine \/ ~fits THEN more ELSE ReadCells(text, next.behind, next.behind, 0, more)
          [] quote_count % 2 # 0 /\ next.operation = "END_OF_FILE" ->
                [line EXCEPT !.undefined = TRUE]
          [] quote_count % 2 # 0 /\ next.operation = Newline -> [line EXCEPT !.cursor = next.behind]
          [] OTHER -> ReadCells(text, next.behind, start, quote_count, line)

Trimmed(text, next) == IF next.operation = "END_OF_FILE" THEN Len(text) + 1 ELSE next.at

ReadCells(text, cursor, start, quote_count, line) ==
    LET found == FindNext(text, cursor, TRUE)
        ends == found.operation \in {Newline, "END_OF_FILE"}
        next == IF ends /\ quote_count # 0 THEN FindNext(text, found.behind, TRUE) ELSE found
    IN  IF found.operation = Quote
        THEN ReadCells(text, found.behind, start, quote_count + 1, line)
        ELSE ReadCell(text, next, next.operation = Newline \/ (ends /\ quote_count = 0),
                      Trimmed(text, FindNext(text, start, FALSE)), quote_count, line)

ReadLine(text, cursor, values) ==
    ReadCells(text, cursor, cursor, 0,
              [values |-> values, column |-> 0, cursor |-> cursor, undefined |-> FALSE])

\* The names of the columns.  [names, cursor, ok]
RECURSIVE ReadNames(_, _, _)
ReadNames(text, cursor, names) ==
    LET next == FindNext(text, cursor, TRUE)
        more == Append(names, Piece(text, cursor, next))
    IN  CASE next.operation = Quote -> [names |-> names, cursor |-> cursor, ok |-> FALSE]
          [] next.operation = Separator -> ReadNames(text, next.behind, more)
          [] OTHER -> [names |-> more, cursor |-> next.behind, ok |-> TRUE]

Uninitialised == [type |-> Garbage, chars |-> <<Garbage>>]

\* The rows up to the end of the file; a row with fewer cells keeps the values
\* the one before had there.
RECURSIVE ReadRows(_, _, _, _)
RowsBehind(text, line, rows) ==
    CASE line.undefined \/ Uninitialised \in ToSet(line.values) ->
            [rows |-> rows, undefined |-> TRUE]
      [] FindNext(text, line.cursor, FALSE).operation = "END_OF_FILE" ->
            [rows |-> Append(rows, line.values), undefined |-> FALSE]
      [] OTHER -> ReadRows(text, line.cursor, line.values, Append(rows, line.values))
ReadRows(text, cursor, values, rows) == RowsBehind(text, ReadLine(text, cursor, values), rows)

\* Bytes a value takes in the buffer of its column.
Size(type) == CASE type = "BOOLEAN" -> 1 [] type \in {"INTEGER", "FLOAT"} -> 8
                [] type = "STRING" -> 16

\* The buffer of a column has the type of the first row; from a value of
\* another size on, nothing lies where it is looked for.
Column(rows, c) ==
    LET type == rows[1][c].type
        size == FoldLeft(LAMBDA n, row : n + Size(row[c].type), 0, rows)
        Aligned(i) == i <= Len(rows) /\ \A k \in 1 .. i : Size(rows[k][c].type) = Size(type)
    IN  Buffer(CASE type = "INTEGER" -> "INTEGER64" [] type = "FLOAT" -> "FLOAT64"
                 [] OTHER -> type,
               [i \in 1 .. size \div Size(type) |->
                    IF Aligned(i) THEN rows[i][c].chars ELSE <<Garbage>>])

\* read(): [ok, node, undefined].  Strings that are not where they are looked
\* for are addresses of nothing.
ReadTable(names, table, root) ==
    LET lost == \E c \in DOMAIN names, i \in DOMAIN table.rows :
                    /\ table.rows[1][c].type = "STRING"
                    /\ table.rows[i][c].type # "STRING"
        nodes == [c \in DOMAIN names |-> Named(names[c], Column(table.rows, c))]
    IN  IF table.undefined \/ lost THEN [ok |-> FALSE, node |-> root, undefined |-> TRUE]
        ELSE [ok |-> TRUE, node |-> FoldLeft(Added, root, nodes), undefined |-> FALSE]

ReadHeader(text, header, root) ==
    IF ~header.ok THEN [ok |-> FALSE, node |-> root, undefined |-> FALSE]
    ELSE ReadTable(header.names,
                   ReadRows(text, header.cursor, [c \in DOMAIN header.names |-> Uninitialised], <<>>),
                   root)

ReadCsv(text, root) ==
    IF text = <<>> THEN [ok |-> FALSE, node |-> root, undefined |-> TRUE]
    ELSE ReadHeader(text, ReadNames(text, 1, <<>>), root)

-----------------------------------------------------------------------------
(* Writing *)

\* Mutant: the last separator is not written over.
HeaderText_NotOverwritten(node) ==
    FlattenSeq([c \in DOMAIN node.children |-> node.children[c].name \o <<Separator>>])
        \o <<Newline>>

\* The line of names: each is written with a separator behind it, and the last
\* separator is written over.
HeaderText(node) ==
    FlattenSeq([c \in DOMAIN node.children |->
        node.children[c].name
            \o <<IF c = Len(node.children) THEN Newline ELSE Separator>>])

\* write_data(): a scalar; FALSE for what has something inside.
CanWriteData(node) == node.format \in Scalars \cup {"ZERO"}
DataText(node) == IF node.format = "ZERO" THEN <<>> ELSE ScalarText(node)

\* Mutant: only the last element itself ends the column.
LastElement_Equal(row, count) == row = count - 1

\* Whether the buffer has no element behind the one of this row.  The count is
\* unsigned: one less than none is the largest number.
LastElement(row, count) == count > 0 /\ row >= count - 1

\* The cell of a column: an array goes on to its next child and has none after
\* its last, a buffer and a scalar write their last element again.
Cell(node, row, ancestor) ==
    CASE node.format = "ARRAY" ->
            LET exists == ancestor + 1 \in DOMAIN node.children
                child == node.children[ancestor + 1].node
            IN  [text      |-> IF exists /\ CanWriteData(child) THEN DataText(child) ELSE <<>>,
                 ok        |-> exists /\ CanWriteData(child),
                 undefined |-> ~exists,
                 ancestor  |-> ancestor + 1,
                 finished  |-> ancestor + 1 = Len(node.children)]
      [] node.format = "BUFFER" ->
            LET count == Len(node.items)
                last == LastElement(row, count)
            IN  [text      |-> IF count = 0 THEN <<Garbage>>
                               ELSE ItemText(node, IF row < count THEN row + 1 ELSE count),
                 ok        |-> TRUE,
                 undefined |-> FALSE,
                 ancestor  |-> ancestor,
                 finished  |-> last]
      [] node.format \notin {"ARRAY", "BUFFER"} ->
            [text      |-> IF CanWriteData(node) THEN DataText(node) ELSE <<>>,
             ok        |-> CanWriteData(node),
             undefined |-> FALSE,
             ancestor  |-> ancestor,
             finished  |-> TRUE]

RowCells(node, row, ancestors) ==
    [c \in DOMAIN node.children |-> Cell(node.children[c].node, row, ancestors[c])]

\* The text of a row, up to the first cell that cannot be written.
RowText(cells) ==
    LET bad == SelectInSeq(cells, LAMBDA cell : ~cell.ok)
    IN  FlattenSeq([c \in 1 .. (IF bad = 0 THEN Len(cells) ELSE bad - 1) |->
            cells[c].text \o <<IF c = Len(cells) THEN Newline ELSE Separator>>])

\* The table is written when all columns finish in the same row.
AllFinished(cells) == \A c \in DOMAIN cells : cells[c].finished
=============================================================================
