--------------------------- MODULE DictionaryJson ---------------------------
(***************************************************************************)
(* src/src/stream/dictionary/dictionary_json_stream.cpp: the text of a     *)
(* node, and the nodes a text makes.                                       *)
(*                                                                         *)
(* A parser gets what is left of the text and returns [ok, rest, node]:    *)
(* whether it succeeded, what is left then, and the node as far as it was  *)
(* built.  "endless" is TRUE if it calls itself on the same place without  *)
(* end; "ok" is then FALSE.  "leftover" is what the stack holds where      *)
(* parse_array declares a second StringValue and does not initialise it.   *)
(***************************************************************************)
EXTENDS DictionaryText

-----------------------------------------------------------------------------
(* Writing *)

\* write_operation(): PRETTY breaks the line and indents.
Operation(operation, level, pretty) ==
    LET newline == IF pretty THEN <<Blank>> ELSE <<>>
        indent == IF pretty /\ level > 0 THEN <<Blank>> ELSE <<>>
    IN  CASE operation \in {"{", "[", ":", ","} -> <<operation>> \o newline
          [] operation \in {"}", "]"}           -> newline \o indent \o <<operation>>
          [] operation = "INDENT"               -> indent

\* write_buffer()
WriteBuffer(node, level, pretty) ==
    Joined([i \in DOMAIN node.items |->
                Operation("INDENT", level, pretty) \o ItemText(node, i)],
           Operation(",", level, pretty))

RECURSIVE WriteStruct(_, _, _)

\* write_children()
WriteChildren(node, level, pretty) ==
    Joined([i \in DOMAIN node.children |-> WriteStruct(node.children[i], level, pretty)],
           Operation(",", level, pretty))

\* write_struct(), the formats with something inside.
WriteContainer(node, level, pretty) ==
    LET open  == IF node.format = "OBJECT" THEN "{" ELSE "["
        close == IF node.format = "OBJECT" THEN "}" ELSE "]"
        isEmpty == IF node.format = "BUFFER" THEN node.items = <<>> ELSE node.children = <<>>
        inside == IF node.format = "BUFFER" THEN WriteBuffer(node, level + 1, pretty)
                  ELSE WriteChildren(node, level + 1, pretty)
    IN  IF isEmpty THEN <<open, close>>
        ELSE Operation(open, level, pretty) \o inside \o Operation(close, level, pretty)

\* write_struct(): the name, and what the format asks for.
WriteStruct(child, level, pretty) ==
    LET node == child.node
        name == IF child.name = NoName THEN <<>>
                ELSE Text("STRING", child.name) \o Operation(":", level, pretty)
    IN  Operation("INDENT", level, pretty) \o name \o
        (CASE node.format = "ZERO"                     -> <<"null">>
           [] node.format \in Scalars                  -> ScalarText(node)
           [] node.format \in Containers \cup {"BUFFER"} -> WriteContainer(node, level, pretty))

Json(root, pretty) == WriteStruct(Item(root), 0, pretty)

-----------------------------------------------------------------------------
(* Reading *)

Ok(rest, node)   == [ok |-> TRUE, rest |-> rest, node |-> node, endless |-> FALSE]
Fail(node)       == [ok |-> FALSE, rest |-> <<>>, node |-> node, endless |-> FALSE]
Endless(node)    == [Fail(node) EXCEPT !.endless = TRUE]

\* The text without its first character.
Shortened(text) ==
    IF Len(text[1]) = 1 THEN Tail(text) ELSE <<Tail(text[1])>> \o Tail(text)

\* The pieces of a text up to, and from, the first token of the set.
Before(text, set) ==
    SubSeq(text, 1, SelectInSeq(text \o <<CHOOSE t \in set : TRUE>>, LAMBDA t : t \in set) - 1)
From(text, set) == SubSeq(text, Len(Before(text, set)) + 1, Len(text))

\* find_next_operation(): the next character that is no blank.  "at" is the
\* text from there, "rest" the text behind it.
NextOperation(text) ==
    LET from == SelectInSeq(text, LAMBDA t : t \notin Blanks)
        at == SubSeq(text, from, Len(text))
    IN  IF from = 0 THEN [operation |-> "END_OF_FILE", at |-> <<>>, rest |-> <<>>]
        ELSE [operation |-> IF at[1] \in {"{", "}", "[", "]", Quote, ":", ","}
                            THEN at[1] ELSE "VALUE",
              at |-> at, rest |-> Shortened(at)]

\* parse_string(): up to the next quote; the byte behind the text is none.
ParseString(text) ==
    LET chars == Before(text, {Quote})
    IN  [ok    |-> chars # text,
         chars |-> chars,
         rest  |-> IF chars # text THEN Tail(From(text, {Quote})) ELSE <<>>]

\* parse_string_value(): up to a blank or the end of a member.
EndsValue == Blanks \cup {",", "}", "]"}

\* The nodes for the values of a document.
FromValue(value) ==
    CASE value.type = "BOOLEAN" -> Scalar("BOOLEAN", value.chars)
      [] value.type = "INTEGER" -> Scalar("INTEGER64", value.chars)
      [] value.type = "FLOAT"   -> Scalar("FLOAT64", value.chars)

RECURSIVE ParseData(_, _), ParseObject(_, _, _), ParseArray(_, _, _)

\* What a name and its value add to an object.  A comma behind them is skipped,
\* and none is asked for.
ParseMember(name, value, node, leftover) ==
    LET grown == Added(node, Named(name, value.node))
        after == NextOperation(value.rest)
    IN  IF ~value.ok THEN [value EXCEPT !.node = grown]
        ELSE ParseObject(IF after.operation = "," THEN after.rest ELSE value.rest,
                         grown, leftover)

\* A name is not asked to begin with a quote.
ParseName(name, node, leftover) ==
    LET assign == NextOperation(name.rest)
    IN  IF ~name.ok \/ assign.operation # ":" THEN Fail(node)
        ELSE ParseMember(name.chars, ParseData(assign.rest, leftover), node, leftover)

\* Mutant: the end of the text closes the object too.
ParseObject_EndOfFile(text, node, leftover) ==
    LET next == NextOperation(text)
    IN  IF next.operation \in {"}", "END_OF_FILE"} THEN Ok(next.rest, node)
        ELSE ParseName(ParseString(next.rest), node, leftover)

\* parse_object(): members up to the closing brace.
ParseObject(text, node, leftover) ==
    LET next == NextOperation(text)
    IN  IF next.operation = "}" THEN Ok(next.rest, node)
        ELSE ParseName(ParseString(next.rest), node, leftover)

\* parse_data(): a node of the format the next character tells.
ParseWord(value, rest) ==
    CASE value.type # "STRING"       -> Ok(rest, FromValue(value))
      [] value.chars = <<"null">>    -> Ok(rest, Zero)
      [] OTHER                       -> Fail(Fresh)

ParseData(text, leftover) ==
    LET next == NextOperation(text)
        string == ParseString(next.rest)
    IN  CASE next.operation = Quote ->
                IF string.ok THEN Ok(string.rest, Scalar("STRING", string.chars))
                ELSE Fail(Fresh)
          [] next.operation = "VALUE" ->
                ParseWord(Value(Before(next.at, EndsValue)), From(next.at, EndsValue))
          [] next.operation = "{" -> ParseObject(next.rest, Fresh, leftover)
          [] next.operation = "[" -> ParseArray(next.rest, Fresh, leftover)
          [] OTHER -> Fail(Fresh)

\* The elements of an array behind the first one, as long as there are commas:
\* [ok, items, rest].  Before a boolean or a number nothing but a value may
\* come; a word is taken as far as its letters fit, at least one of them.
RECURSIVE Elements(_, _, _)
Element(next, items, type) ==
    LET token == next.at[1]
        fits == IF type = "BOOLEAN" THEN IsBoolean(token) ELSE IsNumber(token)
    IN  IF next.operation # "VALUE" THEN [ok |-> FALSE, items |-> items, rest |-> <<>>]
        ELSE Elements(IF fits THEN Tail(next.at) ELSE next.rest,
                      Append(items, Value(<<IF fits THEN token ELSE SubSeq(token, 1, 1)>>)),
                      type)
Elements(text, items, type) ==
    LET comma == NextOperation(text)
    IN  IF comma.operation # "," THEN [ok |-> TRUE, items |-> items, rest |-> comma.rest]
        ELSE Element(NextOperation(comma.rest), items, type)

RECURSIVE Strings(_, _)
StringsBehind(string, comma, items) ==
    LET next == NextOperation(comma.rest)
        stops == comma.operation # ","
    IN  IF string.ok /\ ~stops /\ next.operation = Quote
        THEN Strings(next.rest, Append(items, string.chars))
        ELSE [ok    |-> string.ok /\ stops,
              items |-> Append(items, string.chars),
              rest  |-> comma.rest]
Strings(text, items) ==
    LET string == ParseString(text)
    IN  StringsBehind(string, NextOperation(string.rest), items)

\* What is in a buffer the reader gave up: 16 places, the rest as memory was.
Capacity == 16
Unfinished(element, items) ==
    Buffer(element, [i \in 1 .. Capacity |-> IF i <= Len(items) THEN items[i] ELSE <<Garbage>>])

\* An array of booleans, or of numbers: the raw 8 bytes of the values, with the
\* format of the latest one, or of whatever "leftover" is after a single one.
ParseValues(elements, isBoolean, leftover) ==
    LET latest == IF Len(elements.items) = 1 THEN leftover ELSE Last(elements.items).type
        element == CASE isBoolean           -> "BOOLEAN"
                     [] ~isBoolean /\ latest = "INTEGER" -> "INTEGER64"
                     [] OTHER               -> "FLOAT64"
        Raw(value) == IF value.type = "STRING" \/ (isBoolean # (value.type = "BOOLEAN"))
                      THEN <<Garbage>> ELSE value.chars
        items == [i \in DOMAIN elements.items |-> Raw(elements.items[i])]
    IN  IF elements.ok THEN Ok(elements.rest, Buffer(element, items))
        ELSE Fail(Unfinished(IF isBoolean THEN "BOOLEAN" ELSE "INTEGER64", items))

\* An array of strings.  Any other word that is no value comes here as well.
ParseStrings(strings) ==
    IF strings.ok THEN Ok(strings.rest, Buffer("STRING", strings.items)) ELSE Fail(Fresh)

\* An array that begins with an object or an array: one node per element.
RECURSIVE ParseNodes(_, _, _)
ParseNode(element, node, leftover) ==
    LET grown == Added(node, Item(element.node))
        after == NextOperation(element.rest)
    IN  CASE ~element.ok -> [element EXCEPT !.node = grown]
          [] element.ok /\ after.operation = "]" -> Ok(after.rest, grown)
          [] OTHER -> ParseNodes(after.rest, grown, leftover)
ParseNodes(text, node, leftover) == ParseNode(ParseData(text, leftover), node, leftover)

\* parse_array(): the first character tells which.  At the end of the file the
\* reader takes one character back, which may be the bracket it came from.
ParseFirst(value, next, leftover) ==
    IF value.type = "STRING" THEN ParseStrings(Strings(next.rest, <<>>))
    ELSE ParseValues(Elements(From(next.at, EndsValue), <<value>>, value.type),
                     value.type = "BOOLEAN", leftover)

ParseArray(text, node, leftover) ==
    LET next == NextOperation(text)
    IN  CASE next.operation = "]" -> Ok(next.rest, [node EXCEPT !.format = "ARRAY"])
          [] next.operation \in {Quote, "VALUE"} ->
                ParseFirst(Value(Before(next.at, EndsValue)), next, leftover)
          [] next.operation = "END_OF_FILE" ->
                IF text = <<>> THEN Endless(node) ELSE Fail(Added(node, Item(Fresh)))
          [] OTHER -> ParseNodes(next.at, node, leftover)

\* A buffer in the place of the root is written over the dictionary itself.
WholeRead(result, root) ==
    LET lost == result.endless \/ result.node.format = "BUFFER"
    IN  [ok |-> result.ok, node |-> IF lost THEN root ELSE result.node, undefined |-> lost]

\* read(), into the root as clear() left it: [ok, node, undefined].
ReadJson(text, root, leftover) ==
    LET next == NextOperation(text)
    IN  WholeRead(CASE next.operation = "{" -> ParseObject(next.rest, root, leftover)
                    [] next.operation = "[" -> ParseArray(next.rest, root, leftover)
                    [] OTHER                -> Fail(root), root)
=============================================================================
