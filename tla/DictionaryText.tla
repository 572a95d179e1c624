--------------------------- MODULE DictionaryText ---------------------------
(***************************************************************************)
(* How the values of a dictionary become text and text becomes values:     *)
(* src/src/stream/dictionary/dictionary_helper_stream.cpp and              *)
(* StringHelper::to_value of src/src/string/string_helper.cpp.             *)
(*                                                                         *)
(* A text is a sequence of tokens: the characters the readers look for,    *)
(* one blank for any run of white space, and words.  The characters of a   *)
(* string, and the digits of a number, are a sequence of tokens too.       *)
(***************************************************************************)
EXTENDS Integers, Sequences, SequencesExt

Quote   == "\""
Newline == "\n"
Blank   == " "

Blanks == {Blank, Newline}

\* What an uninitialised or misread place of memory holds.
Garbage == "?"

-----------------------------------------------------------------------------
(* Words *)

Character(word, i) == SubSeq(word, i, i)
Places(word, set) == {i \in 1 .. Len(word) : Character(word, i) \in set}

Digits == {"0", "1", "2", "3", "4", "5", "6", "7", "8", "9"}

IsBoolean(word) == word \in {"true", "false"}

\* to_number() takes a word with a sign in front and behind the exponent, one
\* point (or comma), one exponent and an f or d at the end.  It asks for no
\* digit: "f", "-" and "." are numbers.
IsNumber(word) ==
    LET exponent == Places(word, {"e", "E"})
        point == Places(word, {".", ","})
    IN  /\ \A i \in 1 .. Len(word) :
            Character(word, i) \in Digits \cup {"+", "-", ".", ",", "e", "E", "f", "d"}
        /\ \A i \in Places(word, {"+", "-"}) :
            IF \E j \in exponent : j < i THEN i - 1 \in exponent ELSE i = 1
        /\ Cardinality(point) <= 1
        /\ Cardinality(exponent) <= 1 /\ 1 \notin exponent
        /\ Places(word, {"f", "d"}) \subseteq {Len(word)}

\* The number of the digits at these places.
RECURSIVE Decimal(_, _)
Decimal(word, places) ==
    IF places = {} THEN 0
    ELSE LET last == CHOOSE i \in places : \A j \in places : j <= i
         IN  10 * Decimal(word, places \ {last})
                + (CHOOSE d \in 0 .. 9 : ToString(d) = Character(word, last))

\* A number is an integer unless it has more places behind the point than its
\* exponent takes back.
IsFloat(word) ==
    LET exponent == Places(word, {"e", "E"})
        point == Places(word, {".", ","})
        Behind(from) == {i \in Places(word, Digits) : \E j \in from : j < i}
        fraction == Cardinality(Behind(point) \ Behind(exponent))
        power == Decimal(word, Behind(exponent))
        down == \E i \in exponent : i < Len(word) /\ Character(word, i + 1) = "-"
    IN  fraction + (IF down THEN power ELSE 0) > (IF down THEN 0 ELSE power)

\* The value of an integer word: 64 bits with a sign.
IntegerOf(word) ==
    CASE word = "18446744073709551615" -> "-1"
      [] Places(word, Digits) = {}      -> "0"
      [] OTHER                          -> word

\* to_value(): what a piece of text is.  A piece of several tokens holds a
\* character no number has.
Value(chars) ==
    IF Len(chars) # 1 THEN [type |-> "STRING", chars |-> chars]
    ELSE LET word == chars[1]
         IN  CASE IsBoolean(word) -> [type |-> "BOOLEAN", chars |-> chars]
               [] ~IsBoolean(word) /\ IsNumber(word) ->
                    IF IsFloat(word) THEN [type |-> "FLOAT", chars |-> chars]
                    ELSE [type |-> "INTEGER", chars |-> <<IntegerOf(word)>>]
               [] OTHER -> [type |-> "STRING", chars |-> chars]

-----------------------------------------------------------------------------
(* Values *)

Unsigned == {"UINTEGER8", "UINTEGER16", "UINTEGER32", "UINTEGER64"}
Signed   == {"INTEGER8", "INTEGER16", "INTEGER32", "INTEGER64"}
Floats   == {"FLOAT32", "FLOAT64"}
Scalars  == {"BOOLEAN", "STRING"} \cup Unsigned \cup Signed \cup Floats

\* The type to_value() finds in what is written of a format.
TypeOf(format) ==
    CASE format \in Unsigned \cup Signed -> "INTEGER"
      [] format \in Floats               -> "FLOAT"
      [] OTHER                           -> format

\* The numbers above 2^32 with a group of nine digits that begins with 0:
\* to_string() leaves those places of the text as they are.
Gapped == {"10000000000"}

IntegerText(chars) ==
    CASE chars[1] \in Gapped       -> <<Garbage>>
      [] Value(chars).type = "FLOAT" -> <<"4612811918334230528">>    \* its bits
      [] OTHER                     -> chars

\* The bits of a small integer are a float next to 0.
FloatText(chars) == IF Value(chars).type = "FLOAT" THEN chars ELSE <<"0.0">>

Text(format, chars) ==
    CASE format = "STRING"             -> <<Quote>> \o chars \o <<Quote>>
      [] format = "BOOLEAN"            -> chars
      [] format \in Floats             -> FloatText(chars)
      [] format \in Unsigned \cup Signed -> IntegerText(chars)

\* A single uint64_t is written by way of int64_t, and ZERO not at all.
ScalarText(node) ==
    IF node.format = "UINTEGER64" THEN Text("INTEGER64", <<IntegerOf(node.chars[1])>>)
    ELSE Text(node.format, node.chars)

\* The write callbacks of get_write_callback().
ItemText(node, i) == Text(node.element, node.items[i])

\* The parts with a separator between them.
Joined(parts, separator) ==
    FoldLeft(LAMBDA text, part : IF text = <<>> THEN part ELSE text \o separator \o part,
             <<>>, parts)

-----------------------------------------------------------------------------
(* Nodes: [format, chars] of a scalar, [format, element, items] of a buffer, *)
(* [format, children] of an object or array.                                 *)

Containers == {"OBJECT", "ARRAY"}
NoName == <<>>

Zero == [format |-> "ZERO"]
Scalar(format, chars) == [format |-> format, chars |-> chars]
Buffer(element, items) == [format |-> "BUFFER", element |-> element, items |-> items]
Object(children) == [format |-> "OBJECT", children |-> children]
Array(children) == [format |-> "ARRAY", children |-> children]
Named(name, node) == [name |-> name, node |-> node]
Item(node) == Named(NoName, node)

\* A node as add() makes it.
Fresh == Object(<<>>)

\* add(): the new child comes last; one without a name makes the parent an array.
Added(parent, child) ==
    [format   |-> IF child.name = NoName THEN "ARRAY" ELSE parent.format,
     children |-> Append(parent.children, child)]
=============================================================================
