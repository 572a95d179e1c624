------------------------ MODULE MCDictionaryStreams ------------------------
(* Small instances of DictionaryStreams for TLC. *)
EXTENDS DictionaryStreams

A == <<"a">>
B == <<"b">>
C == <<"c">>

Number(n)  == Scalar("INTEGER64", <<n>>)
Word(w)    == Scalar("STRING", <<w>>)
Floating   == Scalar("FLOAT32", <<"2.5">>)
Yes        == Scalar("BOOLEAN", <<"true">>)

MCTrees == {
    \* values of several formats, an empty name list inside
    Object(<<Named(A, Scalar("INTEGER8", <<"-1">>)), Named(B, Word("x")), Named(C, Object(<<>>))>>),
    \* objects and arrays in one another
    Object(<<Named(A, Array(<<Item(Object(<<Named(B, Zero)>>)), Item(Array(<<>>))>>)),
             Named(B, Buffer("INTEGER16", << <<"7">>, <<"8">> >>))>>),
    \* an array as root
    Array(<<Item(Object(<<Named(A, Yes), Named(B, Floating)>>)), Item(Number("7"))>>),
    \* an array of numbers as root, which is read as a buffer
    Array(<<Item(Number("7")), Item(Number("8"))>>),
    \* arrays the reader makes buffers of: of one number, and of two types
    Object(<<Named(A, Buffer("INTEGER64", << <<"7">> >>)),
             Named(B, Array(<<Item(Number("7")), Item(Floating)>>))>>),
    \* tables: separators and newlines in a string, columns of two lengths
    Object(<<Named(A, Buffer("STRING", << <<"x", ";", "y">>, <<"x", Newline, "y", ";">> >>)),
             Named(B, Buffer("BOOLEAN", << <<"true">> >>)),
             Named(C, Array(<<Item(Floating), Item(Floating)>>))>>),
    \* a string in the last column, and one that reads as a number
    Object(<<Named(A, Buffer("STRING", << <<"x">>, <<"7">> >>)), Named(B, Buffer("STRING", << <<"x">>, <<>> >>))>>),
    \* buffers of two lengths
    Object(<<Named(A, Buffer("INTEGER64", << <<"7">>, <<"-1">> >>)), Named(B, Buffer("BOOLEAN", << <<"true">> >>))>>),
    \* an empty buffer, and an array that ends before the table does
    Object(<<Named(A, Buffer("UINTEGER8", <<>>)), Named(B, Array(<<>>))>>),
    Object(<<Named(A, Array(<<Item(Word("x"))>>)),
             Named(B, Buffer("UINTEGER64", << <<"18446744073709551615">>, <<"7">> >>))>>),
    \* two pages; a number with a gap in its text; a string with a quote in it
    Object(<<Named(A, Word("large")), Named(B, Scalar("UINTEGER64", <<"18446744073709551615">>))>>),
    Object(<<Named(A, Number("10000000000")), Named(B, Scalar("STRING", <<"x", Quote, "y">>))>>),
    Object(<<>>) }
============================================================================
