---------------------------- MODULE MCFileSystem ----------------------------
(* Two threads; a tree of directories, files, a link and a fifo, and an empty one. *)
EXTENDS FileSystem

Absolute(names) == [relative |-> FALSE, names |-> names]
Relative(names) == [relative |-> TRUE, names |-> names]
Call(op, path, other) == [op |-> op, path |-> path, other |-> other]
One(op, path) == Call(op, path, path)

Empty == <<>> :> Entry("directory", 0)
Full ==
    Empty @@ <<"d">> :> Entry("directory", 0) @@ <<"d", "f">> :> Entry("file", 1)
          @@ <<"d", "s">> :> Entry("directory", 0) @@ <<"d", "s", "g">> :> Entry("file", 2)
Mixed == Empty @@ <<"d">> :> Entry("directory", 0) @@ <<"d", "l">> :> Entry("link", 0) @@ <<"d", "p">> :> Entry("fifo", 0)

MCTrees == {Empty, Full, Mixed}
MCContents == <<"x", "empty">>

D == <<"d">>
MCRequests == {
    One("create", Absolute(<<"d", "s">>)), One("create", Relative(<<"d", "f">>)),
    One("open", Absolute(<<"d", "s", "g">>)), One("open", Relative(<<"d", "f">>)),
    Call("copy", Absolute(<<"d", "f">>), Absolute(<<"d", "s", "g">>)),
    One("delete_file", Absolute(<<"d", "f">>)),
    One("delete_directory", Absolute(D)), One("delete_directory", Relative(D)),
    Call("move", Absolute(D), Absolute(<<"e">>)), Call("move", Absolute(<<"e">>), Relative(D)), One("move", Absolute(D)),
    One("list", Absolute(D))}
=============================================================================
