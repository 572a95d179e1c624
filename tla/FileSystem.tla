----------------------------- MODULE FileSystem -----------------------------
(***************************************************************************)
(* Gorilla::FileSystem on unix (src/src/file_system/file_system_unix.cpp): *)
(* static functions that any thread may call, each a sequence of system    *)
(* calls on one tree of files.  A step is one system call.                 *)
(*                                                                         *)
(* delete_directory and list walk with fts(3), which changes the working   *)
(* directory of the process as it descends.  No name starts with a dot     *)
(* (Path::format cuts those out), and one thread walks at a time.          *)
(***************************************************************************)
EXTENDS Integers, Sequences, FiniteSets, SequencesExt, TLC

CONSTANTS
    Threads,
    Requests,       \* the calls the threads make: [op, path, other]
    Trees,          \* the trees the program may find: path -> entry
    Contents,       \* what the files of those trees hold, by number
    MaxCalls,       \* bound: the calls of a behaviour
    MaxOpen         \* the descriptors the system grants a process

VARIABLES
    tree,           \* path -> entry; a path is the sequence of its names
    data,           \* file -> contents
    cwd,            \* the working directory
    descriptors,    \* descriptors that are open
    held,           \* those of Files the program can still close
    job,            \* thread -> its call
    disturbed,      \* thread -> what the others changed since its call began
    abandoned,      \* some walk was left before its end
    calls

vars == <<tree, data, cwd, descriptors, held, job, disturbed, abandoned, calls>>

Deleted == <<"deleted">>    \* a working directory that was removed
Names == STRING \cup {"deleted"}

FTS_D == 1          \* a directory, before its entries
FTS_DNR == 4        \* a directory that cannot be read
FTS_DP == 6         \* a directory, after its entries
FTS_F == 8          \* a file
Info == [directory |-> FTS_D, fifo |-> 3, file |-> FTS_F, none |-> 10, link |-> 12]

Has(info, mask) == \E bit \in {1, 2, 4, 8} : (info \div bit) % 2 = 1 /\ (mask \div bit) % 2 = 1

Entry(kind, file) == [kind |-> kind, file |-> file]

KindIn(f, p) == IF p \in DOMAIN f THEN f[p].kind ELSE "none"
Kind(p) == KindIn(tree, p)
Below(f, p) == {q \in DOMAIN f : IsStrictPrefix(p, q)}
Children(f, p) == {q \in Below(f, p) : Len(q) = Len(p) + 1}

\* What exists stands in a directory; a file has the number of its contents.
Rooted(f, files) ==
    /\ IsFiniteSet(DOMAIN f) /\ \A p \in DOMAIN f : p \in Seq(Names)
    /\ KindIn(f, <<>>) = "directory"
    /\ \A p \in DOMAIN f : p = <<>> \/ KindIn(f, Front(p)) = "directory"
    /\ \A p \in DOMAIN f :
           /\ f[p].kind \in DOMAIN Info \ {"none"}
           /\ f[p].file \in IF f[p].kind = "file" THEN 1 .. files ELSE {0}

ASSUME TreesOK == \A f \in Trees : Rooted(f, Len(Contents))
ASSUME ContentsOK == Contents \in Seq(STRING)
ASSUME MaxOpenOK == MaxOpen \in Nat

\* Where a path leads, from a working directory
From(base, path) == (IF path.relative THEN base ELSE <<>>) \o path.names
At(path) == From(cwd, path)

NoPath == [relative |-> FALSE, names |-> <<>>]
NoJob ==
    [at |-> "returned", request |-> [op |-> "none", path |-> NoPath, other |-> NoPath], made |-> 0, file |-> 0,
     contents |-> "none", todo |-> <<>>, home |-> <<>>, directories |-> {}, files |-> {}, result |-> TRUE]

Init ==
    /\ tree \in Trees
    /\ data = Contents
    /\ cwd = <<>>
    /\ descriptors = 0 /\ held = 0
    /\ job = [t \in Threads |-> NoJob]
    /\ disturbed = [t \in Threads |-> {}]
    /\ abandoned = FALSE
    /\ calls = 0

-----------------------------------------------------------------------------
(* The system *)

CanHold(p) == p # <<>> /\ Kind(Front(p)) = "directory"
Made(p, entry) == [q \in DOMAIN tree \cup {p} |-> IF q = p THEN entry ELSE tree[q]]
Removed(p) == [q \in DOMAIN tree \ {p} |-> tree[q]]
Directory(p) == Kind(p) = "directory"
Rmdir(p) == Directory(p) /\ Below(tree, p) = {} /\ p # <<>>
Unlink(p) == Rmdir(p) \/ Kind(p) \in {"file", "link", "fifo"}
StandingIn(directory, p) == IF directory = p THEN Deleted ELSE directory

Opens(p) == descriptors < MaxOpen /\ CanHold(p) /\ Kind(p) \in {"none", "file"}
Number(p) == IF Kind(p) = "file" THEN tree[p].file ELSE Len(data) + 1

\* rename(): a file over a file, a directory over an empty one, anything over itself
Renames(p, q) ==
    /\ Kind(p) # "none" /\ p # <<>> /\ CanHold(q) /\ ~IsStrictPrefix(p, q)
    /\ \/ Kind(q) = "none" \/ p = q
       \/ Directory(p) /\ Rmdir(q)
       \/ Kind(p) # "directory" /\ Kind(q) \notin {"none", "directory"}
Rebased(p, q, r) == IF IsPrefix(p, r) THEN q \o SubSeq(r, Len(p) + 1, Len(r)) ELSE r
Renamed(p, q) ==
    LET kept == {r \in DOMAIN tree : IsPrefix(p, r)} \cup {r \in DOMAIN tree : ~IsPrefix(q, r)}
    IN  [s \in {Rebased(p, q, r) : r \in kept} |-> tree[CHOOSE r \in kept : Rebased(p, q, r) = s]]

-----------------------------------------------------------------------------
(* The calls *)

Goto(t, j) == job' = [job EXCEPT ![t] = j]
Return(t, ok) ==
    Goto(t, [NoJob EXCEPT !.result = ok, !.directories = job[t].directories, !.files = job[t].files])

Keeps(t) == UNCHANGED <<held, abandoned, calls>>
Same == UNCHANGED <<tree, data, cwd, descriptors>>

First == [create |-> "create", open |-> "check", copy |-> "source", delete_file |-> "remove",
          delete_directory |-> "walk", move |-> "rename", list |-> "list"]

\* Every path names something.
Paths == [relative : BOOLEAN, names : Seq(Names) \ {<<>>}]

ASSUME RequestsOK == \A r \in Requests : r.op \in DOMAIN First /\ {r.path, r.other} \subseteq Paths

Begin(t) ==
    /\ job[t].at = "returned" /\ calls < MaxCalls
    /\ \E r \in Requests :
           /\ r.op \in {"delete_directory", "list"} =>
                  \A s \in Threads : job[s].at = "returned" \/ job[s].request.op \notin {"delete_directory", "list"}
           /\ Goto(t, [NoJob EXCEPT
                          !.at = First[r.op], !.request = r, !.home = cwd,
                          !.todo = IF r.op = "delete_directory" THEN <<[under |-> <<>>, info |-> Info[Kind(At(r.path))]]>> ELSE @])
    /\ calls' = calls + 1
    /\ Same /\ UNCHANGED <<held, abandoned>>

Target(j) == IF j.request.op = "copy" THEN j.request.other ELSE j.request.path

\* create_directory: the names of a path one by one, up to the first that fails
Wanted(j) == IF j.request.op = "create" THEN Target(j).names ELSE Front(Target(j).names)
Created(t, ok) ==
    IF job[t].request.op = "create" THEN Return(t, ok) ELSE Goto(t, [job[t] EXCEPT !.at = "open", !.made = 0])
Prefix(j) == At([Target(j) EXCEPT !.names = SubSeq(@, 1, j.made + 1)])

\* Mutant: the search goes on from where it started.
Advanced_Never(t) == Goto(t, [job[t] EXCEPT !.at = "create"])

Advanced(t) ==
    IF job[t].made + 1 >= Len(Wanted(job[t]))
    THEN Created(t, TRUE)
    ELSE Goto(t, [job[t] EXCEPT !.at = "create", !.made = @ + 1])

CheckPrefix(t) ==
    /\ job[t].at = "create"
    /\ IF Wanted(job[t]) = <<>> THEN Created(t, TRUE)
       ELSE IF Directory(Prefix(job[t])) THEN Advanced(t)
       ELSE Goto(t, [job[t] EXCEPT !.at = "mkdir"])
    /\ Same /\ Keeps(t)

\* Mutant: what mkdir() returns is not looked at.
Refused_Not(t) == Advanced(t)

Refused(t) == Created(t, FALSE)

MakeDirectory(t) ==
    /\ job[t].at = "mkdir"
    /\ LET p == Prefix(job[t])
       IN  IF CanHold(p) /\ Kind(p) = "none"
           THEN tree' = Made(p, Entry("directory", 0)) /\ Advanced(t)
           ELSE tree' = tree /\ Refused(t)
    /\ UNCHANGED <<data, cwd, descriptors>> /\ Keeps(t)

\* open_file for writing: the directory is made unless the path is one itself.
CheckTarget(t) ==
    /\ job[t].at = "check"
    /\ Goto(t, [job[t] EXCEPT !.at = IF Directory(At(Target(job[t]))) THEN "open" ELSE "create"])
    /\ Same /\ Keeps(t)

Open(t) ==
    /\ job[t].at = "open"
    /\ LET p == At(Target(job[t]))
           copies == job[t].request.op = "copy"
       IN  IF Opens(p)
           THEN /\ tree' = Made(p, Entry("file", Number(p)))
                /\ data' = [i \in DOMAIN data \cup {Number(p)} |-> IF i = Number(p) THEN "empty" ELSE data[i]]
                /\ descriptors' = descriptors + 1
                /\ held' = IF copies THEN held ELSE held + 1
                /\ IF copies THEN Goto(t, [job[t] EXCEPT !.at = "write", !.file = Number(p)]) ELSE Return(t, TRUE)
           ELSE UNCHANGED <<tree, data, descriptors, held>> /\ Return(t, FALSE)
    /\ UNCHANGED <<cwd, abandoned, calls>>

\* Mutant: the pointer is not looked at.
Closes_Any == descriptors > -1

Closes == held > 0

CloseFile(t) ==
    /\ job[t].at = "returned" /\ calls < MaxCalls
    /\ Closes
    /\ held' = held - 1 /\ descriptors' = descriptors - 1 /\ calls' = calls + 1
    /\ UNCHANGED <<tree, data, cwd, job, abandoned>>

\* copy_file: neither file is closed, whatever it returns.
OpenSource(t) ==
    /\ job[t].at = "source"
    /\ LET p == At(job[t].request.path)
       IN  IF descriptors < MaxOpen /\ Kind(p) \in {"file", "directory"}
           THEN descriptors' = descriptors + 1 /\ Goto(t, [job[t] EXCEPT !.at = "read", !.file = tree[p].file])
           ELSE UNCHANGED descriptors /\ Return(t, FALSE)
    /\ UNCHANGED <<tree, data, cwd>> /\ Keeps(t)

ReadSource(t) ==
    /\ job[t].at = "read"
    /\ IF job[t].file = 0
       THEN Return(t, FALSE)
       ELSE Goto(t, [job[t] EXCEPT !.at = "check", !.contents = data[job[t].file], !.file = 0])
    /\ Same /\ Keeps(t)

\* Mutant: the length that write() returns is not looked at.
Written_Any(whole) == TRUE

Written(whole) == whole

WriteTarget(t) ==
    /\ job[t].at = "write"
    /\ \E whole \in {TRUE, job[t].contents = "empty"} :
           /\ data' = [data EXCEPT ![job[t].file] = IF whole THEN job[t].contents ELSE "part"]
           /\ Return(t, Written(whole))
    /\ UNCHANGED <<tree, cwd, descriptors>> /\ Keeps(t)

DeleteFile(t) ==
    /\ job[t].at = "remove"
    /\ LET p == At(job[t].request.path)
       IN  /\ tree' = IF Unlink(p) THEN Removed(p) ELSE tree
           /\ cwd' = IF Unlink(p) THEN StandingIn(cwd, p) ELSE cwd
           /\ Return(t, Unlink(p))
    /\ UNCHANGED <<data, descriptors>> /\ Keeps(t)

Move(t) ==
    /\ job[t].at = "rename"
    /\ LET p == At(job[t].request.path)
           q == At(job[t].request.other)
       IN  IF Renames(p, q)
           THEN /\ tree' = Renamed(p, q) /\ Return(t, TRUE)
                /\ cwd' = IF IsPrefix(p, cwd) THEN Rebased(p, q, cwd) ELSE StandingIn(cwd, q)
           ELSE UNCHANGED <<tree, cwd>> /\ Return(t, FALSE)
    /\ UNCHANGED <<data, descriptors>> /\ Keeps(t)

-----------------------------------------------------------------------------
(* Walking a tree *)

Place(j, e) == From(j.home, j.request.path) \o e.under

\* fts_read comes back from a directory before it returns it a second time.
Back(j, e) == IF e.info # FTS_DP THEN cwd ELSE IF e.under = <<>> THEN j.home ELSE Front(Place(j, e))

\* The entries of a directory, in the order the system has them; fts_read
\* stands in the directory unless it is empty.
Descend(t, e) ==
    /\ e.info = FTS_D
    /\ IF Directory(Place(job[t], e))
       THEN \E order \in SetToSeqs(Children(tree, Place(job[t], e))) :
                /\ job' = [job EXCEPT ![t].todo =
                              [i \in DOMAIN order |-> [under |-> Append(e.under, Last(order[i])), info |-> Info[Kind(order[i])]]]
                                  \o <<[e EXCEPT !.info = FTS_DP]>> \o Tail(@),
                          ![t].directories = IF Len(e.under) = 1 THEN @ \cup {e.under} ELSE @]
                /\ cwd' = IF order = <<>> THEN cwd ELSE Place(job[t], e)
       ELSE /\ job' = [job EXCEPT ![t].todo = <<[e EXCEPT !.info = FTS_DNR]>> \o Tail(@)]
            /\ UNCHANGED cwd
    /\ UNCHANGED <<tree, abandoned>>

\* delete_directory tells what an entry is by the bits its number shares with
\* that of a kind, and names it by the path it was given.
Erases(e, p) == IF Has(e.info, FTS_DP) THEN Rmdir(p) ELSE Has(e.info, FTS_F) => Unlink(p)

Erase(t, e) ==
    /\ e.info # FTS_D /\ job[t].request.op = "delete_directory"
    /\ LET back == Back(job[t], e)
           p == From(back, job[t].request.path) \o e.under
       IN  IF Erases(e, p)
           THEN /\ tree' = Removed(p) /\ cwd' = StandingIn(back, p)
                /\ job' = [job EXCEPT ![t].todo = Tail(@)]
                /\ UNCHANGED abandoned
           ELSE cwd' = back /\ abandoned' = TRUE /\ Return(t, FALSE) /\ UNCHANGED tree

\* Mutant: the listing ends with the first file.
Listed_First(t, e) == IF Has(e.info, FTS_F) THEN Return(t, TRUE) ELSE job' = [job EXCEPT ![t].todo = Tail(@)]

Listed(t, e) ==
    job' = [job EXCEPT ![t].todo = Tail(@),
                       ![t].directories = IF Len(e.under) = 1 /\ Has(e.info, FTS_D) THEN @ \cup {e.under} ELSE @,
                       ![t].files = IF Len(e.under) = 1 /\ ~Has(e.info, FTS_D) /\ Has(e.info, FTS_F)
                                    THEN @ \cup {e.under} ELSE @]

List(t, e) ==
    /\ e.info # FTS_D /\ job[t].request.op = "list"
    /\ Listed(t, e)
    /\ cwd' = Back(job[t], e)
    /\ UNCHANGED <<tree, abandoned>>

CheckListed(t) ==
    /\ job[t].at = "list"
    /\ IF Directory(At(job[t].request.path))
       THEN Goto(t, [job[t] EXCEPT !.at = "walk", !.home = cwd, !.todo = <<[under |-> <<>>, info |-> FTS_D]>>])
       ELSE Return(t, FALSE)
    /\ Same /\ Keeps(t)

Walk(t) ==
    /\ job[t].at = "walk" /\ job[t].todo # <<>>
    /\ \E e \in {Head(job[t].todo)} : Descend(t, e) \/ Erase(t, e) \/ List(t, e)
    /\ UNCHANGED <<data, descriptors, held, calls>>

\* fts_close returns to where the walk began.
EndWalk(t) ==
    /\ job[t].at = "walk" /\ job[t].todo = <<>>
    /\ cwd' = job[t].home
    /\ Return(t, TRUE)
    /\ UNCHANGED <<tree, data, descriptors>> /\ Keeps(t)

-----------------------------------------------------------------------------
Step(t) ==
    \/ CheckPrefix(t) \/ MakeDirectory(t) \/ CheckTarget(t) \/ Open(t)
    \/ OpenSource(t) \/ ReadSource(t) \/ WriteTarget(t)
    \/ DeleteFile(t) \/ Move(t)
    \/ CheckListed(t) \/ Walk(t) \/ EndWalk(t)

\* What a step means for the calls of the other threads
Changes ==
    (IF \E p \in DOMAIN tree : p \notin DOMAIN tree' \/ tree'[p] # tree[p] THEN {"removed"} ELSE {})
        \cup (IF DOMAIN tree' \subseteq DOMAIN tree THEN {} ELSE {"made"})
        \cup (IF data' = data THEN {} ELSE {"written"})
        \cup (IF cwd' = cwd THEN {} ELSE {"moved"})

Disturbs(t) ==
    disturbed' = [s \in Threads |->
        IF job'[s].at = "returned" THEN {} ELSE IF s = t THEN disturbed[s] ELSE disturbed[s] \cup Changes]

Next == \E t \in Threads : (Begin(t) \/ CloseFile(t) \/ Step(t)) /\ Disturbs(t)

\* A thread in a call goes on.
Spec == Init /\ [][Next]_vars /\ \A t \in Threads : WF_vars(Step(t) /\ Disturbs(t))

-----------------------------------------------------------------------------
(* Properties *)

\* What exists stands in a directory, and no more is closed than was opened.
TypeOK ==
    /\ Rooted(tree, Len(data))
    /\ descriptors \in 0 .. MaxOpen /\ held \in 0 .. descriptors
    /\ \A t \in Threads : disturbed[t] \subseteq {"made", "removed", "written", "moved"}

Returns(t) == job[t].at # "returned" /\ job'[t].at = "returned"

\* What a result says of the tree and of the contents: r the call, j how it
\* ended, p and q where its paths lead.
Answer(r, j, f, d, p, q) ==
    \/ r.op = "create" /\ j.result = (KindIn(f, p) = "directory")
    \/ /\ r.op = "open"
       /\ IF j.result
          THEN KindIn(f, p) = "file" /\ d[f[p].file] = "empty"
          ELSE KindIn(f, p) # "file" \/ descriptors = MaxOpen
    \/ /\ r.op = "copy"
       /\ j.result => KindIn(f, p) = "file" /\ KindIn(f, q) = "file" /\ d[f[p].file] = d[f[q].file]
    \/ /\ r.op = "delete_file"
       /\ IF j.result THEN p \notin DOMAIN f ELSE p \notin DOMAIN f \/ Below(f, p) # {}
    \/ r.op = "move" /\ (j.result => q \in DOMAIN f /\ (p # q => p \notin DOMAIN f))
    \/ /\ r.op = "delete_directory"
       /\ IF j.result
          THEN \A s \in DOMAIN f : ~IsPrefix(p, s)
          ELSE \/ p \notin DOMAIN f
               \/ \E s \in DOMAIN f : IsPrefix(p, s) /\ f[s].kind \in {"link", "fifo"}
               \/ r.path.relative /\ Below(f, p) # {}
    \/ /\ r.op = "list"
       /\ LET named(kinds) == {u \in {SubSeq(s, Len(p) + 1, Len(s)) : s \in Children(f, p)} : f[p \o u].kind \in kinds}
          IN  j.result => j.directories = named({"directory", "fifo"}) /\ j.files = named({"file", "link"})

\* A call no other thread comes between answers for what it did, from any tree
\* and after any calls: a directory made is there with those above it, a copy
\* equals its source, a directory deleted is gone with all below it, unless it
\* holds a link or a fifo or is named by a relative path and not empty.
CallsAnswer ==
    [][\A t \in Threads :
          Returns(t) /\ disturbed[t] = {} =>
              Answer(job[t].request, job'[t], tree', data',
                     From(job[t].home, job[t].request.path), From(job[t].home, job[t].request.other))]_vars

\* create_directory and open_file test before they make: threads that make the
\* same directories meet between the two.  What one is told to be there is
\* there when it is told, unless another moved the working directory.
CreatedExists ==
    [][\A t \in Threads :
          LET p == From(job[t].home, job[t].request.path)
          IN  Returns(t) /\ job'[t].result /\ "moved" \notin disturbed[t] =>
                  /\ job[t].request.op = "create" => KindIn(tree', p) = "directory"
                  /\ job[t].request.op = "open" => KindIn(tree', p) = "file"]_vars

\* The working directory is the one the program started in whenever no walk is
\* on, as long as no delete_directory has failed half way.
WorkingDirectoryKept == cwd = <<>> \/ abandoned \/ \E t \in Threads : job[t].at = "walk"

\* Every call returns, whatever the others do to the tree it works on.
CallsReturn == \A t \in Threads : job[t].at # "returned" ~> job[t].at = "returned"
=============================================================================
