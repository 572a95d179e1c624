-------------------------- MODULE FileSystemProofs --------------------------
(* Proofs about FileSystem, for any threads, requests, trees and limits. *)
EXTENDS FileSystem, FiniteSetTheorems, SequenceTheorems, TLAPS, WellFoundedInduction

Fields == {"at", "request", "made", "file", "contents", "todo", "home", "directories", "files", "result"}

\* The steps of each call
Stages ==
    [create |-> {"create", "mkdir"}, open |-> {"check", "create", "mkdir", "open"},
     copy |-> {"source", "read", "check", "create", "mkdir", "open", "write"},
     delete_file |-> {"remove"}, delete_directory |-> {"walk"}, move |-> {"rename"},
     list |-> {"list", "walk"}]

Walks(j) == j.at # "returned" /\ j.request.op \in {"delete_directory", "list"}

\* A call is at a step of its own, and create_directory has a name to make.
JobOK(j) ==
    /\ DOMAIN j = Fields
    /\ j.at # "returned" =>
          /\ j.request \in Requests
          /\ j.at \in Stages[j.request.op]
          /\ j.made \in Nat
          /\ j.request.op = "create" => j.made < Len(j.request.path.names)

\* Nobody walks but one thread, from where the program started, and nobody else
\* is elsewhere, unless a walk was given up.
AtHome ==
    ~abandoned =>
        /\ (\A t \in Threads : job[t].at # "walk") => cwd = <<>>
        /\ \A t \in Threads : job[t].at = "walk" => job[t].home = <<>>

\* A thread that saw nobody move the working directory is where it began.
Undisturbed ==
    \A t \in Threads :
        job[t].at \notin {"returned", "walk"} /\ "moved" \notin disturbed[t] => job[t].home = cwd

\* The inductive invariant.
FInv ==
    /\ DOMAIN job = Threads
    /\ \A t \in Threads : JobOK(job[t])
    /\ \A s, t \in Threads : Walks(job[s]) /\ Walks(job[t]) => s = t
    /\ AtHome
    /\ Undisturbed

-----------------------------------------------------------------------------
LEMMA NoJobIs == DOMAIN NoJob = Fields /\ NoJob.at = "returned"
BY DEF NoJob, Fields

LEMMA InitOK == Init => FInv
<1> SUFFICES ASSUME Init PROVE FInv
  OBVIOUS
<1>1. DOMAIN job = Threads /\ \A t \in Threads : job[t] = NoJob
  BY DEF Init
<1>2. \A t \in Threads : JobOK(job[t]) /\ ~Walks(job[t]) /\ job[t].at = "returned"
  BY <1>1, NoJobIs, Zenon DEF JobOK, Walks
<1>3. cwd = <<>>
  BY DEF Init
<1>4. AtHome /\ Undisturbed
  BY <1>2, <1>3 DEF AtHome, Undisturbed
<1> QED BY <1>1, <1>2, <1>4, Zenon DEF FInv

\* Setting the job of one thread.
LEMMA GotoIs ==
    ASSUME FInv, NEW t \in Threads, NEW j, Goto(t, j)
    PROVE  DOMAIN job' = Threads /\ job'[t] = j /\ \A s \in Threads \ {t} : job'[s] = job[s]
BY DEF FInv, Goto

LEMMA ReturnIs ==
    ASSUME FInv, NEW t \in Threads, NEW ok, Return(t, ok)
    PROVE  /\ DOMAIN job' = Threads /\ \A s \in Threads \ {t} : job'[s] = job[s]
           /\ JobOK(job'[t]) /\ job'[t].at = "returned" /\ job'[t].result = ok
<1>1. PICK j : j = [NoJob EXCEPT !.result = ok, !.directories = job[t].directories, !.files = job[t].files]
  OBVIOUS
<1>2. Goto(t, j)
  BY <1>1, Zenon DEF Return
<1>3. DOMAIN j = Fields /\ j.at = "returned" /\ j.result = ok
  BY <1>1, NoJobIs, Zenon DEF Fields
<1>4. JobOK(j)
  BY <1>3 DEF JobOK
<1> QED BY <1>2, <1>3, <1>4, GotoIs

\* What the other threads are told of a step.
LEMMA DisturbsIs ==
    ASSUME NEW t \in Threads, Disturbs(t), NEW s \in Threads, "moved" \notin disturbed'[s],
           job'[s].at # "returned"
    PROVE  "moved" \notin disturbed[s] /\ (s # t => cwd' = cwd)
<1>1. disturbed'[s] = IF s = t THEN disturbed[s] ELSE disturbed[s] \cup Changes
  BY DEF Disturbs
<1>2. cwd' # cwd => "moved" \in Changes
  BY DEF Changes
<1> QED BY <1>1, <1>2

\* When the step of a thread keeps the invariant.
LEMMA StepOK ==
    ASSUME FInv, NEW t \in Threads, Disturbs(t),
           DOMAIN job' = Threads, \A s \in Threads \ {t} : job'[s] = job[s],
           JobOK(job'[t]),
           Walks(job'[t]) => Walks(job[t]) \/ \A s \in Threads \ {t} : ~Walks(job[s]),
           ~abandoned' => /\ (\A s \in Threads : job'[s].at # "walk") => cwd' = <<>>
                          /\ job'[t].at = "walk" => job'[t].home = <<>>,
           abandoned => abandoned',
           job'[t].at \notin {"returned", "walk"} =>
              \/ job'[t].home = cwd'
              \/ /\ job[t].at \notin {"returned", "walk"}
                 /\ job'[t].home = job[t].home /\ cwd' = cwd
    PROVE  FInv'
<1>1. \A s \in Threads : JobOK(job'[s])
  BY DEF FInv
<1>2. \A r, s \in Threads : Walks(job'[r]) /\ Walks(job'[s]) => r = s
  BY DEF FInv
<1>3. AtHome'
  BY DEF FInv, AtHome
<1>4. ASSUME NEW s \in Threads, job'[s].at \notin {"returned", "walk"}, "moved" \notin disturbed'[s]
      PROVE  job'[s].home = cwd'
  <2>1. "moved" \notin disturbed[s] /\ (s # t => cwd' = cwd)
    BY <1>4, DisturbsIs
  <2>2. CASE s = t
    BY <1>4, <2>1, <2>2 DEF FInv, Undisturbed
  <2>3. CASE s # t
    BY <1>4, <2>1, <2>3 DEF FInv, Undisturbed
  <2> QED BY <2>2, <2>3
<1>5. Undisturbed'
  BY <1>4 DEF Undisturbed
<1>6. \A s \in Threads : JobOK(job[s])'
  BY <1>1 DEF JobOK
<1>7. \A r, s \in Threads : (Walks(job[r]) /\ Walks(job[s]))' => r = s
  BY <1>2 DEF Walks
<1> QED BY <1>3, <1>5, <1>6, <1>7 DEF FInv

\* The step of a call that does not walk and leaves the working directory.
LEMMA QuietStep ==
    ASSUME FInv, NEW t \in Threads, Disturbs(t), UNCHANGED <<cwd, abandoned>>,
           DOMAIN job' = Threads, \A s \in Threads \ {t} : job'[s] = job[s],
           JobOK(job'[t]), job[t].at # "walk",
           \/ job'[t].at = "returned"
           \/ /\ job[t].at # "returned" /\ job'[t].at # "walk"
              /\ job'[t].request = job[t].request /\ job'[t].home = job[t].home
    PROVE  FInv'
<1>1. Walks(job'[t]) => Walks(job[t])
  BY DEF Walks
<1>2. (\A s \in Threads : job'[s].at # "walk") => \A s \in Threads : job[s].at # "walk"
  OBVIOUS
<1>3. ~abandoned' /\ (\A s \in Threads : job'[s].at # "walk") => cwd' = <<>>
  BY <1>2 DEF FInv, AtHome
<1> QED BY <1>1, <1>3, StepOK

\* A call that returns without having touched the working directory.
LEMMA QuietReturn ==
    ASSUME FInv, NEW t \in Threads, Disturbs(t), UNCHANGED <<cwd, abandoned>>,
           job[t].at # "walk", NEW ok, Return(t, ok)
    PROVE  FInv'
BY ReturnIs, QuietStep

\* Which call a step belongs to
LEMMA StagesOf ==
    ASSUME NEW op \in DOMAIN First
    PROVE  /\ Stages[op] \subseteq {"check", "create", "mkdir", "open", "source", "read", "write",
                                    "remove", "rename", "list", "walk"}
           /\ "create" \in Stages[op] <=> op \in {"create", "open", "copy"}
           /\ "mkdir" \in Stages[op] <=> op \in {"create", "open", "copy"}
           /\ "check" \in Stages[op] <=> op \in {"open", "copy"}
           /\ "open" \in Stages[op] <=> op \in {"open", "copy"}
           /\ {"source", "read", "write"} \subseteq Stages[op] <=> op = "copy"
           /\ "source" \in Stages[op] \/ "read" \in Stages[op] \/ "write" \in Stages[op] => op = "copy"
           /\ "remove" \in Stages[op] <=> op = "delete_file"
           /\ "rename" \in Stages[op] <=> op = "move"
           /\ "list" \in Stages[op] <=> op = "list"
           /\ "walk" \in Stages[op] <=> op \in {"delete_directory", "list"}
           /\ First[op] \in Stages[op]
           /\ First[op] = "walk" <=> op = "delete_directory"
           /\ First[op] \in {"create", "mkdir"} <=> op = "create"
           /\ First[op] # "returned"
<1>1. op \in {"create", "open", "copy", "delete_file", "delete_directory", "move", "list"}
  BY DEF First
<1>2. CASE op = "create"
  BY <1>2 DEF First, Stages
<1>3. CASE op = "open"
  BY <1>3 DEF First, Stages
<1>4. CASE op = "copy"
  BY <1>4 DEF First, Stages
<1>5. CASE op = "delete_file"
  BY <1>5 DEF First, Stages
<1>6. CASE op = "delete_directory"
  BY <1>6 DEF First, Stages
<1>7. CASE op = "move"
  BY <1>7 DEF First, Stages
<1>8. CASE op = "list"
  BY <1>8 DEF First, Stages
<1> QED BY <1>1, <1>2, <1>3, <1>4, <1>5, <1>6, <1>7, <1>8

\* What is known of the job of a thread.
LEMMA JobIs ==
    ASSUME FInv, NEW t \in Threads
    PROVE  /\ DOMAIN job[t] = Fields
           /\ job[t].at # "returned" =>
                 /\ job[t].request \in Requests /\ job[t].request.op \in DOMAIN First
                 /\ job[t].at \in Stages[job[t].request.op]
                 /\ job[t].made \in Nat
                 /\ job[t].request.path \in Paths /\ job[t].request.other \in Paths
                 /\ job[t].request.path.names \in Seq(Names) \ {<<>>}
                 /\ job[t].request.other.names \in Seq(Names) \ {<<>>}
                 /\ job[t].request.op = "create" => job[t].made < Len(job[t].request.path.names)
<1>1. JobOK(job[t])
  BY DEF FInv
<1>2. \A r \in Requests : r.op \in DOMAIN First /\ r.path \in Paths /\ r.other \in Paths
  BY RequestsOK
<1>3. \A path \in Paths : path.names \in Seq(Names) \ {<<>>}
  BY DEF Paths
<1> QED BY <1>1, <1>2, <1>3 DEF JobOK

\* A call that goes on to another of its steps.
LEMMA QuietGoto ==
    ASSUME FInv, NEW t \in Threads, Disturbs(t), UNCHANGED <<cwd, abandoned>>,
           job[t].at \notin {"returned", "walk"},
           NEW j, Goto(t, j), DOMAIN j = Fields,
           j.request = job[t].request, j.home = job[t].home,
           j.at \notin {"returned", "walk"}, j.at \in Stages[job[t].request.op],
           j.made \in Nat, j.request.op = "create" => j.made < Len(j.request.path.names)
    PROVE  FInv'
<1>1. JobOK(j)
  BY JobIs DEF JobOK
<1> QED BY <1>1, GotoIs, QuietStep

LEMMA QuietAt ==
    ASSUME FInv, NEW t \in Threads, Disturbs(t), UNCHANGED <<cwd, abandoned>>,
           job[t].at \notin {"returned", "walk"}, NEW a, Goto(t, [job[t] EXCEPT !.at = a]),
           a \notin {"returned", "walk"}, a \in Stages[job[t].request.op]
    PROVE  FInv'
<1>1. PICK j : j = [job[t] EXCEPT !.at = a]
  OBVIOUS
<1>2. Goto(t, j)
  BY <1>1, Zenon
<1>0. DOMAIN job[t] = Fields
  BY JobIs
<1>3. /\ DOMAIN j = Fields /\ j.at = a /\ j.request = job[t].request /\ j.home = job[t].home
      /\ j.made = job[t].made
  BY <1>0, <1>1, Zenon DEF Fields
<1>4. j.made \in Nat /\ (j.request.op = "create" => j.made < Len(j.request.path.names))
  BY <1>3, JobIs
<1> QED BY <1>2, <1>3, <1>4, QuietGoto

-----------------------------------------------------------------------------
(* create_directory, open_file and copy_file *)

\* The end of create_directory, on its own or inside another call
LEMMA CreatedStep ==
    ASSUME FInv, NEW t \in Threads, Disturbs(t), UNCHANGED <<cwd, abandoned>>,
           job[t].at \in {"create", "mkdir"}, NEW ok, Created(t, ok)
    PROVE  FInv'
<1>1. CASE job[t].request.op = "create"
  BY <1>1, QuietReturn DEF Created
<1>2. CASE job[t].request.op # "create"
  <2>1. PICK j : j = [job[t] EXCEPT !.at = "open", !.made = 0]
    OBVIOUS
  <2>2. Goto(t, j)
    BY <1>2, <2>1, Zenon DEF Created
  <2>3. DOMAIN job[t] = Fields
    BY JobIs
  <2>4. /\ DOMAIN j = Fields /\ j.at = "open" /\ j.request = job[t].request /\ j.home = job[t].home
        /\ j.made = 0
    BY <2>1, <2>3, Zenon DEF Fields
  <2>5. "open" \in Stages[job[t].request.op]
    BY <1>2, JobIs, StagesOf
  <2> QED BY <1>2, <2>2, <2>4, <2>5, QuietGoto
<1> QED BY <1>1, <1>2

LEMMA AdvancedStep ==
    ASSUME FInv, NEW t \in Threads, Disturbs(t), UNCHANGED <<cwd, abandoned>>,
           job[t].at \in {"create", "mkdir"}, Advanced(t)
    PROVE  FInv'
<1>1. CASE job[t].made + 1 >= Len(Wanted(job[t]))
  BY <1>1, CreatedStep DEF Advanced
<1>2. CASE ~(job[t].made + 1 >= Len(Wanted(job[t])))
  <2>1. PICK j : j = [job[t] EXCEPT !.at = "create", !.made = @ + 1]
    OBVIOUS
  <2>2. Goto(t, j)
    BY <1>2, <2>1, Zenon DEF Advanced
  <2>3. DOMAIN job[t] = Fields
    BY JobIs
  <2>4. /\ DOMAIN j = Fields /\ j.at = "create" /\ j.request = job[t].request /\ j.home = job[t].home
        /\ j.made = job[t].made + 1
    BY <2>1, <2>3, Zenon DEF Fields
  <2>5. "create" \in Stages[job[t].request.op] /\ job[t].made \in Nat
    BY JobIs, StagesOf
  <2>6. ASSUME j.request.op = "create"
        PROVE  j.made < Len(j.request.path.names)
    <3>1. Wanted(job[t]) = job[t].request.path.names
      BY <2>4, <2>6 DEF Wanted, Target
    <3>2. Len(job[t].request.path.names) \in Nat
      BY SMTT(30), JobIs
    <3> QED BY <1>2, <2>4, <2>5, <3>1, <3>2
  <2> QED BY <2>2, <2>4, <2>5, <2>6, QuietGoto
<1> QED BY <1>1, <1>2

LEMMA CheckPrefixStep ==
    ASSUME FInv, NEW t \in Threads, Disturbs(t), CheckPrefix(t)
    PROVE  FInv'
<1>1. job[t].at = "create" /\ UNCHANGED <<cwd, abandoned>>
  BY DEF CheckPrefix, Same, Keeps
<1>2. CASE Created(t, TRUE)
  BY <1>1, <1>2, CreatedStep
<1>3. CASE Advanced(t)
  BY <1>1, <1>3, AdvancedStep
<1>4. CASE Goto(t, [job[t] EXCEPT !.at = "mkdir"])
  <2>1. "mkdir" \in Stages[job[t].request.op]
    BY <1>1, JobIs, StagesOf
  <2> QED BY <1>1, <1>4, <2>1, QuietAt
<1> QED BY <1>2, <1>3, <1>4, Zenon DEF CheckPrefix

LEMMA MakeDirectoryStep ==
    ASSUME FInv, NEW t \in Threads, Disturbs(t), MakeDirectory(t)
    PROVE  FInv'
<1>1. job[t].at = "mkdir" /\ UNCHANGED <<cwd, abandoned>>
  BY DEF MakeDirectory, Keeps
<1>2. Advanced(t) \/ Created(t, FALSE)
  BY Zenon DEF MakeDirectory, Refused
<1> QED BY <1>1, <1>2, AdvancedStep, CreatedStep

LEMMA CheckTargetStep ==
    ASSUME FInv, NEW t \in Threads, Disturbs(t), CheckTarget(t)
    PROVE  FInv'
<1>1. job[t].at = "check" /\ UNCHANGED <<cwd, abandoned>>
  BY DEF CheckTarget, Same, Keeps
<1>2. {"open", "create"} \subseteq Stages[job[t].request.op]
  BY <1>1, JobIs, StagesOf
<1>3. \E a \in {"open", "create"} : Goto(t, [job[t] EXCEPT !.at = a])
  BY Zenon DEF CheckTarget
<1>4. PICK a \in {"open", "create"} : Goto(t, [job[t] EXCEPT !.at = a])
  BY <1>3, Zenon
<1>5. a \in Stages[job[t].request.op] /\ a \notin {"returned", "walk"}
  BY <1>2
<1>6. job[t].at \notin {"returned", "walk"}
  BY <1>1
<1> QED BY <1>1, <1>4, <1>5, <1>6, QuietAt, Zenon

LEMMA OpenStep ==
    ASSUME FInv, NEW t \in Threads, Disturbs(t), Open(t)
    PROVE  FInv'
<1>1. job[t].at = "open" /\ UNCHANGED <<cwd, abandoned>>
  BY DEF Open
<1>2. \/ \E ok : Return(t, ok)
      \/ /\ job[t].request.op = "copy"
         /\ \E n : Goto(t, [job[t] EXCEPT !.at = "write", !.file = n])
  BY Zenon DEF Open
<1>3. CASE \E ok : Return(t, ok)
  BY <1>1, <1>3, QuietReturn
<1>4. ASSUME job[t].request.op = "copy", NEW n, Goto(t, [job[t] EXCEPT !.at = "write", !.file = n])
      PROVE  FInv'
  <2>1. PICK j : j = [job[t] EXCEPT !.at = "write", !.file = n]
    OBVIOUS
  <2>2. Goto(t, j)
    BY <1>4, <2>1, Zenon
  <2>3. DOMAIN job[t] = Fields /\ job[t].made \in Nat
    BY <1>1, JobIs
  <2>4. /\ DOMAIN j = Fields /\ j.at = "write" /\ j.request = job[t].request /\ j.home = job[t].home
        /\ j.made = job[t].made
    BY <2>1, <2>3, Zenon DEF Fields
  <2>5. "write" \in Stages[job[t].request.op]
    BY <1>1, <1>4, JobIs, StagesOf
  <2>6. j.request.op # "create"
    BY <1>4, <2>4
  <2> HIDE <1>4
  <2> QED BY <1>1, <2>2, <2>3, <2>4, <2>5, <2>6, QuietGoto
<1> QED BY <1>2, <1>3, <1>4, Zenon

LEMMA OpenSourceStep ==
    ASSUME FInv, NEW t \in Threads, Disturbs(t), OpenSource(t)
    PROVE  FInv'
<1>1. job[t].at = "source" /\ UNCHANGED <<cwd, abandoned>>
  BY DEF OpenSource, Keeps
<1>2. \/ Return(t, FALSE)
      \/ \E n : Goto(t, [job[t] EXCEPT !.at = "read", !.file = n])
  BY Zenon DEF OpenSource
<1>3. CASE Return(t, FALSE)
  BY <1>1, <1>3, QuietReturn
<1>4. ASSUME NEW n, Goto(t, [job[t] EXCEPT !.at = "read", !.file = n])
      PROVE  FInv'
  <2>1. PICK j : j = [job[t] EXCEPT !.at = "read", !.file = n]
    OBVIOUS
  <2>2. Goto(t, j)
    BY <1>4, <2>1, Zenon
  <2>3. DOMAIN job[t] = Fields /\ job[t].made \in Nat
    BY <1>1, JobIs
  <2>4. /\ DOMAIN j = Fields /\ j.at = "read" /\ j.request = job[t].request /\ j.home = job[t].home
        /\ j.made = job[t].made
    BY <2>1, <2>3, Zenon DEF Fields
  <2>5. "read" \in Stages[job[t].request.op] /\ job[t].request.op = "copy"
    BY <1>1, JobIs, StagesOf
  <2>6. j.request.op # "create"
    BY <2>4, <2>5
  <2> HIDE <1>4
  <2> QED BY <1>1, <2>2, <2>3, <2>4, <2>5, <2>6, QuietGoto
<1> QED BY <1>2, <1>3, <1>4, Zenon

LEMMA ReadSourceStep ==
    ASSUME FInv, NEW t \in Threads, Disturbs(t), ReadSource(t)
    PROVE  FInv'
<1>1. job[t].at = "read" /\ UNCHANGED <<cwd, abandoned>>
  BY DEF ReadSource, Same, Keeps
<1>2. \/ Return(t, FALSE)
      \/ \E c : Goto(t, [job[t] EXCEPT !.at = "check", !.contents = c, !.file = 0])
  BY Zenon DEF ReadSource
<1>3. CASE Return(t, FALSE)
  BY <1>1, <1>3, QuietReturn
<1>4. ASSUME NEW c, Goto(t, [job[t] EXCEPT !.at = "check", !.contents = c, !.file = 0])
      PROVE  FInv'
  <2>1. PICK j : j = [job[t] EXCEPT !.at = "check", !.contents = c, !.file = 0]
    OBVIOUS
  <2>2. Goto(t, j)
    BY <1>4, <2>1, Zenon
  <2>3. DOMAIN job[t] = Fields /\ job[t].made \in Nat
    BY <1>1, JobIs
  <2>4. /\ DOMAIN j = Fields /\ j.at = "check" /\ j.request = job[t].request /\ j.home = job[t].home
        /\ j.made = job[t].made
    BY <2>1, <2>3, Zenon DEF Fields
  <2>5. "check" \in Stages[job[t].request.op] /\ job[t].request.op = "copy"
    BY <1>1, JobIs, StagesOf
  <2>6. j.request.op # "create"
    BY <2>4, <2>5
  <2> HIDE <1>4
  <2> QED BY <1>1, <2>2, <2>3, <2>4, <2>5, <2>6, QuietGoto
<1> QED BY <1>2, <1>3, <1>4, Zenon

LEMMA WriteTargetStep ==
    ASSUME FInv, NEW t \in Threads, Disturbs(t), WriteTarget(t)
    PROVE  FInv'
<1>1. job[t].at = "write" /\ UNCHANGED <<cwd, abandoned>>
  BY DEF WriteTarget, Keeps
<1>2. \E ok : Return(t, ok)
  BY Zenon DEF WriteTarget
<1> QED BY <1>1, <1>2, QuietReturn

LEMMA CloseFileStep ==
    ASSUME FInv, NEW t \in Threads, Disturbs(t), CloseFile(t)
    PROVE  FInv'
<1>1. job[t].at = "returned" /\ UNCHANGED <<cwd, abandoned, job>>
  BY DEF CloseFile
<1>2. JobOK(job'[t]) /\ DOMAIN job' = Threads
  BY <1>1 DEF FInv
<1> QED BY <1>1, <1>2, QuietStep

-----------------------------------------------------------------------------
(* delete_file and move *)

\* A path that names something, from the root.
LEMMA FromRoot ==
    ASSUME cwd = <<>>, NEW path, path.names \in Seq(Names) \ {<<>>}
    PROVE  At(path) \in Seq(Names) \ {<<>>}
BY DEF At, From

LEMMA DeleteFileStep ==
    ASSUME FInv, NEW t \in Threads, Disturbs(t), DeleteFile(t)
    PROVE  FInv'
<1>1. job[t].at = "remove" /\ UNCHANGED abandoned
  BY DEF DeleteFile, Keeps
<1>2. PICK ok : Return(t, ok)
  BY Zenon DEF DeleteFile
<1>3. cwd = <<>> => cwd' = <<>>
  <2>1. cwd = <<>> => At(job[t].request.path) # <<>>
    BY <1>1, FromRoot, JobIs
  <2>2. cwd' = cwd \/ cwd' = StandingIn(cwd, At(job[t].request.path))
    BY Zenon DEF DeleteFile
  <2> QED BY <2>1, <2>2 DEF StandingIn
<1>4. ASSUME ~abandoned', \A s \in Threads : job'[s].at # "walk"
      PROVE  cwd' = <<>>
  <2>1. \A s \in Threads : job[s].at # "walk"
    BY <1>1, <1>2, <1>4, ReturnIs
  <2> QED BY <1>1, <1>3, <1>4, <2>1 DEF FInv, AtHome
<1>5. JobOK(job'[t]) /\ job'[t].at = "returned" /\ ~Walks(job'[t])
  BY <1>2, ReturnIs DEF Walks
<1> QED BY <1>1, <1>2, <1>4, <1>5, ReturnIs, StepOK

LEMMA MoveStep ==
    ASSUME FInv, NEW t \in Threads, Disturbs(t), Move(t)
    PROVE  FInv'
<1>1. job[t].at = "rename" /\ UNCHANGED abandoned
  BY DEF Move, Keeps
<1>2. PICK ok : Return(t, ok)
  BY Zenon DEF Move
<1> DEFINE p == At(job[t].request.path)
           q == At(job[t].request.other)
<1>3. cwd = <<>> => cwd' = <<>>
  <2>1. SUFFICES ASSUME cwd = <<>> PROVE cwd' = <<>>
    OBVIOUS
  <2>2. p \in Seq(Names) \ {<<>>}
    BY <1>1, <2>1, FromRoot, JobIs
  <2>3. q # <<>>
    <3>1. job[t].request.other.names \in Seq(Names) \ {<<>>}
      BY <1>1, JobIs
    <3> QED BY <2>1, <3>1, FromRoot
  <2>4. cwd' = cwd \/ cwd' = IF IsPrefix(p, cwd) THEN Rebased(p, q, cwd) ELSE StandingIn(cwd, q)
    BY Zenon DEF Move
  <2>5. StandingIn(cwd, q) = <<>>
    BY <2>1, <2>3 DEF StandingIn
  <2>6. ~IsPrefix(p, cwd)
    BY <2>1, <2>2 DEF IsPrefix
  <2> QED BY <2>1, <2>4, <2>5, <2>6
<1>4. ASSUME ~abandoned', \A s \in Threads : job'[s].at # "walk"
      PROVE  cwd' = <<>>
  <2>1. \A s \in Threads : job[s].at # "walk"
    BY <1>1, <1>2, <1>4, ReturnIs
  <2> QED BY <1>1, <1>3, <1>4, <2>1 DEF FInv, AtHome
<1>5. JobOK(job'[t]) /\ job'[t].at = "returned" /\ ~Walks(job'[t])
  BY <1>2, ReturnIs DEF Walks
<1> QED BY <1>1, <1>2, <1>4, <1>5, ReturnIs, StepOK

-----------------------------------------------------------------------------
(* delete_directory and list *)

\* Who is at the step of walking has a call that walks.
LEMMA WalkersWalk ==
    ASSUME FInv, NEW t \in Threads, job[t].at = "walk"
    PROVE  Walks(job[t])
BY JobIs, StagesOf DEF Walks

\* A walk that goes on, wherever it takes the working directory.
LEMMA WalkGoesOn ==
    ASSUME FInv, NEW t \in Threads, Disturbs(t), UNCHANGED abandoned, job[t].at = "walk",
           DOMAIN job' = Threads, \A s \in Threads \ {t} : job'[s] = job[s],
           DOMAIN job'[t] = Fields, job'[t].at = "walk", job'[t].request = job[t].request,
           job'[t].home = job[t].home, job'[t].made = job[t].made
    PROVE  FInv'
<1>1. JobOK(job'[t])
  BY JobIs DEF JobOK
<1>2. Walks(job[t])
  BY WalkersWalk
<1>3. ~abandoned' => job'[t].home = <<>>
  BY DEF FInv, AtHome
<1> QED BY <1>1, <1>2, <1>3, StepOK

LEMMA DescendStep ==
    ASSUME FInv, NEW t \in Threads, Disturbs(t), job[t].at = "walk", NEW e, Descend(t, e)
    PROVE  FInv'
<1>1. DOMAIN job = Threads /\ DOMAIN job[t] = Fields
  BY JobIs DEF FInv
<1>2. UNCHANGED abandoned
  BY DEF Descend
<1>3. /\ DOMAIN job' = Threads /\ \A s \in Threads \ {t} : job'[s] = job[s]
      /\ DOMAIN job'[t] = Fields /\ job'[t].at = job[t].at /\ job'[t].request = job[t].request
      /\ job'[t].home = job[t].home /\ job'[t].made = job[t].made
  <2>1. CASE \E a, b : job' = [job EXCEPT ![t].todo = a, ![t].directories = b]
    BY <1>1, <2>1, Zenon DEF Fields
  <2>2. CASE \E a : job' = [job EXCEPT ![t].todo = a]
    BY <1>1, <2>2, Zenon DEF Fields
  <2> QED BY <2>1, <2>2, Zenon DEF Descend
<1> QED BY <1>2, <1>3, WalkGoesOn

LEMMA EraseStep ==
    ASSUME FInv, NEW t \in Threads, Disturbs(t), job[t].at = "walk", NEW e, Erase(t, e)
    PROVE  FInv'
<1>1. DOMAIN job = Threads /\ DOMAIN job[t] = Fields
  BY JobIs DEF FInv
<1>2. CASE /\ UNCHANGED abandoned
           /\ \E a : job' = [job EXCEPT ![t].todo = a]
  <2>1. /\ DOMAIN job' = Threads /\ \A s \in Threads \ {t} : job'[s] = job[s]
        /\ DOMAIN job'[t] = Fields /\ job'[t].at = job[t].at /\ job'[t].request = job[t].request
        /\ job'[t].home = job[t].home /\ job'[t].made = job[t].made
    BY <1>1, <1>2, Zenon DEF Fields
  <2> QED BY <1>2, <2>1, WalkGoesOn
<1>3. CASE abandoned' /\ Return(t, FALSE)
  <2>1. JobOK(job'[t]) /\ job'[t].at = "returned" /\ ~Walks(job'[t])
    BY <1>3, ReturnIs DEF Walks
  <2> QED BY <1>3, <2>1, ReturnIs, StepOK
<1>4. \/ UNCHANGED abandoned /\ \E a : job' = [job EXCEPT ![t].todo = a]
      \/ abandoned' /\ Return(t, FALSE)
  BY Zenon DEF Erase
<1> QED BY <1>2, <1>3, <1>4

LEMMA ListStep ==
    ASSUME FInv, NEW t \in Threads, Disturbs(t), job[t].at = "walk", NEW e, List(t, e)
    PROVE  FInv'
<1>1. DOMAIN job = Threads /\ DOMAIN job[t] = Fields
  BY JobIs DEF FInv
<1>2. UNCHANGED abandoned
  BY DEF List
<1>3. \E a, b, c : job' = [job EXCEPT ![t].todo = a, ![t].directories = b, ![t].files = c]
  BY Zenon DEF List, Listed
<1>4. /\ DOMAIN job' = Threads /\ \A s \in Threads \ {t} : job'[s] = job[s]
      /\ DOMAIN job'[t] = Fields /\ job'[t].at = job[t].at /\ job'[t].request = job[t].request
      /\ job'[t].home = job[t].home /\ job'[t].made = job[t].made
  BY SMTT(30), <1>1, <1>3 DEF Fields
<1> QED BY <1>2, <1>4, WalkGoesOn

LEMMA WalkStep ==
    ASSUME FInv, NEW t \in Threads, Disturbs(t), Walk(t)
    PROVE  FInv'
BY DescendStep, EraseStep, ListStep DEF Walk

LEMMA EndWalkStep ==
    ASSUME FInv, NEW t \in Threads, Disturbs(t), EndWalk(t)
    PROVE  FInv'
<1>1. job[t].at = "walk" /\ UNCHANGED abandoned /\ Return(t, TRUE) /\ cwd' = job[t].home
  BY DEF EndWalk, Keeps
<1>2. JobOK(job'[t]) /\ job'[t].at = "returned" /\ ~Walks(job'[t])
  BY <1>1, ReturnIs DEF Walks
<1>3. ~abandoned' => cwd' = <<>>
  BY <1>1 DEF FInv, AtHome
<1> QED BY <1>1, <1>2, <1>3, ReturnIs, StepOK

LEMMA CheckListedStep ==
    ASSUME FInv, NEW t \in Threads, Disturbs(t), CheckListed(t)
    PROVE  FInv'
<1>1. job[t].at = "list" /\ UNCHANGED <<cwd, abandoned>>
  BY DEF CheckListed, Same, Keeps
<1>2. \/ Return(t, FALSE)
      \/ \E d : Goto(t, [job[t] EXCEPT !.at = "walk", !.home = cwd, !.todo = d])
  BY Zenon DEF CheckListed
<1>3. CASE Return(t, FALSE)
  BY <1>1, <1>3, QuietReturn
<1>4. ASSUME NEW d, Goto(t, [job[t] EXCEPT !.at = "walk", !.home = cwd, !.todo = d])
      PROVE  FInv'
  <2>1. PICK j : j = [job[t] EXCEPT !.at = "walk", !.home = cwd, !.todo = d]
    OBVIOUS
  <2>2. Goto(t, j)
    BY <1>4, <2>1, Zenon
  <2>3. DOMAIN job[t] = Fields
    BY JobIs
  <2>4. /\ DOMAIN j = Fields /\ j.at = "walk" /\ j.request = job[t].request /\ j.home = cwd
        /\ j.made = job[t].made
    BY <2>1, <2>3, Zenon DEF Fields
  <2>5. job[t].request.op = "list" /\ "walk" \in Stages[job[t].request.op] /\ Walks(job[t])
    BY <1>1, JobIs, StagesOf DEF Walks
  <2>6. JobOK(j)
    BY <1>1, <2>4, <2>5, JobIs DEF JobOK
  <2>7. ~abandoned => cwd = <<>>
    <3>1. \A s \in Threads : job[s].at # "walk"
      BY <1>1, <2>5, WalkersWalk DEF FInv
    <3> QED BY <3>1 DEF FInv, AtHome
  <2>8. /\ DOMAIN job' = Threads /\ job'[t] = j /\ \A s \in Threads \ {t} : job'[s] = job[s]
    BY <2>2, GotoIs
  <2> HIDE <1>4
  <2> QED BY <1>1, <2>4, <2>5, <2>6, <2>7, <2>8, StepOK
<1> QED BY <1>2, <1>3, <1>4, Zenon

LEMMA BeginStep ==
    ASSUME FInv, NEW t \in Threads, Disturbs(t), Begin(t)
    PROVE  FInv'
<1>1. job[t].at = "returned" /\ UNCHANGED <<cwd, abandoned>>
  BY DEF Begin, Same
<1>2. PICK r \in Requests :
          /\ r.op \in {"delete_directory", "list"} =>
                 \A s \in Threads : job[s].at = "returned" \/ job[s].request.op \notin {"delete_directory", "list"}
          /\ \E d : Goto(t, [NoJob EXCEPT !.at = First[r.op], !.request = r, !.home = cwd, !.todo = d])
  BY Zenon DEF Begin
<1>3. PICK d : Goto(t, [NoJob EXCEPT !.at = First[r.op], !.request = r, !.home = cwd, !.todo = d])
  BY <1>2, Zenon
<1>4. PICK j : j = [NoJob EXCEPT !.at = First[r.op], !.request = r, !.home = cwd, !.todo = d]
  OBVIOUS
<1>5. Goto(t, j)
  BY <1>3, <1>4, Zenon
<1>6. DOMAIN NoJob = Fields /\ NoJob.made = 0
  BY NoJobIs DEF NoJob
<1>7. /\ DOMAIN j = Fields /\ j.at = First[r.op] /\ j.request = r /\ j.home = cwd /\ j.made = 0
  BY <1>4, <1>6, Zenon DEF Fields
<1>8. /\ r.op \in DOMAIN First /\ Len(r.path.names) > 0
      /\ First[r.op] \in Stages[r.op] /\ First[r.op] # "returned"
      /\ First[r.op] = "walk" <=> r.op = "delete_directory"
  <2>1. r.op \in DOMAIN First /\ r.path.names \in Seq(Names) \ {<<>>}
    BY RequestsOK DEF Paths
  <2> QED BY <2>1, StagesOf
<1>9. JobOK(j)
  BY <1>7, <1>8 DEF JobOK
<1>10. r.op \in {"delete_directory", "list"} => \A s \in Threads : ~Walks(job[s])
  BY <1>2, Zenon DEF Walks
<1>11. Walks(j) => \A s \in Threads : ~Walks(job[s])
  BY <1>7, <1>10 DEF Walks
<1>12. ~abandoned /\ j.at = "walk" => cwd = <<>>
  <2>1. j.at = "walk" => \A s \in Threads : job[s].at # "walk"
    BY <1>7, <1>8, <1>10, WalkersWalk
  <2> QED BY <2>1 DEF FInv, AtHome
<1>13. /\ DOMAIN job' = Threads /\ job'[t] = j /\ \A s \in Threads \ {t} : job'[s] = job[s]
  BY <1>5, GotoIs
<1>14. ~abandoned /\ (\A s \in Threads : job'[s].at # "walk") => cwd = <<>>
  <2>1. (\A s \in Threads : job'[s].at # "walk") => \A s \in Threads : job[s].at # "walk"
    BY <1>1, <1>13
  <2> QED BY <2>1 DEF FInv, AtHome
<1> HIDE <1>2, <1>3
<1> QED BY <1>1, <1>7, <1>9, <1>11, <1>12, <1>13, <1>14, StepOK

-----------------------------------------------------------------------------
(* What it gives *)

LEMMA StepKeeps ==
    ASSUME FInv, NEW t \in Threads, Begin(t) \/ CloseFile(t) \/ Step(t), Disturbs(t)
    PROVE  FInv'
BY BeginStep, CloseFileStep, CheckPrefixStep, MakeDirectoryStep, CheckTargetStep, OpenStep,
   OpenSourceStep, ReadSourceStep, WriteTargetStep, DeleteFileStep, MoveStep, CheckListedStep,
   WalkStep, EndWalkStep DEF Step

\* The invariant holds in every state, for any number of threads: each call is at
\* a step of its own, only a walk is away from where the program started, and a
\* thread nobody moved knows where it is.
THEOREM FileSystemInvariant == Spec => []FInv
<1>1. ASSUME FInv, [Next]_vars
      PROVE  FInv'
  <2>1. CASE Next
    BY <1>1, <2>1, StepKeeps DEF Next
  <2>2. CASE UNCHANGED vars
    BY <1>1, <2>2 DEF vars, FInv, JobOK, Walks, AtHome, Undisturbed
  <2> QED BY <1>1, <2>1, <2>2
<1> QED BY <1>1, InitOK, PTL DEF Spec

\* delete_directory and list leave the working directory of the process where it
\* was, whatever the other threads do to the tree, if none fails half way.
THEOREM WorkingDirectoryIsKept == Spec => []WorkingDirectoryKept
<1>1. FInv => WorkingDirectoryKept
  BY DEF FInv, AtHome, WorkingDirectoryKept
<1> QED BY <1>1, FileSystemInvariant, PTL

\* A step of one thread leaves the jobs of the others.
LEMMA OthersStay ==
    ASSUME FInv, NEW t \in Threads, Begin(t) \/ CloseFile(t) \/ Step(t), NEW s \in Threads, s # t
    PROVE  job'[s] = job[s]
<1>1. ASSUME NEW j, Goto(t, j) PROVE job'[s] = job[s]
  BY <1>1, GotoIs
<1>2. ASSUME NEW ok, Return(t, ok) PROVE job'[s] = job[s]
  BY <1>2, ReturnIs
<1>3. ASSUME NEW ok, Created(t, ok) PROVE job'[s] = job[s]
  BY <1>1, <1>2, <1>3, Zenon DEF Created
<1>4. ASSUME Advanced(t) PROVE job'[s] = job[s]
  BY <1>1, <1>3, <1>4, Zenon DEF Advanced
<1>5. CASE Begin(t)
  BY <1>1, <1>5, Zenon DEF Begin
<1>6. CASE CloseFile(t)
  BY <1>6 DEF CloseFile
<1>7. CASE CheckPrefix(t)
  BY <1>1, <1>3, <1>4, <1>7, Zenon DEF CheckPrefix
<1>8. CASE MakeDirectory(t)
  BY <1>3, <1>4, <1>8, Zenon DEF MakeDirectory, Refused
<1>9. CASE CheckTarget(t)
  BY <1>1, <1>9, Zenon DEF CheckTarget
<1>10. CASE Open(t)
  BY <1>1, <1>2, <1>10, Zenon DEF Open
<1>11. CASE OpenSource(t) \/ ReadSource(t) \/ WriteTarget(t)
  BY <1>1, <1>2, <1>11, Zenon DEF OpenSource, ReadSource, WriteTarget
<1>12. CASE DeleteFile(t) \/ Move(t) \/ EndWalk(t) \/ CheckListed(t)
  BY <1>1, <1>2, <1>12, Zenon DEF DeleteFile, Move, EndWalk, CheckListed
<1>13. CASE Walk(t)
  <2>1. DOMAIN job = Threads
    BY DEF FInv
  <2>2. PICK e : Descend(t, e) \/ Erase(t, e) \/ List(t, e)
    BY <1>13, Zenon DEF Walk
  <2>3. CASE Descend(t, e)
    BY <2>1, <2>3, Zenon DEF Descend
  <2>4. CASE Erase(t, e)
    BY <1>2, <2>1, <2>4, Zenon DEF Erase
  <2>5. CASE List(t, e)
    BY <2>1, <2>5, Zenon DEF List, Listed
  <2> QED BY <2>2, <2>3, <2>4, <2>5
<1> QED
  BY <1>5, <1>6, <1>7, <1>8, <1>9, <1>10, <1>11, <1>12, <1>13, Zenon DEF Step

\* The path create_directory is at, when it has come to the last name.
LEMMA LastPrefix ==
    ASSUME FInv, NEW t \in Threads, job[t].at \in {"create", "mkdir"}, job[t].request.op = "create",
           job[t].made + 1 >= Len(Wanted(job[t]))
    PROVE  Prefix(job[t]) = At(job[t].request.path)
<1>1. PICK path : path = job[t].request.path
  OBVIOUS
<1>2. PICK made : made = job[t].made
  OBVIOUS
<1>3. path \in Paths /\ path.names \in Seq(Names) /\ made \in Nat /\ made < Len(path.names)
  BY <1>1, <1>2, JobIs
<1>4. Wanted(job[t]) = path.names /\ Target(job[t]) = path
  BY <1>1 DEF Wanted, Target
<1>5. made + 1 = Len(path.names)
  BY <1>2, <1>3, <1>4
<1>6. SubSeq(path.names, 1, made + 1) = path.names
  BY <1>3, <1>5
<1>7. PICK whole : whole = [path EXCEPT !.names = SubSeq(path.names, 1, made + 1)]
  OBVIOUS
<1>8. whole.names = path.names /\ whole.relative = path.relative
  BY <1>3, <1>6, <1>7 DEF Paths
<1>9. Prefix(job[t]) = At(whole)
  BY <1>2, <1>4, <1>7, Zenon DEF Prefix
<1> QED BY <1>1, <1>8, <1>9 DEF At, From

\* create_directory that returns true was told so of the last directory.
LEMMA CreateReturns ==
    ASSUME FInv, NEW t \in Threads, Step(t), Returns(t), job'[t].result,
           job[t].request.op = "create", NEW p, p = At(job[t].request.path)
    PROVE  KindIn(tree', p) = "directory"
<1>1. job[t].at \in {"create", "mkdir"}
  BY JobIs, StagesOf DEF Returns, Stages
<1>2. CheckPrefix(t) \/ MakeDirectory(t)
  BY <1>1, Zenon DEF Step, CheckTarget, Open, OpenSource, ReadSource, WriteTarget, DeleteFile, Move, CheckListed, Walk, EndWalk
<1>3. ASSUME Advanced(t)
      PROVE  job[t].made + 1 >= Len(Wanted(job[t]))
  <2>1. SUFFICES ASSUME ~(job[t].made + 1 >= Len(Wanted(job[t]))) PROVE FALSE
    OBVIOUS
  <2>2. PICK j : j = [job[t] EXCEPT !.at = "create", !.made = @ + 1]
    OBVIOUS
  <2>3. Goto(t, j)
    BY <1>3, <2>1, <2>2, Zenon DEF Advanced
  <2>4. DOMAIN job[t] = Fields
    BY JobIs
  <2>5. j.at = "create"
    BY <2>2, <2>4, Zenon DEF Fields
  <2> QED BY <2>3, <2>5, GotoIs DEF Returns
<1>4. ~Created(t, FALSE)
  BY ReturnIs DEF Created
<1>5. ASSUME Advanced(t)
      PROVE  p = Prefix(job[t])
  BY <1>1, <1>3, <1>5, LastPrefix
<1>6. CASE CheckPrefix(t)
  <2>1. Wanted(job[t]) # <<>>
    BY JobIs DEF Wanted, Target, Returns
  <2>2. ASSUME Goto(t, [job[t] EXCEPT !.at = "mkdir"])
        PROVE  FALSE
    <3>1. PICK j : j = [job[t] EXCEPT !.at = "mkdir"]
      OBVIOUS
    <3>2. Goto(t, j)
      BY <2>2, <3>1, Zenon
    <3>3. DOMAIN job[t] = Fields
      BY JobIs
    <3>4. j.at = "mkdir"
      BY <3>1, <3>3, Zenon DEF Fields
    <3> QED BY <3>2, <3>4, GotoIs DEF Returns
  <2>3. Directory(Prefix(job[t])) /\ Advanced(t) /\ tree' = tree
    BY <1>6, <2>1, <2>2, Zenon DEF CheckPrefix, Same
  <2> QED BY <1>5, <2>3 DEF Directory, Kind
<1>7. CASE MakeDirectory(t)
  <2>1. tree' = Made(Prefix(job[t]), Entry("directory", 0)) /\ Advanced(t)
    BY <1>4, <1>7, Zenon DEF MakeDirectory, Refused
  <2>2. tree' = Made(p, Entry("directory", 0))
    BY <1>5, <2>1
  <2> QED BY <2>2 DEF Made, KindIn, Entry
<1> QED BY <1>2, <1>6, <1>7

\* open_file that returns true has just made the file.
LEMMA OpenReturns ==
    ASSUME FInv, NEW t \in Threads, Step(t), Returns(t), job'[t].result,
           job[t].request.op = "open", NEW p, p = At(job[t].request.path)
    PROVE  KindIn(tree', p) = "file"
<1>1. job[t].at \in {"check", "create", "mkdir", "open"}
  BY JobIs, StagesOf DEF Returns, Stages
<1>2. CheckTarget(t) \/ CheckPrefix(t) \/ MakeDirectory(t) \/ Open(t)
  BY <1>1, Zenon DEF Step, OpenSource, ReadSource, WriteTarget, DeleteFile, Move, CheckListed, Walk, EndWalk
<1>3. ASSUME NEW j, Goto(t, j), j.at # "returned"
      PROVE  FALSE
  BY <1>3, GotoIs DEF Returns
<1>4. DOMAIN job[t] = Fields
  BY JobIs
<1>5. ASSUME NEW a, a # "returned", Goto(t, [job[t] EXCEPT !.at = a])
      PROVE  FALSE
  <2>1. PICK j : j = [job[t] EXCEPT !.at = a]
    OBVIOUS
  <2>2. Goto(t, j) /\ j.at = a
    BY <1>4, <1>5, <2>1, Zenon DEF Fields
  <2> QED BY <1>3, <1>5, <2>2
<1>6. ASSUME NEW a, a # "returned", NEW n, Goto(t, [job[t] EXCEPT !.at = a, !.made = n])
      PROVE  FALSE
  <2>1. PICK j : j = [job[t] EXCEPT !.at = a, !.made = n]
    OBVIOUS
  <2>2. Goto(t, j) /\ j.at = a
    BY <1>4, <1>6, <2>1, Zenon DEF Fields
  <2> HIDE <1>6
  <2> QED BY <1>3, <2>2, <1>6, Zenon
<1>7. ASSUME NEW ok, Created(t, ok) PROVE FALSE
  <2>1. Goto(t, [job[t] EXCEPT !.at = "open", !.made = 0])
    BY <1>7, Zenon DEF Created
  <2>2. "open" # "returned"
    OBVIOUS
  <2> QED BY <1>6, <2>1, <2>2, Zenon
<1>8. ASSUME Advanced(t) PROVE FALSE
  <2>1. \E n : Goto(t, [job[t] EXCEPT !.at = "create", !.made = n])
    BY <1>7, <1>8, Zenon DEF Advanced
  <2>2. "create" # "returned"
    OBVIOUS
  <2> QED BY <1>6, <2>1, <2>2, Zenon
<1>9. ~CheckTarget(t)
  <2>1. CheckTarget(t) => \E a \in {"open", "create"} : Goto(t, [job[t] EXCEPT !.at = a])
    BY Zenon DEF CheckTarget
  <2>2. \A a \in {"open", "create"} : a # "returned"
    OBVIOUS
  <2> QED BY <1>5, <2>1, <2>2, Zenon
<1>10. ~CheckPrefix(t)
  <2>1. CheckPrefix(t) => \/ \E ok : Created(t, ok)
                          \/ Advanced(t)
                          \/ Goto(t, [job[t] EXCEPT !.at = "mkdir"])
    BY Zenon DEF CheckPrefix
  <2>2. "mkdir" # "returned"
    OBVIOUS
  <2> QED BY <1>5, <1>7, <1>8, <2>1, <2>2, Zenon
<1>11. ~MakeDirectory(t)
  BY <1>7, <1>8, Zenon DEF MakeDirectory, Refused
<1>12. Open(t)
  BY <1>2, <1>9, <1>10, <1>11
<1>13. Target(job[t]) = job[t].request.path
  BY DEF Target
<1>14. ~Return(t, FALSE)
  BY ReturnIs
<1>15. tree' = Made(p, Entry("file", Number(p)))
  BY <1>12, <1>13, <1>14, Zenon DEF Open
<1> QED BY <1>15 DEF Made, KindIn, Entry

\* What create_directory and open_file say is there is there, however many
\* threads make and remove the same directories, unless one moved the working
\* directory meanwhile.
THEOREM CreatedThingsExist == Spec => CreatedExists
<1>1. ASSUME FInv, [Next]_vars, NEW t \in Threads, Returns(t), job'[t].result,
             "moved" \notin disturbed[t], NEW p,
             p = From(job[t].home, job[t].request.path)
      PROVE  /\ job[t].request.op = "create" => KindIn(tree', p) = "directory"
             /\ job[t].request.op = "open" => KindIn(tree', p) = "file"
  <2>1. job'[t] # job[t]
    BY <1>1 DEF Returns
  <2>2. Begin(t) \/ CloseFile(t) \/ Step(t)
    BY <1>1, <2>1, OthersStay DEF Next, vars
  <2>3. Step(t)
    BY <1>1, <2>2 DEF Returns, Begin, CloseFile
  <2>4. ASSUME job[t].request.op \in {"create", "open"}
        PROVE  p = At(job[t].request.path)
    <3>1. job[t].at \notin {"returned", "walk"}
      BY <1>1, <2>4, JobIs, StagesOf DEF Returns
    <3>2. job[t].home = cwd
      BY <1>1, <3>1 DEF FInv, Undisturbed
    <3> QED BY <1>1, <3>2 DEF At
  <2> QED BY <1>1, <2>3, <2>4, CreateReturns, OpenReturns
<1>2. FInv /\ [Next]_vars => 
         \A t \in Threads :
            LET p == From(job[t].home, job[t].request.path)
            IN  Returns(t) /\ job'[t].result /\ "moved" \notin disturbed[t] =>
                    /\ job[t].request.op = "create" => KindIn(tree', p) = "directory"
                    /\ job[t].request.op = "open" => KindIn(tree', p) = "file"
  BY <1>1, Zenon
<1> QED BY <1>2, FileSystemInvariant, PTL DEF Spec, CreatedExists
-----------------------------------------------------------------------------
(* Paths *)

LEMMA PrefixIs ==
    ASSUME NEW p \in Seq(Names), NEW r \in Seq(Names)
    PROVE  IsPrefix(p, r) <=> Len(p) <= Len(r) /\ \A i \in 1 .. Len(p) : p[i] = r[i]
<1>1. SUFFICES ASSUME Len(p) <= Len(r)
               PROVE  SubSeq(p, 1, Len(p)) = SubSeq(r, 1, Len(p)) <=> \A i \in 1 .. Len(p) : p[i] = r[i]
  BY DEF IsPrefix
<1>2. SubSeq(p, 1, Len(p)) = p
  BY SubSeqFull
<1>3. /\ SubSeq(r, 1, Len(p)) \in Seq(Names) /\ Len(SubSeq(r, 1, Len(p))) = Len(p)
      /\ \A i \in 1 .. Len(p) : SubSeq(r, 1, Len(p))[i] = r[i]
  BY <1>1
<1> QED BY <1>2, <1>3, SeqEqual

LEMMA FrontIs ==
    ASSUME NEW r \in Seq(Names), r # <<>>
    PROVE  /\ Front(r) \in Seq(Names) /\ Len(r) > 0 /\ Len(Front(r)) = Len(r) - 1
           /\ \A i \in 1 .. Len(r) - 1 : Front(r)[i] = r[i]
<1>0. Len(r) \in Nat /\ Len(r) > 0
  BY EmptySeq
<1>1. \A i \in 1 .. Len(r) : r[i] \in Names
  BY ElementOfSeq
<1>2. Front(r) = SubSeq(r, 1, Len(r) - 1)
  BY DEF Front
<1>3. /\ SubSeq(r, 1, Len(r) - 1) \in Seq(Names)
      /\ Len(SubSeq(r, 1, Len(r) - 1)) = IF 1 <= Len(r) - 1 THEN (Len(r) - 1) - 1 + 1 ELSE 0
      /\ \A i \in 1 .. (Len(r) - 1) - 1 + 1 : SubSeq(r, 1, Len(r) - 1)[i] = r[1 + i - 1]
  BY <1>0, <1>1, SubSeqProperties
<1>4. Len(SubSeq(r, 1, Len(r) - 1)) = Len(r) - 1
  <2>1. CASE 1 <= Len(r) - 1
    BY <1>0, <1>3, <2>1
  <2>2. CASE Len(r) = 1
    BY <1>3, <2>2
  <2>3. \A n \in Nat : n > 0 => 1 <= n - 1 \/ n = 1
    OBVIOUS
  <2> QED BY <1>0, <2>1, <2>2, <2>3
<1>5. ASSUME NEW i \in 1 .. Len(r) - 1
      PROVE  SubSeq(r, 1, Len(r) - 1)[i] = r[i]
  <2>1. i \in 1 .. (Len(r) - 1) - 1 + 1 /\ 1 + i - 1 = i
    BY <1>0
  <2> QED BY <1>3, <2>1
<1> QED BY <1>0, <1>2, <1>3, <1>4, <1>5

\* What stands in a directory is below it.
LEMMA FrontAbove ==
    ASSUME NEW r \in Seq(Names), r # <<>>
    PROVE  IsStrictPrefix(Front(r), r)
BY FrontIs, PrefixIs DEF IsStrictPrefix

LEMMA AboveFront ==
    ASSUME NEW p \in Seq(Names), NEW r \in Seq(Names), r # <<>>
    PROVE  IsPrefix(p, Front(r)) <=> IsStrictPrefix(p, r)
<1>1. IsPrefix(p, Front(r)) => IsStrictPrefix(p, r)
  BY SMTT(30), FrontIs, PrefixIs DEF IsStrictPrefix
<1>2. ASSUME IsStrictPrefix(p, r) PROVE IsPrefix(p, Front(r))
  <2>1. Len(p) <= Len(r) /\ \A i \in 1 .. Len(p) : p[i] = r[i]
    BY <1>2, PrefixIs DEF IsStrictPrefix
  <2>2. Len(p) # Len(r)
    BY <1>2, <2>1, SeqEqual DEF IsStrictPrefix
  <2> QED BY <2>1, <2>2, FrontIs, PrefixIs
<1> QED BY <1>1, <1>2

\* Where rename() puts what it moves
LEMMA RebasedIs ==
    ASSUME NEW p \in Seq(Names), NEW q \in Seq(Names), NEW r \in Seq(Names), IsPrefix(p, r)
    PROVE  /\ Rebased(p, q, r) \in Seq(Names)
           /\ Len(Rebased(p, q, r)) = Len(q) + Len(r) - Len(p)
           /\ \A i \in 1 .. Len(q) : Rebased(p, q, r)[i] = q[i]
           /\ \A i \in 1 .. Len(r) - Len(p) : Rebased(p, q, r)[Len(q) + i] = r[Len(p) + i]
<1> DEFINE u == SubSeq(r, Len(p) + 1, Len(r))
<1>1. Len(p) \in Nat /\ Len(q) \in Nat /\ Len(r) \in Nat /\ Len(p) <= Len(r)
  BY PrefixIs
<1>2. u \in Seq(Names) /\ Len(u) = Len(r) - Len(p) /\ \A i \in 1 .. Len(r) - Len(p) : u[i] = r[Len(p) + i]
  BY <1>1
<1>3. Rebased(p, q, r) = q \o u
  BY DEF Rebased
<1> HIDE DEF u
<1>4. /\ q \o u \in Seq(Names) /\ Len(q \o u) = Len(q) + Len(u)
      /\ \A i \in 1 .. Len(q) + Len(u) : (q \o u)[i] = IF i <= Len(q) THEN q[i] ELSE u[i - Len(q)]
  BY <1>2, ConcatProperties
<1> QED BY <1>1, <1>2, <1>3, <1>4

LEMMA RebasedSelf ==
    ASSUME NEW p \in Seq(Names), NEW q \in Seq(Names)
    PROVE  IsPrefix(p, p) /\ Rebased(p, q, p) = q
<1>1. Len(p) \in Nat /\ Len(q) \in Nat /\ IsPrefix(p, p)
  BY PrefixIs
<1>2. /\ Rebased(p, q, p) \in Seq(Names) /\ Len(Rebased(p, q, p)) = Len(q) + Len(p) - Len(p)
      /\ \A i \in 1 .. Len(q) : Rebased(p, q, p)[i] = q[i]
  BY <1>1, RebasedIs
<1>3. Len(Rebased(p, q, p)) = Len(q)
  BY <1>1, <1>2
<1> QED BY <1>1, <1>2, <1>3, SeqEqual

LEMMA RebasedFront ==
    ASSUME NEW p \in Seq(Names), NEW q \in Seq(Names), NEW r \in Seq(Names), r # <<>>, IsPrefix(p, Front(r))
    PROVE  Front(Rebased(p, q, r)) = Rebased(p, q, Front(r))
<1> DEFINE s == Rebased(p, q, r)
           d == Rebased(p, q, Front(r))
<1>1. /\ Front(r) \in Seq(Names) /\ Len(r) > 0 /\ Len(Front(r)) = Len(r) - 1
      /\ \A i \in 1 .. Len(r) - 1 : Front(r)[i] = r[i]
  BY FrontIs
<1>2. Len(p) \in Nat /\ Len(q) \in Nat /\ Len(r) \in Nat /\ Len(p) <= Len(r) - 1 /\ IsPrefix(p, r)
  BY <1>1, PrefixIs, AboveFront DEF IsStrictPrefix
<1>3. /\ s \in Seq(Names) /\ Len(s) = Len(q) + Len(r) - Len(p)
      /\ \A i \in 1 .. Len(q) : s[i] = q[i]
      /\ \A i \in 1 .. Len(r) - Len(p) : s[Len(q) + i] = r[Len(p) + i]
  BY <1>2, RebasedIs
<1>4. /\ d \in Seq(Names) /\ Len(d) = Len(q) + Len(Front(r)) - Len(p)
      /\ \A i \in 1 .. Len(q) : d[i] = q[i]
      /\ \A i \in 1 .. Len(Front(r)) - Len(p) : d[Len(q) + i] = Front(r)[Len(p) + i]
  <2>1. PICK f : f = Front(r)
    OBVIOUS
  <2>2. f \in Seq(Names) /\ IsPrefix(p, f)
    BY <1>1, <2>1
  <2>3. /\ Rebased(p, q, f) \in Seq(Names) /\ Len(Rebased(p, q, f)) = Len(q) + Len(f) - Len(p)
        /\ \A i \in 1 .. Len(q) : Rebased(p, q, f)[i] = q[i]
        /\ \A i \in 1 .. Len(f) - Len(p) : Rebased(p, q, f)[Len(q) + i] = f[Len(p) + i]
    BY ZenonT(60), <2>2, RebasedIs
  <2> QED BY <2>1, <2>3
<1> HIDE DEF s, d
<1>5. s # <<>>
  BY <1>2, <1>3, EmptySeq
<1>6. /\ Front(s) \in Seq(Names) /\ Len(Front(s)) = Len(s) - 1
      /\ \A i \in 1 .. Len(s) - 1 : Front(s)[i] = s[i]
  BY <1>3, <1>5, FrontIs
<1>7. Len(d) = Len(s) - 1
  BY <1>1, <1>2, <1>3, <1>4
<1>8. ASSUME NEW i \in 1 .. Len(s) - 1
      PROVE  s[i] = d[i]
  <2>1. CASE i <= Len(q)
    BY <1>2, <1>3, <1>4, <2>1
  <2>2. CASE ~(i <= Len(q))
    <3>1. PICK k : k = i - Len(q)
      OBVIOUS
    <3>2. /\ k \in 1 .. Len(r) - 1 - Len(p) /\ k \in 1 .. Len(r) - Len(p)
          /\ i = Len(q) + k /\ Len(p) + k \in 1 .. Len(r) - 1
      BY <1>2, <1>3, <1>8, <2>2, <3>1
    <3>3. s[Len(q) + k] = r[Len(p) + k]
      BY <1>3, <3>2
    <3>4. d[Len(q) + k] = Front(r)[Len(p) + k]
      BY <1>1, <1>2, <1>4, <3>2
    <3> QED BY <1>1, <3>2, <3>3, <3>4
  <2> QED BY <2>1, <2>2
<1>9. Front(s) = d
  BY <1>4, <1>6, <1>7, <1>8, SeqEqual
<1> QED BY <1>9 DEF s, d

\* rename() puts no two things in one place.
LEMMA RebasedApart ==
    ASSUME NEW p \in Seq(Names), NEW q \in Seq(Names), NEW r \in Seq(Names), NEW s \in Seq(Names),
           IsPrefix(p, r) \/ ~IsPrefix(q, r), IsPrefix(p, s) \/ ~IsPrefix(q, s),
           Rebased(p, q, r) = Rebased(p, q, s)
    PROVE  r = s
<1>1. ASSUME NEW a \in Seq(Names), IsPrefix(p, a)
      PROVE  Rebased(p, q, a) \in Seq(Names) /\ IsPrefix(q, Rebased(p, q, a))
  <2>1. Len(p) \in Nat /\ Len(q) \in Nat /\ Len(a) \in Nat /\ Len(p) <= Len(a)
    BY <1>1, PrefixIs
  <2>2. /\ Rebased(p, q, a) \in Seq(Names) /\ Len(Rebased(p, q, a)) = Len(q) + Len(a) - Len(p)
        /\ \A i \in 1 .. Len(q) : Rebased(p, q, a)[i] = q[i]
    BY <1>1, RebasedIs
  <2>3. Len(q) <= Len(Rebased(p, q, a))
    BY <2>1, <2>2
  <2> QED BY <2>2, <2>3, PrefixIs
<1>2. \A a : ~IsPrefix(p, a) => Rebased(p, q, a) = a
  BY DEF Rebased
<1>3. CASE IsPrefix(p, r) /\ IsPrefix(p, s)
  <2>1. Len(p) \in Nat /\ Len(q) \in Nat /\ Len(r) \in Nat /\ Len(s) \in Nat
    OBVIOUS
  <2>2. /\ Len(p) <= Len(r) /\ \A i \in 1 .. Len(p) : p[i] = r[i]
        /\ Len(p) <= Len(s) /\ \A i \in 1 .. Len(p) : p[i] = s[i]
    BY <1>3, PrefixIs
  <2>3. /\ Len(Rebased(p, q, r)) = Len(q) + Len(r) - Len(p)
        /\ \A i \in 1 .. Len(r) - Len(p) : Rebased(p, q, r)[Len(q) + i] = r[Len(p) + i]
    BY <1>3, RebasedIs
  <2>4. /\ Len(Rebased(p, q, s)) = Len(q) + Len(s) - Len(p)
        /\ \A i \in 1 .. Len(s) - Len(p) : Rebased(p, q, s)[Len(q) + i] = s[Len(p) + i]
    BY <1>3, RebasedIs
  <2>5. Len(r) = Len(s)
    BY <2>1, <2>3, <2>4
  <2>6. ASSUME NEW i \in 1 .. Len(r), ~(i <= Len(p))
        PROVE  r[i] = s[i]
    <3>1. i - Len(p) \in 1 .. Len(r) - Len(p) /\ Len(p) + (i - Len(p)) = i
      BY <2>1, <2>6
    <3> QED BY <2>3, <2>4, <2>5, <3>1
  <2>7. \A i \in 1 .. Len(r) : r[i] = s[i]
    BY <2>1, <2>2, <2>6
  <2> QED BY <2>5, <2>7, SeqEqual
<1> QED BY <1>1, <1>2, <1>3

-----------------------------------------------------------------------------
(* The tree after a call of the system *)

\* What stands in no directory is the root or is not there.
LEMMA RootedIs ==
    ASSUME NEW f, NEW n, Rooted(f, n), NEW p \in DOMAIN f
    PROVE  /\ p \in Seq(Names) /\ <<>> \in DOMAIN f /\ f[<<>>].kind = "directory"
           /\ p # <<>> => Front(p) \in DOMAIN f /\ f[Front(p)].kind = "directory"
           /\ f[p].kind \in {"directory", "fifo", "file", "link"}
           /\ f[p].file \in IF f[p].kind = "file" THEN 1 .. n ELSE {0}
BY DEF Rooted, KindIn, Info

LEMMA MadeOK ==
    ASSUME NEW n \in Nat, NEW m \in Nat, n <= m, Rooted(tree, n),
           NEW p \in Seq(Names), CanHold(p), Kind(p) \in {"none", "file"},
           NEW kind, NEW file, <<kind, file>> \in ({"directory"} \X {0}) \cup ({"file"} \X (1 .. m))
    PROVE  Rooted(Made(p, Entry(kind, file)), m)
<1> DEFINE f == Made(p, Entry(kind, file))
<1>1. DOMAIN f = DOMAIN tree \cup {p} /\ \A r \in DOMAIN tree \ {p} : f[r] = tree[r]
  BY DEF Made
<1>2. f[p].kind = kind /\ f[p].file = file
  BY DEF Made, Entry
<1>3. p # <<>> /\ Front(p) \in DOMAIN tree /\ tree[Front(p)].kind = "directory"
  BY DEF CanHold, Kind, KindIn
<1>4. Front(p) # p
  BY <1>3, FrontAbove DEF IsStrictPrefix
<1>5. <<>> \in DOMAIN f /\ f[<<>>].kind = "directory"
  BY <1>1, <1>3, RootedIs
<1> HIDE DEF f
<1>6. ASSUME NEW r \in DOMAIN tree, r # p, r # <<>>
      PROVE  Front(r) \in DOMAIN f /\ f[Front(r)].kind = "directory"
  <2>1. Front(r) \in DOMAIN tree /\ tree[Front(r)].kind = "directory"
    BY <1>6, RootedIs
  <2>2. Front(r) # p
    BY <2>1 DEF Kind, KindIn
  <2> QED BY <1>1, <2>1, <2>2
<1>7. Front(p) \in DOMAIN f /\ f[Front(p)].kind = "directory"
  BY <1>1, <1>3, <1>4
<1>8. \A r \in DOMAIN f : r = <<>> \/ KindIn(f, Front(r)) = "directory"
  BY <1>1, <1>6, <1>7 DEF KindIn
<1>9. IsFiniteSet(DOMAIN f) /\ \A r \in DOMAIN f : r \in Seq(Names)
  <2>1. IsFiniteSet(DOMAIN tree) /\ \A r \in DOMAIN tree : r \in Seq(Names)
    BY DEF Rooted
  <2>2. IsFiniteSet(DOMAIN tree \cup {p})
    BY <2>1, FS_AddElement
  <2> QED BY <1>1, <2>1, <2>2
<1>10. ASSUME NEW r \in DOMAIN f
       PROVE  /\ f[r].kind \in {"directory", "fifo", "file", "link"}
              /\ f[r].file \in IF f[r].kind = "file" THEN 1 .. m ELSE {0}
  <2>1. CASE r = p
    BY <1>2, <2>1
  <2>2. CASE r # p
    <3>1. r \in DOMAIN tree /\ f[r] = tree[r]
      BY <1>1, <2>2
    <3> QED BY <3>1, RootedIs
  <2> QED BY <2>1, <2>2
<1>11. DOMAIN Info \ {"none"} = {"directory", "fifo", "file", "link"}
  BY DEF Info
<1>12. KindIn(f, <<>>) = "directory"
  BY <1>5 DEF KindIn
<1>13. Rooted(f, m)
  BY <1>8, <1>9, <1>10, <1>11, <1>12, Zenon DEF Rooted
<1> QED BY <1>13 DEF f

LEMMA RemovedOK ==
    ASSUME NEW n, Rooted(tree, n), NEW p \in Seq(Names), Unlink(p)
    PROVE  Rooted(Removed(p), n)
<1> DEFINE f == Removed(p)
<1>1. DOMAIN f = DOMAIN tree \ {p} /\ \A r \in DOMAIN f : f[r] = tree[r]
  BY DEF Removed
<1> HIDE DEF f
<1>2. <<>> \in DOMAIN tree /\ tree[<<>>].kind = "directory"
  BY DEF Rooted, KindIn
<1>3. p # <<>>
  BY <1>2 DEF Unlink, Rmdir, Kind, KindIn
<1>4. ASSUME NEW r \in DOMAIN tree, r # <<>>
      PROVE  Front(r) # p
  <2>1. SUFFICES ASSUME Front(r) = p PROVE FALSE
    OBVIOUS
  <2>2. tree[p].kind = "directory" /\ p \in DOMAIN tree
    BY <1>4, <2>1, RootedIs
  <2>3. r \in Below(tree, p)
    BY <1>4, <2>1, RootedIs, FrontAbove DEF Below
  <2> QED BY <2>2, <2>3 DEF Unlink, Rmdir, Kind, KindIn
<1>5. \A r \in DOMAIN f : r = <<>> \/ KindIn(f, Front(r)) = "directory"
  BY <1>1, <1>4, RootedIs DEF KindIn
<1>6. IsFiniteSet(DOMAIN f) /\ \A r \in DOMAIN f : r \in Seq(Names)
  <2>1. IsFiniteSet(DOMAIN tree) /\ \A r \in DOMAIN tree : r \in Seq(Names)
    BY DEF Rooted
  <2>2. IsFiniteSet(DOMAIN tree \ {p})
    BY <2>1, FS_RemoveElement
  <2> QED BY <1>1, <2>1, <2>2
<1>7. KindIn(f, <<>>) = "directory"
  BY <1>1, <1>2, <1>3 DEF KindIn
<1>8. Rooted(f, n)
  BY <1>1, <1>5, <1>6, <1>7 DEF Rooted
<1> QED BY <1>8 DEF f

LEMMA RenamedOK ==
    ASSUME NEW n, Rooted(tree, n), NEW p \in Seq(Names), NEW q \in Seq(Names), Renames(p, q)
    PROVE  Rooted(Renamed(p, q), n)
<1> DEFINE kept == {r \in DOMAIN tree : IsPrefix(p, r)} \cup {r \in DOMAIN tree : ~IsPrefix(q, r)}
           f == Renamed(p, q)
<1>0. \A r \in kept : r \in Seq(Names) /\ r \in DOMAIN tree
  BY RootedIs
<1>1. DOMAIN f = {Rebased(p, q, r) : r \in kept}
  BY DEF Renamed
<1>2. ASSUME NEW r \in kept
      PROVE  f[Rebased(p, q, r)] = tree[r]
  <2> DEFINE s == Rebased(p, q, r)
             c == CHOOSE a \in kept : Rebased(p, q, a) = s
  <2>1. c \in kept /\ Rebased(p, q, c) = s
    OBVIOUS
  <2>2. c = r
    BY <1>0, <2>1, RebasedApart
  <2>3. s \in DOMAIN f
    BY <1>1
  <2>4. f[s] = tree[c]
    BY <1>1, <2>3 DEF Renamed
  <2> QED BY <2>2, <2>4
<1>3. \A r \in kept : IsPrefix(p, r) \/ ~IsPrefix(q, r)
  OBVIOUS
<1>4. \A r : ~IsPrefix(p, r) => Rebased(p, q, r) = r
  BY DEF Rebased
<1>5. /\ p # <<>> /\ q # <<>> /\ ~IsStrictPrefix(p, q)
      /\ Front(q) \in DOMAIN tree /\ tree[Front(q)].kind = "directory"
  BY DEF Renames, CanHold, Kind, KindIn
<1>6. <<>> \in DOMAIN tree /\ tree[<<>>].kind = "directory"
  BY DEF Rooted, KindIn
<1>7. \A r \in DOMAIN tree : ~IsPrefix(p, r) /\ ~IsPrefix(q, r) => r \in DOMAIN f /\ f[r] = tree[r]
  BY <1>1, <1>2, <1>4
<1>8. \A r \in DOMAIN tree : IsPrefix(p, r) => Rebased(p, q, r) \in DOMAIN f /\ f[Rebased(p, q, r)] = tree[r]
  BY <1>1, <1>2
<1> HIDE DEF f
<1>9. KindIn(f, <<>>) = "directory"
  <2>1. \A a \in Seq(Names) : a # <<>> => ~IsPrefix(a, <<>>)
    BY EmptySeq DEF IsPrefix
  <2> QED BY <1>5, <1>6, <1>7, <2>1 DEF KindIn
<1>10. ASSUME NEW r \in kept, Rebased(p, q, r) # <<>>
       PROVE  KindIn(f, Front(Rebased(p, q, r))) = "directory"
  <2>1. CASE r = p
    <3>1. Rebased(p, q, r) = q
      BY <2>1, RebasedSelf
    <3>2. ~IsPrefix(p, Front(q)) /\ ~IsPrefix(q, Front(q))
      BY <1>5, AboveFront DEF IsStrictPrefix
    <3> QED BY <1>5, <1>7, <3>1, <3>2 DEF KindIn
  <2>2. CASE IsPrefix(p, r) /\ r # p
    <3>1. r \in Seq(Names) /\ r # <<>> /\ IsPrefix(p, Front(r))
      BY <1>0, <1>5, <2>2, AboveFront, PrefixIs DEF IsStrictPrefix
    <3>2. Front(r) \in DOMAIN tree /\ tree[Front(r)].kind = "directory"
      BY <1>0, <3>1, RootedIs
    <3>3. Front(Rebased(p, q, r)) = Rebased(p, q, Front(r))
      BY <3>1, RebasedFront
    <3> QED BY <1>8, <3>1, <3>2, <3>3 DEF KindIn
  <2>3. CASE ~IsPrefix(p, r)
    <3>1. Rebased(p, q, r) = r /\ ~IsPrefix(q, r) /\ r # <<>> /\ r \in DOMAIN tree /\ r \in Seq(Names)
      BY <1>0, <1>3, <1>4, <1>10, <2>3
    <3>2. Front(r) \in DOMAIN tree /\ tree[Front(r)].kind = "directory"
      BY <3>1, RootedIs
    <3>3. ~IsPrefix(p, Front(r)) /\ ~IsPrefix(q, Front(r))
      BY <2>3, <3>1, AboveFront DEF IsStrictPrefix
    <3> QED BY <1>7, <3>1, <3>2, <3>3 DEF KindIn
  <2> QED BY <2>1, <2>2, <2>3
<1>11. \A s \in DOMAIN f : s = <<>> \/ KindIn(f, Front(s)) = "directory"
  BY <1>1, <1>10
<1>12. \A s \in DOMAIN f : s \in Seq(Names)
  BY <1>0, <1>1, <1>4, RebasedIs
<1>13. IsFiniteSet(DOMAIN f)
  <2> DEFINE g == [r \in kept |-> Rebased(p, q, r)]
  <2>1. IsFiniteSet(kept)
    <3>1. kept \in SUBSET DOMAIN tree /\ IsFiniteSet(DOMAIN tree)
      BY DEF Rooted
    <3> QED BY <3>1, FS_Subset
  <2>2. g \in Surjection(kept, DOMAIN f)
    BY <1>1 DEF Surjection
  <2> QED BY <2>1, <2>2, FS_Surjection
<1>14. ASSUME NEW s \in DOMAIN f
       PROVE  \E r \in DOMAIN tree : f[s] = tree[r]
  BY <1>0, <1>1, <1>2
<1>15. Rooted(f, n)
  BY <1>9, <1>11, <1>12, <1>13, <1>14 DEF Rooted
<1> QED BY <1>15 DEF f

-----------------------------------------------------------------------------
(* What the tree, the calls and the descriptors can be *)

Infos == {Info[kind] : kind \in DOMAIN Info} \cup {FTS_DNR, FTS_DP}
Visits == [under : Seq(Names), info : Infos]
Texts == {Contents[i] : i \in DOMAIN Contents} \cup {"none", "empty", "part"}

\* What a call carries is from the tree and the contents, and it makes no
\* directory beyond the last name.
JobTyped(j, files) ==
    /\ j.file \in 0 .. files /\ j.contents \in Texts
    /\ j.home \in Seq(Names) /\ j.todo \in Seq(Visits)
    /\ j.at # "returned" /\ (j.made # 0 \/ j.at = "mkdir") => j.made < Len(Wanted(j))

TreeTyped == Rooted(tree, Len(data)) /\ data \in Seq(Texts)
OpenTyped == descriptors \in 0 .. MaxOpen /\ held \in 0 .. descriptors
DisturbedTyped == \A t \in Threads : disturbed[t] \subseteq {"made", "removed", "written", "moved"}

\* The inductive invariant of the types.
TInv ==
    /\ TreeTyped /\ cwd \in Seq(Names) /\ OpenTyped
    /\ \A t \in Threads : JobTyped(job[t], Len(data))
    /\ DisturbedTyped

LEMMA InfosAre == Infos = {1, 3, 4, 6, 8, 10, 12}
BY DEF Infos, Info, FTS_D, FTS_DNR, FTS_DP, FTS_F

LEMMA NoJobTyped ==
    ASSUME NEW n \in Nat
    PROVE  JobTyped(NoJob, n)
<1>1. NoJob.file = 0 /\ NoJob.contents = "none" /\ NoJob.home = <<>> /\ NoJob.todo = <<>>
  BY DEF NoJob
<1>2. <<>> \in Seq(Names) /\ <<>> \in Seq(Visits)
  BY EmptySeq, Zenon
<1>3. 0 \in 0 .. n
  OBVIOUS
<1>4. "none" \in Texts
  BY DEF Texts
<1> QED BY <1>1, <1>2, <1>3, <1>4, NoJobIs, Zenon DEF JobTyped

LEMMA InitTyped == Init => TInv
<1> SUFFICES ASSUME Init PROVE TInv
  OBVIOUS
<1>1. TreeTyped
  <2>1. Contents \in [1 .. Len(Contents) -> Texts] /\ Len(Contents) \in Nat
    BY ContentsOK, LenProperties DEF Texts
  <2>2. Contents \in Seq(Texts)
    BY <2>1, SeqDef
  <2> QED BY <2>2, TreesOK DEF Init, TreeTyped
<1>2. OpenTyped
  BY MaxOpenOK DEF Init, OpenTyped
<1>3. cwd \in Seq(Names) /\ DisturbedTyped
  BY EmptySeq DEF Init, DisturbedTyped
<1>4. \A t \in Threads : job[t] = NoJob
  BY DEF Init
<1>5. Len(data) \in Nat
  BY <1>1 DEF TreeTyped
<1> QED BY <1>1, <1>2, <1>3, <1>4, <1>5, NoJobTyped DEF TInv

\* Where a path leads
LEMMA FromTyped ==
    ASSUME NEW base \in Seq(Names), NEW path \in Paths
    PROVE  From(base, path) \in Seq(Names)
<1>1. path.names \in Seq(Names) /\ <<>> \in Seq(Names)
  BY EmptySeq DEF Paths
<1> QED BY <1>1, ConcatProperties DEF From

LEMMA DisturbedKept ==
    ASSUME TInv, NEW t \in Threads, Disturbs(t)
    PROVE  DisturbedTyped'
<1>1. Changes \subseteq {"made", "removed", "written", "moved"}
  BY DEF Changes
<1> QED BY <1>1 DEF TInv, DisturbedTyped, Disturbs

\* When the step of a thread keeps the types.
LEMMA StepTyped ==
    ASSUME FInv, TInv, NEW t \in Threads, Disturbs(t),
           DOMAIN job' = Threads, \A s \in Threads \ {t} : job'[s] = job[s],
           TreeTyped', cwd' \in Seq(Names), OpenTyped', Len(data) <= Len(data'),
           JobTyped(job'[t], Len(data'))
    PROVE  TInv'
<1>1. Len(data) \in Nat /\ Len(data') \in Nat
  BY DEF TInv, TreeTyped
<1>2. ASSUME NEW s \in Threads PROVE JobTyped(job'[s], Len(data'))
  <2>1. CASE s = t
    BY <2>1
  <2>2. CASE s # t
    <3>1. JobTyped(job[s], Len(data)) /\ job'[s] = job[s]
      BY <2>2 DEF TInv
    <3>2. 0 .. Len(data) \subseteq 0 .. Len(data')
      BY <1>1
    <3> QED BY <3>1, <3>2, Zenon DEF JobTyped
  <2> QED BY <2>1, <2>2
<1>3. \A s \in Threads : JobTyped(job[s], Len(data))'
  BY <1>2 DEF JobTyped
<1> QED BY <1>3, DisturbedKept DEF TInv

LEMMA SameTyped ==
    ASSUME TInv, UNCHANGED <<tree, data>>
    PROVE  TreeTyped' /\ Len(data) <= Len(data')
BY DEF TInv, TreeTyped, Rooted, KindIn

\* A call that returns carries nothing on.
LEMMA ReturnTyped ==
    ASSUME FInv, TInv, NEW t \in Threads, NEW ok, Return(t, ok), NEW n \in Nat
    PROVE  JobTyped(job'[t], n)
<1>1. PICK j : j = [NoJob EXCEPT !.result = ok, !.directories = job[t].directories, !.files = job[t].files]
  OBVIOUS
<1>2. Goto(t, j)
  BY <1>1, Zenon DEF Return
<1>3. j.file = NoJob.file /\ j.contents = NoJob.contents /\ j.home = NoJob.home /\ j.todo = NoJob.todo
  BY <1>1, NoJobIs, Zenon DEF Fields
<1>4. j.at = "returned"
  BY <1>1, NoJobIs, Zenon DEF Fields
<1>5. JobTyped(j, n)
  BY <1>3, <1>4, NoJobTyped DEF JobTyped
<1> QED BY <1>2, <1>5, GotoIs

\* Another step of a call that carries what it did
LEMMA GoesOnTyped ==
    ASSUME FInv, TInv, NEW t \in Threads, job[t].at # "returned", NEW a, NEW m,
           \/ m = job[t].made /\ Goto(t, [job[t] EXCEPT !.at = a])
           \/ Goto(t, [job[t] EXCEPT !.at = a, !.made = m]),
           m # 0 \/ a = "mkdir" => m < Len(Wanted(job[t]))
    PROVE  /\ DOMAIN job' = Threads /\ \A s \in Threads \ {t} : job'[s] = job[s]
           /\ JobTyped(job'[t], Len(data))
<1>1. PICK j : /\ Goto(t, j)
               /\ \/ m = job[t].made /\ j = [job[t] EXCEPT !.at = a]
                  \/ j = [job[t] EXCEPT !.at = a, !.made = m]
  BY Zenon
<1>2. DOMAIN job[t] = Fields
  BY JobIs
<1>3. /\ j.file = job[t].file /\ j.contents = job[t].contents /\ j.home = job[t].home
      /\ j.todo = job[t].todo /\ j.request = job[t].request /\ j.at = a /\ j.made = m
  <2>1. CASE m = job[t].made /\ j = [job[t] EXCEPT !.at = a]
    BY <1>2, <2>1, Zenon DEF Fields
  <2>2. CASE j = [job[t] EXCEPT !.at = a, !.made = m]
    BY <1>2, <2>2, Zenon DEF Fields
  <2> QED BY <1>1, <2>1, <2>2, Zenon
<1>4. Goto(t, j)
  BY <1>1, Zenon
<1>5. m # 0 \/ a = "mkdir" => m < Len(Wanted(job[t]))
  OBVIOUS
<1>6. JobTyped(job[t], Len(data))
  BY DEF TInv
<1> HIDE <1>1
<1>7. Wanted(j) = Wanted(job[t])
  BY <1>3, Zenon DEF Wanted, Target
<1>8. JobTyped(j, Len(data))
  BY <1>3, <1>5, <1>6, <1>7, Zenon DEF JobTyped
<1>9. DOMAIN job' = Threads /\ job'[t] = j /\ \A s \in Threads \ {t} : job'[s] = job[s]
  BY <1>4, GotoIs, Zenon
<1> QED BY <1>8, <1>9, Zenon

\* The search of create_directory goes on or ends.
LEMMA SearchTyped ==
    ASSUME FInv, TInv, NEW t \in Threads, job[t].at # "returned", Advanced(t) \/ \E ok : Created(t, ok)
    PROVE  /\ DOMAIN job' = Threads /\ \A s \in Threads \ {t} : job'[s] = job[s]
           /\ JobTyped(job'[t], Len(data))
<1>1. Len(data) \in Nat
  BY DEF TInv, TreeTyped
<1>2. CASE \E ok : Return(t, ok)
  BY <1>1, <1>2, ReturnIs, ReturnTyped
<1>3. CASE Goto(t, [job[t] EXCEPT !.at = "open", !.made = 0])
  <2>1. 0 # 0 \/ "open" = "mkdir" => 0 < Len(Wanted(job[t]))
    OBVIOUS
  <2> QED BY <1>3, <2>1, GoesOnTyped, Zenon
<1>4. CASE /\ Goto(t, [job[t] EXCEPT !.at = "create", !.made = @ + 1])
           /\ ~(job[t].made + 1 >= Len(Wanted(job[t])))
  <2>1. PICK m : m = job[t].made + 1
    OBVIOUS
  <2>2. m # 0 \/ "create" = "mkdir" => m < Len(Wanted(job[t]))
    <3>1. job[t].made \in Nat
      BY JobIs
    <3>2. Len(Wanted(job[t])) \in Nat
      BY JobIs, FrontIs DEF Wanted, Target
    <3>3. ~(m >= Len(Wanted(job[t])))
      BY <1>4, <2>1, Zenon
    <3> QED BY <2>1, <3>1, <3>2, <3>3
  <2>3. Goto(t, [job[t] EXCEPT !.at = "create", !.made = m])
    BY <1>4, <2>1, Zenon
  <2> QED BY <2>2, <2>3, GoesOnTyped, Zenon
<1>5. ASSUME NEW ok, Created(t, ok)
      PROVE  Return(t, ok) \/ Goto(t, [job[t] EXCEPT !.at = "open", !.made = 0])
  BY <1>5, Zenon DEF Created
<1>6. ASSUME Advanced(t)
      PROVE  \/ \E ok : Created(t, ok)
             \/ /\ Goto(t, [job[t] EXCEPT !.at = "create", !.made = @ + 1])
                /\ ~(job[t].made + 1 >= Len(Wanted(job[t])))
  BY <1>6, Zenon DEF Advanced
<1> QED BY <1>2, <1>3, <1>4, <1>5, <1>6, Zenon

\* Where a call looks
LEMMA TargetTyped ==
    ASSUME FInv, TInv, NEW t \in Threads, job[t].at # "returned"
    PROVE  At(Target(job[t])) \in Seq(Names)
BY JobIs, FromTyped DEF Target, At, TInv

LEMMA PrefixTyped ==
    ASSUME FInv, TInv, NEW t \in Threads, job[t].at = "mkdir"
    PROVE  Prefix(job[t]) \in Seq(Names)
<1>1. PICK path : path = Target(job[t])
  OBVIOUS
<1>2. path \in Paths /\ path.names \in Seq(Names) /\ path.names # <<>> /\ job[t].made \in Nat
  BY <1>1, JobIs DEF Target
<1>0. job[t].made < Len(path.names)
  <2>1. job[t].made < Len(Wanted(job[t]))
    BY DEF TInv, JobTyped
  <2>2. Wanted(job[t]) = path.names \/ Wanted(job[t]) = Front(path.names)
    BY <1>1 DEF Wanted
  <2>3. Len(Front(path.names)) = Len(path.names) - 1 /\ Len(path.names) \in Nat
    BY <1>2, FrontIs
  <2> QED BY <1>2, <2>1, <2>2, <2>3
<1>3. PICK part : part = [path EXCEPT !.names = SubSeq(@, 1, job[t].made + 1)]
  OBVIOUS
<1>4. part.names = SubSeq(path.names, 1, job[t].made + 1)
  BY <1>2, <1>3 DEF Paths
<1>5. Prefix(job[t]) = At(part)
  BY <1>1, <1>3, Zenon DEF Prefix
<1> HIDE <1>3
<1>6. part.names \in Seq(Names)
  BY <1>0, <1>2, <1>4
<1>7. (IF part.relative THEN cwd ELSE <<>>) \in Seq(Names)
  BY EmptySeq DEF TInv
<1>8. Prefix(job[t]) = (IF part.relative THEN cwd ELSE <<>>) \o part.names
  BY <1>5, Zenon DEF At, From
<1> QED BY <1>6, <1>7, <1>8, ConcatProperties

LEMMA CheckPrefixTyped ==
    ASSUME FInv, TInv, NEW t \in Threads, Disturbs(t), CheckPrefix(t)
    PROVE  TInv'
<1>0. job[t].at # "returned"
  BY DEF CheckPrefix
<1>1. UNCHANGED <<tree, data, cwd, descriptors, held>>
  BY DEF CheckPrefix, Same, Keeps
<1>2. \/ Advanced(t) \/ \E ok : Created(t, ok)
      \/ Wanted(job[t]) # <<>> /\ Goto(t, [job[t] EXCEPT !.at = "mkdir"])
  BY Zenon DEF CheckPrefix
<1>3. /\ DOMAIN job' = Threads /\ \A s \in Threads \ {t} : job'[s] = job[s]
      /\ JobTyped(job'[t], Len(data))
  <2>1. CASE Advanced(t) \/ \E ok : Created(t, ok)
    BY <1>0, <2>1, SearchTyped
  <2>2. CASE Wanted(job[t]) # <<>> /\ Goto(t, [job[t] EXCEPT !.at = "mkdir"])
    <3>1. job[t].made # 0 => job[t].made < Len(Wanted(job[t]))
      BY <1>0 DEF TInv, JobTyped
    <3>2. 0 < Len(Wanted(job[t]))
      <4>1. Wanted(job[t]) \in Seq(Names)
        BY <1>0, JobIs, FrontIs DEF Wanted, Target
      <4> QED BY <2>2, <4>1, EmptySeq
    <3>3. job[t].made < Len(Wanted(job[t]))
      BY <3>1, <3>2
    <3> QED BY <1>0, <2>2, <3>3, GoesOnTyped, Zenon
  <2> QED BY <1>2, <2>1, <2>2, Zenon
<1>4. OpenTyped'
  BY <1>1 DEF TInv, OpenTyped
<1> QED BY <1>1, <1>3, <1>4, SameTyped, StepTyped DEF TInv

LEMMA MakeDirectoryTyped ==
    ASSUME FInv, TInv, NEW t \in Threads, Disturbs(t), MakeDirectory(t)
    PROVE  TInv'
<1>1. UNCHANGED <<data, cwd, descriptors, held>> /\ job[t].at = "mkdir"
  BY DEF MakeDirectory, Keeps
<1>2. Advanced(t) \/ \E ok : Created(t, ok)
  BY Zenon DEF MakeDirectory, Refused
<1>3. /\ DOMAIN job' = Threads /\ \A s \in Threads \ {t} : job'[s] = job[s]
      /\ JobTyped(job'[t], Len(data))
  BY <1>1, <1>2, SearchTyped
<1>4. OpenTyped'
  BY <1>1 DEF TInv, OpenTyped
<1>5. TreeTyped'
  <2> DEFINE p == Prefix(job[t])
  <2>1. CASE tree' = tree
    BY <1>1, <2>1, SameTyped
  <2>2. CASE tree' = Made(p, Entry("directory", 0)) /\ CanHold(p) /\ Kind(p) = "none"
    <3>1. p \in Seq(Names)
      BY <1>1, PrefixTyped
    <3>2. Len(data) \in Nat /\ Rooted(tree, Len(data))
      BY DEF TInv, TreeTyped
    <3>3. <<"directory", 0>> \in ({"directory"} \X {0}) \cup ({"file"} \X (1 .. Len(data)))
      OBVIOUS
    <3>4. Rooted(Made(p, Entry("directory", 0)), Len(data))
      BY <2>2, <3>1, <3>2, <3>3, MadeOK
    <3>5. Rooted(tree', Len(data'))
      BY <1>1, <2>2, <3>4
    <3>6. data' \in Seq(Texts)
      BY <1>1 DEF TInv, TreeTyped
    <3> QED BY <3>5, <3>6 DEF TreeTyped, Rooted, KindIn
  <2> QED BY <2>1, <2>2, Zenon DEF MakeDirectory
<1>6. Len(data) <= Len(data')
  BY <1>1 DEF TInv, TreeTyped
<1> QED BY <1>1, <1>3, <1>4, <1>5, <1>6, StepTyped DEF TInv

LEMMA CheckTargetTyped ==
    ASSUME FInv, TInv, NEW t \in Threads, Disturbs(t), CheckTarget(t)
    PROVE  TInv'
<1>1. UNCHANGED <<tree, data, cwd, descriptors, held>>
  BY DEF CheckTarget, Same, Keeps
<1>2. \E a \in {"open", "create"} : Goto(t, [job[t] EXCEPT !.at = a])
  BY Zenon DEF CheckTarget
<1>3. /\ DOMAIN job' = Threads /\ \A s \in Threads \ {t} : job'[s] = job[s]
      /\ JobTyped(job'[t], Len(data))
  <2>1. job[t].at # "returned"
    BY DEF CheckTarget
  <2>2. \A a \in {"open", "create"} :
            job[t].made # 0 \/ a = "mkdir" => job[t].made < Len(Wanted(job[t]))
    BY <2>1 DEF TInv, JobTyped
  <2> QED BY <1>2, <2>1, <2>2, GoesOnTyped, Zenon
<1>4. OpenTyped'
  BY <1>1 DEF TInv, OpenTyped
<1> QED BY <1>1, <1>3, <1>4, SameTyped, StepTyped DEF TInv

-----------------------------------------------------------------------------
(* Files *)

\* Making or emptying a file keeps the numbers of the others.
LEMMA EmptiedIs ==
    ASSUME NEW d \in Seq(Texts), NEW n \in 1 .. Len(d) + 1, NEW e,
           e = [i \in DOMAIN d \cup {n} |-> IF i = n THEN "empty" ELSE d[i]]
    PROVE  e \in Seq(Texts) /\ Len(d) <= Len(e) /\ n \in 1 .. Len(e)
<1>1. Len(d) \in Nat /\ DOMAIN d = 1 .. Len(d) /\ \A i \in DOMAIN d : d[i] \in Texts
  BY LenProperties
<1>2. PICK m \in Nat : Len(d) <= m /\ n \in 1 .. m /\ DOMAIN d \cup {n} = 1 .. m
  <2>1. CASE n <= Len(d)
    <3>1. DOMAIN d \cup {n} = 1 .. Len(d) /\ n \in 1 .. Len(d)
      BY <1>1, <2>1
    <3> QED BY <1>1, <3>1
  <2>2. CASE n = Len(d) + 1
    <3>1. DOMAIN d \cup {n} = 1 .. n /\ Len(d) <= n /\ n \in 1 .. n /\ n \in Nat
      BY <1>1, <2>2
    <3> QED BY <3>1
  <2>3. n <= Len(d) \/ n = Len(d) + 1
    BY <1>1
  <2> QED BY <2>1, <2>2, <2>3
<1>3. e \in [1 .. m -> Texts] /\ DOMAIN e = 1 .. m
  <2>1. "empty" \in Texts
    BY DEF Texts
  <2> QED BY <1>1, <1>2, <2>1
<1>4. e \in Seq(Texts)
  BY ZenonT(60), <1>3, SeqDef
<1>5. Len(e) = m
  <2>1. Len(e) \in Nat /\ DOMAIN e = 1 .. Len(e)
    BY <1>4, LenProperties
  <2> QED BY <1>3, <2>1
<1> QED BY <1>2, <1>4, <1>5

LEMMA OpenTypedStep ==
    ASSUME FInv, TInv, NEW t \in Threads, Disturbs(t), Open(t)
    PROVE  TInv'
<1> DEFINE p == At(Target(job[t]))
           n == Number(p)
<1>1. cwd' = cwd /\ job[t].at = "open" /\ Len(data) \in Nat /\ Rooted(tree, Len(data)) /\ data \in Seq(Texts)
  BY DEF Open, TInv, TreeTyped
<1>2. CASE Opens(p)
  <2>1. p \in Seq(Names)
    BY <1>1, TargetTyped
  <2>2. n \in 1 .. Len(data) + 1
    BY <1>1, RootedIs DEF Number, Kind, KindIn
  <2>3. data' \in Seq(Texts) /\ Len(data) <= Len(data') /\ n \in 1 .. Len(data')
    <3>1. data' = [i \in DOMAIN data \cup {n} |-> IF i = n THEN "empty" ELSE data[i]]
      BY <1>2, Zenon DEF Open
    <3> HIDE DEF n
    <3> QED BY <1>1, <2>2, <3>1, EmptiedIs
  <2>4. Len(data') \in Nat
    BY <2>3
  <2>5. TreeTyped'
    <3>1. tree' = Made(p, Entry("file", n)) /\ CanHold(p) /\ Kind(p) \in {"none", "file"}
      BY <1>2, Zenon DEF Open, Opens
    <3>2. <<"file", n>> \in ({"directory"} \X {0}) \cup ({"file"} \X (1 .. Len(data')))
      BY <2>3
    <3> HIDE DEF p, n
    <3>3. Rooted(Made(p, Entry("file", n)), Len(data'))
      BY <1>1, <2>1, <2>3, <2>4, <3>1, <3>2, MadeOK
    <3>4. Rooted(tree', Len(data'))
      BY <3>1, <3>3
    <3> QED BY <2>3, <3>4 DEF TreeTyped, Rooted, KindIn
  <2>6. OpenTyped'
    <3>1. descriptors < MaxOpen /\ descriptors' = descriptors + 1 /\ held' \in {held, held + 1}
      BY <1>2 DEF Open, Opens
    <3> QED BY <3>1, MaxOpenOK DEF TInv, OpenTyped
  <2>7. /\ DOMAIN job' = Threads /\ \A s \in Threads \ {t} : job'[s] = job[s]
        /\ JobTyped(job'[t], Len(data'))
    <3>1. Return(t, TRUE) \/ Goto(t, [job[t] EXCEPT !.at = "write", !.file = n])
      BY <1>2, Zenon DEF Open
    <3>2. CASE Return(t, TRUE)
      BY <2>4, <3>2, ReturnIs, ReturnTyped
    <3>3. CASE Goto(t, [job[t] EXCEPT !.at = "write", !.file = n])
      <4>1. PICK j : j = [job[t] EXCEPT !.at = "write", !.file = n]
        OBVIOUS
      <4>2. DOMAIN job[t] = Fields
        BY JobIs
      <4>3. /\ j.at = "write" /\ j.file = n /\ j.contents = job[t].contents /\ j.home = job[t].home
            /\ j.todo = job[t].todo /\ j.made = job[t].made /\ j.request = job[t].request
        BY <4>1, <4>2, Zenon DEF Fields
      <4>4. Goto(t, j)
        BY <3>3, <4>1, Zenon
      <4>5. JobTyped(job[t], Len(data))
        BY DEF TInv
      <4>6. n \in 0 .. Len(data')
        BY <2>3, <2>4
      <4>7. Wanted(j) = Wanted(job[t])
        BY <4>3, Zenon DEF Wanted, Target
      <4>8. "write" # "returned" /\ "write" # "mkdir"
        OBVIOUS
      <4> HIDE <3>3, <4>1
      <4>9. JobTyped(j, Len(data'))
        BY <1>1, <4>3, <4>5, <4>6, <4>7, <4>8, Zenon DEF JobTyped
      <4> QED BY <4>4, <4>9, GotoIs
    <3> QED BY <3>1, <3>2, <3>3
  <2> QED BY <1>1, <2>3, <2>5, <2>6, <2>7, StepTyped DEF TInv
<1>3. CASE UNCHANGED <<tree, data, descriptors, held>> /\ Return(t, FALSE)
  <2>1. OpenTyped'
    BY <1>3 DEF TInv, OpenTyped
  <2>2. JobTyped(job'[t], Len(data'))
    BY <1>1, <1>3, ReturnTyped
  <2>3. TreeTyped' /\ Len(data) <= Len(data')
    BY <1>3, SameTyped
  <2> QED BY <1>1, <1>3, <2>1, <2>2, <2>3, ReturnIs, StepTyped DEF TInv
<1> QED BY <1>2, <1>3, Zenon DEF Open

LEMMA CloseFileTyped ==
    ASSUME FInv, TInv, NEW t \in Threads, Disturbs(t), CloseFile(t)
    PROVE  TInv'
<1>1. UNCHANGED <<tree, data, cwd, job>> /\ held > 0 /\ held' = held - 1 /\ descriptors' = descriptors - 1
  BY DEF CloseFile, Closes
<1>2. OpenTyped'
  BY <1>1, MaxOpenOK DEF TInv, OpenTyped
<1>3. JobTyped(job'[t], Len(data'))
  BY <1>1 DEF TInv
<1> QED BY <1>1, <1>2, <1>3, SameTyped, StepTyped DEF TInv, FInv

LEMMA OpenSourceTyped ==
    ASSUME FInv, TInv, NEW t \in Threads, Disturbs(t), OpenSource(t)
    PROVE  TInv'
<1> DEFINE p == At(job[t].request.path)
<1>1. UNCHANGED <<tree, data, cwd, held>> /\ job[t].at = "source" /\ Len(data) \in Nat
  BY DEF OpenSource, Keeps, TInv, TreeTyped
<1>2. CASE /\ descriptors < MaxOpen /\ Kind(p) \in {"file", "directory"} /\ descriptors' = descriptors + 1
           /\ Goto(t, [job[t] EXCEPT !.at = "read", !.file = tree[p].file])
  <2>1. OpenTyped'
    BY <1>1, <1>2, MaxOpenOK DEF TInv, OpenTyped
  <2>2. tree[p].file \in 0 .. Len(data)
    <3>1. p \in DOMAIN tree
      BY <1>2 DEF Kind, KindIn
    <3> QED BY SMTT(30), <1>1, <3>1, RootedIs DEF TInv, TreeTyped
  <2>3. PICK j : j = [job[t] EXCEPT !.at = "read", !.file = tree[p].file]
    OBVIOUS
  <2>4. DOMAIN job[t] = Fields
    BY JobIs
  <2>5. /\ j.at = "read" /\ j.file = tree[p].file /\ j.contents = job[t].contents /\ j.home = job[t].home
        /\ j.todo = job[t].todo /\ j.made = job[t].made /\ j.request = job[t].request
    BY <2>3, <2>4, Zenon DEF Fields
  <2>6. Goto(t, j)
    BY <1>2, <2>3, Zenon
  <2>7. JobTyped(job[t], Len(data)) /\ Wanted(j) = Wanted(job[t])
    BY <2>5, Zenon DEF TInv, Wanted, Target
  <2>8. "read" # "returned" /\ "read" # "mkdir"
    OBVIOUS
  <2> HIDE <1>2, <2>3
  <2>9. JobTyped(j, Len(data))
    BY <1>1, <2>2, <2>5, <2>7, <2>8, Zenon DEF JobTyped
  <2> QED BY <1>1, <2>1, <2>6, <2>9, GotoIs, SameTyped, StepTyped DEF TInv
<1>3. CASE UNCHANGED descriptors /\ Return(t, FALSE)
  <2>1. OpenTyped'
    BY <1>1, <1>3 DEF TInv, OpenTyped
  <2>2. JobTyped(job'[t], Len(data'))
    BY <1>1, <1>3, ReturnTyped
  <2> QED BY <1>1, <1>3, <2>1, <2>2, ReturnIs, SameTyped, StepTyped DEF TInv
<1> QED BY <1>2, <1>3, Zenon DEF OpenSource

LEMMA ReadSourceTyped ==
    ASSUME FInv, TInv, NEW t \in Threads, Disturbs(t), ReadSource(t)
    PROVE  TInv'
<1>1. UNCHANGED <<tree, data, cwd, descriptors, held>> /\ job[t].at = "read" /\ Len(data) \in Nat
  BY DEF ReadSource, Keeps, Same, TInv, TreeTyped
<1>2. OpenTyped'
  BY <1>1 DEF TInv, OpenTyped
<1>3. CASE /\ job[t].file # 0
           /\ Goto(t, [job[t] EXCEPT !.at = "check", !.contents = data[job[t].file], !.file = 0])
  <2>1. PICK j : j = [job[t] EXCEPT !.at = "check", !.contents = data[job[t].file], !.file = 0]
    OBVIOUS
  <2>2. DOMAIN job[t] = Fields
    BY JobIs
  <2>3. /\ j.at = "check" /\ j.file = 0 /\ j.contents = data[job[t].file] /\ j.home = job[t].home
        /\ j.todo = job[t].todo /\ j.made = job[t].made /\ j.request = job[t].request
    BY <2>1, <2>2, Zenon DEF Fields
  <2>4. Goto(t, j)
    BY <1>3, <2>1, Zenon
  <2>5. JobTyped(job[t], Len(data)) /\ Wanted(j) = Wanted(job[t])
    BY <2>3, Zenon DEF TInv, Wanted, Target
  <2>6. "check" # "returned" /\ "check" # "mkdir"
    OBVIOUS
  <2>7. data[job[t].file] \in Texts /\ 0 \in 0 .. Len(data)
    <3>1. job[t].file \in 1 .. Len(data)
      BY <1>1, <1>3, <2>5 DEF JobTyped
    <3> QED BY <1>1, <3>1, ElementOfSeq DEF TInv, TreeTyped
  <2> HIDE <1>3, <2>1
  <2>8. JobTyped(j, Len(data))
    BY <1>1, <2>3, <2>5, <2>6, <2>7, Zenon DEF JobTyped
  <2> QED BY <1>1, <1>2, <2>4, <2>8, GotoIs, SameTyped, StepTyped DEF TInv
<1>4. CASE Return(t, FALSE)
  <2>1. JobTyped(job'[t], Len(data'))
    BY <1>1, <1>4, ReturnTyped
  <2> QED BY <1>1, <1>2, <1>4, <2>1, ReturnIs, SameTyped, StepTyped DEF TInv
<1> QED BY <1>3, <1>4, Zenon DEF ReadSource

LEMMA WriteTargetTyped ==
    ASSUME FInv, TInv, NEW t \in Threads, Disturbs(t), WriteTarget(t)
    PROVE  TInv'
<1>1. UNCHANGED <<tree, cwd, descriptors, held>> /\ Len(data) \in Nat
  BY DEF WriteTarget, Keeps, TInv, TreeTyped
<1>2. OpenTyped'
  BY <1>1 DEF TInv, OpenTyped
<1>3. PICK whole \in BOOLEAN :
          /\ data' = [data EXCEPT ![job[t].file] = IF whole THEN job[t].contents ELSE "part"]
          /\ Return(t, Written(whole))
  BY DEF WriteTarget
<1>4. data' \in Seq(Texts) /\ Len(data') = Len(data)
  <2>1. PICK text : text = IF whole THEN job[t].contents ELSE "part"
    OBVIOUS
  <2>2. text \in Texts
    BY <2>1 DEF TInv, JobTyped, Texts
  <2>3. data' = [data EXCEPT ![job[t].file] = text]
    BY <1>3, <2>1, Zenon
  <2> HIDE <1>3, <2>1
  <2>4. data \in [1 .. Len(data) -> Texts] /\ DOMAIN data = 1 .. Len(data)
    BY LenProperties DEF TInv, TreeTyped
  <2>5. data' \in [1 .. Len(data) -> Texts] /\ DOMAIN data' = 1 .. Len(data)
    BY <2>2, <2>3, <2>4
  <2>6. data' \in Seq(Texts)
    BY <1>1, <2>5, SeqDef
  <2>7. Len(data') \in Nat /\ DOMAIN data' = 1 .. Len(data')
    BY <2>6, LenProperties
  <2> QED BY <1>1, <2>5, <2>6, <2>7
<1>5. TreeTyped'
  BY <1>1, <1>4 DEF TInv, TreeTyped, Rooted, KindIn
<1>6. JobTyped(job'[t], Len(data'))
  BY <1>1, <1>3, <1>4, ReturnTyped
<1> QED BY <1>1, <1>2, <1>3, <1>4, <1>5, <1>6, ReturnIs, StepTyped DEF TInv

LEMMA StandingTyped ==
    ASSUME NEW d \in Seq(Names), NEW p
    PROVE  StandingIn(d, p) \in Seq(Names)
<1>1. Deleted \in Seq(Names)
  BY DEF Deleted, Names
<1> QED BY <1>1 DEF StandingIn

\* A call that ends by changing the tree.
LEMMA TreeStep ==
    ASSUME FInv, TInv, NEW t \in Threads, Disturbs(t), UNCHANGED <<data, descriptors, held>>,
           Rooted(tree', Len(data)), cwd' \in Seq(Names), NEW ok, Return(t, ok)
    PROVE  TInv'
<1>1. Len(data) \in Nat
  BY DEF TInv, TreeTyped
<1>2. TreeTyped' /\ OpenTyped'
  BY DEF TInv, TreeTyped, OpenTyped, Rooted, KindIn
<1> QED BY <1>1, <1>2, ReturnIs, ReturnTyped, StepTyped

LEMMA DeleteFileTyped ==
    ASSUME FInv, TInv, NEW t \in Threads, Disturbs(t), DeleteFile(t)
    PROVE  TInv'
<1> DEFINE p == At(job[t].request.path)
<1>1. UNCHANGED <<data, descriptors, held>> /\ job[t].at = "remove"
  BY DEF DeleteFile, Keeps
<1>2. p \in Seq(Names)
  BY <1>1, JobIs, FromTyped DEF At, TInv
<1>3. Rooted(tree, Len(data)) /\ cwd \in Seq(Names)
  BY DEF TInv, TreeTyped
<1>4. /\ tree' = IF Unlink(p) THEN Removed(p) ELSE tree
      /\ cwd' = IF Unlink(p) THEN StandingIn(cwd, p) ELSE cwd
      /\ \E ok : Return(t, ok)
  BY Zenon DEF DeleteFile
<1> HIDE DEF p
<1>5. Rooted(tree', Len(data)) /\ cwd' \in Seq(Names)
  BY <1>2, <1>3, <1>4, RemovedOK, StandingTyped
<1> QED BY <1>1, <1>4, <1>5, TreeStep

LEMMA MoveTyped ==
    ASSUME FInv, TInv, NEW t \in Threads, Disturbs(t), Move(t)
    PROVE  TInv'
<1> DEFINE p == At(job[t].request.path)
           q == At(job[t].request.other)
<1>1. UNCHANGED <<data, descriptors, held>> /\ job[t].at = "rename"
  BY DEF Move, Keeps
<1>2. p \in Seq(Names) /\ q \in Seq(Names)
  BY <1>1, JobIs, FromTyped DEF At, TInv
<1>3. Rooted(tree, Len(data)) /\ cwd \in Seq(Names)
  BY DEF TInv, TreeTyped
<1>4. \/ /\ Renames(p, q) /\ tree' = Renamed(p, q) /\ Return(t, TRUE)
         /\ cwd' = IF IsPrefix(p, cwd) THEN Rebased(p, q, cwd) ELSE StandingIn(cwd, q)
      \/ UNCHANGED <<tree, cwd>> /\ Return(t, FALSE)
  BY Zenon DEF Move
<1> HIDE DEF p, q
<1>5. CASE /\ Renames(p, q) /\ tree' = Renamed(p, q) /\ Return(t, TRUE)
           /\ cwd' = IF IsPrefix(p, cwd) THEN Rebased(p, q, cwd) ELSE StandingIn(cwd, q)
  <2>1. StandingIn(cwd, q) \in Seq(Names)
    BY <1>3, StandingTyped
  <2>2. IsPrefix(p, cwd) => Rebased(p, q, cwd) \in Seq(Names)
    BY <1>2, <1>3, RebasedIs
  <2>3. cwd' \in Seq(Names)
    BY <1>5, <2>1, <2>2
  <2>4. Rooted(tree', Len(data))
    BY <1>2, <1>3, <1>5, RenamedOK
  <2> QED BY <1>1, <1>5, <2>3, <2>4, TreeStep
<1>6. CASE UNCHANGED <<tree, cwd>> /\ Return(t, FALSE)
  BY <1>1, <1>3, <1>6, TreeStep
<1> QED BY <1>4, <1>5, <1>6

-----------------------------------------------------------------------------
(* Walks *)

\* A walk that goes on with other things to visit
LEMMA WalkTyped ==
    ASSUME FInv, TInv, NEW t \in Threads, Disturbs(t), UNCHANGED <<data, descriptors, held>>,
           Rooted(tree', Len(data)), cwd' \in Seq(Names), job[t].at = "walk",
           NEW todo \in Seq(Visits), NEW a, NEW b,
           \/ job' = [job EXCEPT ![t].todo = todo]
           \/ job' = [job EXCEPT ![t].todo = todo, ![t].directories = a]
           \/ job' = [job EXCEPT ![t].todo = todo, ![t].directories = a, ![t].files = b]
    PROVE  TInv'
<1>1. Len(data) \in Nat
  BY DEF TInv, TreeTyped
<1>2. TreeTyped' /\ OpenTyped'
  BY DEF TInv, TreeTyped, OpenTyped, Rooted, KindIn
<1>3. DOMAIN job = Threads /\ DOMAIN job[t] = Fields
  BY JobIs DEF FInv
<1>4. /\ DOMAIN job' = Threads /\ \A s \in Threads \ {t} : job'[s] = job[s]
      /\ job'[t].todo = todo /\ job'[t].at = job[t].at /\ job'[t].made = job[t].made
      /\ job'[t].file = job[t].file /\ job'[t].contents = job[t].contents
      /\ job'[t].home = job[t].home /\ job'[t].request = job[t].request
  <2>1. CASE job' = [job EXCEPT ![t].todo = todo]
    BY <1>3, <2>1, Zenon DEF Fields
  <2>2. CASE job' = [job EXCEPT ![t].todo = todo, ![t].directories = a]
    BY <1>3, <2>2, Zenon DEF Fields
  <2>3. CASE job' = [job EXCEPT ![t].todo = todo, ![t].directories = a, ![t].files = b]
    BY <1>3, <2>3, Zenon DEF Fields
  <2> QED BY <2>1, <2>2, <2>3, Zenon
<1>5. JobTyped(job'[t], Len(data'))
  <2>1. PICK j : j = job'[t]
    OBVIOUS
  <2>2. JobTyped(job[t], Len(data)) /\ Len(data') = Len(data)
    BY DEF TInv
  <2>3. Wanted(j) = Wanted(job[t])
    BY <1>4, <2>1, Zenon DEF Wanted, Target
  <2>4. JobTyped(j, Len(data'))
    BY <1>4, <2>1, <2>2, <2>3, Zenon DEF JobTyped
  <2> QED BY <2>1, <2>4
<1>6. Len(data) <= Len(data')
  BY <1>1
<1> QED BY <1>2, <1>4, <1>5, <1>6, StepTyped

LEMMA VisitIs ==
    ASSUME FInv, TInv, NEW t \in Threads, job[t].at = "walk", job[t].todo # <<>>, NEW e, e = Head(job[t].todo)
    PROVE  /\ e \in Visits /\ e.under \in Seq(Names) /\ e.info \in Infos
           /\ Tail(job[t].todo) \in Seq(Visits)
           /\ job[t].home \in Seq(Names) /\ Place(job[t], e) \in Seq(Names) /\ Back(job[t], e) \in Seq(Names)
<1>1. job[t].todo \in Seq(Visits) /\ job[t].home \in Seq(Names) /\ cwd \in Seq(Names)
  BY DEF TInv, JobTyped
<1>2. e \in Visits /\ Tail(job[t].todo) \in Seq(Visits)
  BY <1>1, HeadTailProperties
<1>3. e.under \in Seq(Names) /\ e.info \in Infos
  BY <1>2 DEF Visits
<1>4. From(job[t].home, job[t].request.path) \in Seq(Names)
  BY <1>1, JobIs, FromTyped
<1>5. Place(job[t], e) \in Seq(Names)
  BY <1>3, <1>4, ConcatProperties DEF Place
<1>6. e.under # <<>> => Front(Place(job[t], e)) \in Seq(Names)
  <2>1. e.under # <<>> => Place(job[t], e) # <<>>
    BY <1>3, <1>4, ConcatEqualIffEmpty DEF Place
  <2> QED BY <1>5, <2>1, FrontIs
<1>7. Back(job[t], e) \in Seq(Names)
  BY <1>1, <1>6 DEF Back
<1> QED BY <1>1, <1>2, <1>3, <1>5, <1>7

\* fts_read finds the entries of a directory, in some order.
LEMMA OrderIs ==
    ASSUME NEW n, Rooted(tree, n), NEW p \in Seq(Names), NEW order \in SetToSeqs(Children(tree, p))
    PROVE  order \in Seq(Children(tree, p))
<1>1. Children(tree, p) \in SUBSET DOMAIN tree /\ IsFiniteSet(DOMAIN tree)
  BY DEF Children, Below, Rooted
<1>2. Cardinality(Children(tree, p)) \in Nat
  BY <1>1, FS_Subset, FS_CardinalityType
<1>3. order \in [1 .. Cardinality(Children(tree, p)) -> Children(tree, p)]
  BY DEF SetToSeqs
<1> QED BY <1>2, <1>3, SeqDef

\* What fts_read tells of what it finds, by its kind
LEMMA InfoOf ==
    ASSUME TInv, NEW p
    PROVE  Info[Kind(p)] \in Infos
<1>1. Kind(p) \in DOMAIN Info
  <2>1. p \in DOMAIN tree => tree[p].kind \in DOMAIN Info
    BY DEF TInv, TreeTyped, Rooted
  <2>2. "none" \in DOMAIN Info
    BY DEF Info
  <2> QED BY <2>1, <2>2 DEF Kind, KindIn
<1> QED BY <1>1 DEF Infos

LEMMA DescendTyped ==
    ASSUME FInv, TInv, NEW t \in Threads, Disturbs(t), UNCHANGED <<data, descriptors, held>>,
           job[t].at = "walk", job[t].todo # <<>>, NEW e, e = Head(job[t].todo), Descend(t, e)
    PROVE  TInv'
<1> DEFINE p == Place(job[t], e)
<1>1. /\ e \in Visits /\ e.under \in Seq(Names) /\ Tail(job[t].todo) \in Seq(Visits) /\ p \in Seq(Names)
      /\ cwd \in Seq(Names) /\ Rooted(tree, Len(data)) /\ Rooted(tree', Len(data))
  BY VisitIs DEF TInv, TreeTyped, Descend, Rooted, KindIn
<1>2. ASSUME NEW info \in Infos
      PROVE  [e EXCEPT !.info = info] \in Visits
  BY <1>1, <1>2 DEF Visits
<1>3. ASSUME NEW order \in SetToSeqs(Children(tree, p)), NEW found,
             found = [i \in DOMAIN order |-> [under |-> Append(e.under, Last(order[i])), info |-> Info[Kind(order[i])]]]
      PROVE  found \in Seq(Visits)
  <2>1. order \in Seq(Children(tree, p))
    BY <1>1, OrderIs
  <2>2. Len(order) \in Nat /\ DOMAIN order = 1 .. Len(order)
    BY <2>1, LenProperties
  <2>3. ASSUME NEW i \in 1 .. Len(order) PROVE found[i] \in Visits
    <3>1. order[i] \in Children(tree, p)
      BY <2>1, ElementOfSeq
    <3>2. order[i] \in Seq(Names) /\ Len(order[i]) = Len(p) + 1
      BY <1>1, <3>1, RootedIs DEF Children, Below
    <3>3. Last(order[i]) \in Names
      <4>1. Len(order[i]) \in 1 .. Len(order[i])
        BY <1>1, <3>2
      <4> QED BY <3>2, <4>1, ElementOfSeq DEF Last
    <3>4. Append(e.under, Last(order[i])) \in Seq(Names) /\ Info[Kind(order[i])] \in Infos
      BY <1>1, <3>3, AppendProperties, InfoOf
    <3>5. found[i] = [under |-> Append(e.under, Last(order[i])), info |-> Info[Kind(order[i])]]
      BY <1>3, <2>2, <2>3
    <3> QED BY <3>4, <3>5 DEF Visits
  <2>4. found \in [1 .. Len(order) -> Visits]
    BY <1>3, <2>2, <2>3
  <2> QED BY <2>2, <2>4, SeqDef
<1>4. FTS_DP \in Infos /\ FTS_DNR \in Infos
  BY DEF Infos
<1>5. CASE \E order \in SetToSeqs(Children(tree, p)) :
               /\ \E b : job' = [job EXCEPT ![t].todo =
                      [i \in DOMAIN order |-> [under |-> Append(e.under, Last(order[i])), info |-> Info[Kind(order[i])]]]
                          \o <<[e EXCEPT !.info = FTS_DP]>> \o Tail(job[t].todo), ![t].directories = b]
               /\ cwd' = IF order = <<>> THEN cwd ELSE p
  <2>1. PICK order \in SetToSeqs(Children(tree, p)) :
               /\ \E b : job' = [job EXCEPT ![t].todo =
                      [i \in DOMAIN order |-> [under |-> Append(e.under, Last(order[i])), info |-> Info[Kind(order[i])]]]
                          \o <<[e EXCEPT !.info = FTS_DP]>> \o Tail(job[t].todo), ![t].directories = b]
               /\ cwd' = IF order = <<>> THEN cwd ELSE p
    BY <1>5, Zenon
  <2>2. PICK found : found = [i \in DOMAIN order |-> [under |-> Append(e.under, Last(order[i])), info |-> Info[Kind(order[i])]]]
    OBVIOUS
  <2>3. PICK back : back = [e EXCEPT !.info = FTS_DP]
    OBVIOUS
  <2>4. PICK todo : todo = found \o <<back>> \o Tail(job[t].todo)
    OBVIOUS
  <2>5. \E b : job' = [job EXCEPT ![t].todo = todo, ![t].directories = b]
    BY <2>1, <2>2, <2>3, <2>4, Zenon
  <2>6. cwd' \in Seq(Names)
    BY <1>1, <2>1
  <2>7. found \in Seq(Visits) /\ <<back>> \in Seq(Visits)
    <3>1. found \in Seq(Visits)
      BY <1>3, <2>2, Zenon
    <3>2. back \in Visits
      BY <1>2, <1>4, <2>3, Zenon
    <3> QED BY <3>1, <3>2
  <2> HIDE <1>5, <2>1, <2>2, <2>3
  <2>8. todo \in Seq(Visits)
    BY <1>1, <2>4, <2>7, ConcatProperties
  <2> HIDE <2>4
  <2> QED BY <1>1, <2>5, <2>6, <2>8, WalkTyped, Zenon
<1>6. CASE job' = [job EXCEPT ![t].todo = <<[e EXCEPT !.info = FTS_DNR]>> \o Tail(job[t].todo)] /\ UNCHANGED cwd
  <2>1. PICK back : back = [e EXCEPT !.info = FTS_DNR]
    OBVIOUS
  <2>2. PICK todo : todo = <<back>> \o Tail(job[t].todo)
    OBVIOUS
  <2>3. job' = [job EXCEPT ![t].todo = todo]
    BY <1>6, <2>1, <2>2, Zenon
  <2>4. back \in Visits
    BY <1>2, <1>4, <2>1, Zenon
  <2>5. cwd' \in Seq(Names)
    BY <1>1, <1>6
  <2> HIDE <1>6, <2>1
  <2>6. todo \in Seq(Visits)
    <3>1. <<back>> \in Seq(Visits)
      BY <2>4
    <3> QED BY <1>1, <2>2, <3>1, ConcatProperties
  <2> QED BY <1>1, <2>3, <2>5, <2>6, WalkTyped, Zenon
<1> QED BY <1>5, <1>6, Zenon DEF Descend

\* The bits that delete_directory looks at make it remove what is there and
\* nothing else, whatever fts_read tells of it.
LEMMA ErasesIs ==
    ASSUME NEW e, e.info \in Infos, e.info # FTS_D, NEW p, Erases(e, p)
    PROVE  Unlink(p)
<1>1. e.info \in {3, 4, 6, 8, 10, 12}
  BY InfosAre DEF FTS_D
<1>2. Has(3, 6) /\ Has(4, 6) /\ Has(6, 6) /\ Has(10, 6) /\ Has(12, 6) /\ Has(8, 8)
  BY DEF Has
<1>3. e.info = 8 \/ Has(e.info, 6)
  BY <1>1, <1>2
<1> QED BY <1>2, <1>3 DEF Erases, FTS_DP, FTS_F, Unlink

LEMMA EraseTyped ==
    ASSUME FInv, TInv, NEW t \in Threads, Disturbs(t), UNCHANGED <<data, descriptors, held>>,
           job[t].at = "walk", job[t].todo # <<>>, NEW e, e = Head(job[t].todo), Erase(t, e)
    PROVE  TInv'
<1> DEFINE back == Back(job[t], e)
           p == From(back, job[t].request.path) \o e.under
<1>1. /\ e \in Visits /\ e.under \in Seq(Names) /\ e.info \in Infos /\ Tail(job[t].todo) \in Seq(Visits)
      /\ back \in Seq(Names) /\ Rooted(tree, Len(data)) /\ e.info # FTS_D
  BY VisitIs DEF TInv, TreeTyped, Erase
<1>2. p \in Seq(Names)
  BY <1>1, JobIs, FromTyped, ConcatProperties
<1>3. \/ /\ Erases(e, p) /\ tree' = Removed(p) /\ cwd' = StandingIn(back, p)
         /\ job' = [job EXCEPT ![t].todo = Tail(job[t].todo)]
      \/ cwd' = back /\ Return(t, FALSE) /\ UNCHANGED tree
  BY Zenon DEF Erase
<1> HIDE DEF back, p
<1>4. CASE /\ Erases(e, p) /\ tree' = Removed(p) /\ cwd' = StandingIn(back, p)
           /\ job' = [job EXCEPT ![t].todo = Tail(job[t].todo)]
  <2>1. Unlink(p)
    BY <1>1, <1>4, ErasesIs
  <2>2. Rooted(tree', Len(data)) /\ cwd' \in Seq(Names)
    BY <1>1, <1>2, <1>4, <2>1, RemovedOK, StandingTyped
  <2> QED BY <1>1, <1>4, <2>2, WalkTyped, Zenon
<1>5. CASE cwd' = back /\ Return(t, FALSE) /\ UNCHANGED tree
  BY <1>1, <1>5, TreeStep
<1> QED BY <1>3, <1>4, <1>5

LEMMA ListTyped ==
    ASSUME FInv, TInv, NEW t \in Threads, Disturbs(t), UNCHANGED <<data, descriptors, held>>,
           job[t].at = "walk", job[t].todo # <<>>, NEW e, e = Head(job[t].todo), List(t, e)
    PROVE  TInv'
<1>1. Tail(job[t].todo) \in Seq(Visits) /\ cwd' \in Seq(Names) /\ Rooted(tree', Len(data))
  BY VisitIs DEF TInv, TreeTyped, List, Rooted, KindIn
<1>2. PICK todo : todo = Tail(job[t].todo)
  OBVIOUS
<1>3. PICK a, b : job' = [job EXCEPT ![t].todo = todo, ![t].directories = a, ![t].files = b]
  BY <1>2, Zenon DEF List, Listed
<1>4. todo \in Seq(Visits)
  BY <1>1, <1>2
<1> HIDE <1>2
<1> QED BY <1>1, <1>3, <1>4, WalkTyped, Zenon

LEMMA WalkStepTyped ==
    ASSUME FInv, TInv, NEW t \in Threads, Disturbs(t), Walk(t)
    PROVE  TInv'
<1>1. UNCHANGED <<data, descriptors, held>> /\ job[t].at = "walk" /\ job[t].todo # <<>>
  BY DEF Walk
<1>2. PICK e : e = Head(job[t].todo) /\ (Descend(t, e) \/ Erase(t, e) \/ List(t, e))
  BY Zenon DEF Walk
<1> QED BY <1>1, <1>2, DescendTyped, EraseTyped, ListTyped

LEMMA EndWalkTyped ==
    ASSUME FInv, TInv, NEW t \in Threads, Disturbs(t), EndWalk(t)
    PROVE  TInv'
<1>1. UNCHANGED <<tree, data, descriptors, held>> /\ Return(t, TRUE) /\ cwd' = job[t].home
  BY DEF EndWalk, Keeps
<1>2. Rooted(tree', Len(data)) /\ cwd' \in Seq(Names)
  BY <1>1 DEF TInv, TreeTyped, JobTyped
<1> QED BY <1>1, <1>2, TreeStep

LEMMA CheckListedTyped ==
    ASSUME FInv, TInv, NEW t \in Threads, Disturbs(t), CheckListed(t)
    PROVE  TInv'
<1>1. UNCHANGED <<tree, data, cwd, descriptors, held>> /\ job[t].at = "list"
  BY DEF CheckListed, Keeps, Same
<1>2. Rooted(tree', Len(data)) /\ cwd' \in Seq(Names)
  BY <1>1 DEF TInv, TreeTyped
<1>3. CASE Return(t, FALSE)
  BY <1>1, <1>2, <1>3, TreeStep
<1>4. CASE Goto(t, [job[t] EXCEPT !.at = "walk", !.home = cwd, !.todo = <<[under |-> <<>>, info |-> FTS_D]>>])
  <2>1. PICK todo : todo = <<[under |-> <<>>, info |-> FTS_D]>>
    OBVIOUS
  <2>2. PICK j : j = [job[t] EXCEPT !.at = "walk", !.home = cwd, !.todo = todo]
    OBVIOUS
  <2>3. Goto(t, j)
    BY <1>4, <2>1, <2>2, Zenon
  <2>4. DOMAIN job[t] = Fields
    BY JobIs
  <2>5. /\ j.at = "walk" /\ j.request = job[t].request /\ j.home = cwd /\ j.todo = todo
        /\ j.made = job[t].made /\ j.file = job[t].file /\ j.contents = job[t].contents
    BY <2>2, <2>4, Zenon DEF Fields
  <2>6. todo \in Seq(Visits)
    <3>1. [under |-> <<>>, info |-> FTS_D] \in Visits
      BY InfosAre, EmptySeq DEF Visits, FTS_D
    <3> QED BY <2>1, <3>1
  <2>7. JobTyped(job[t], Len(data)) /\ Wanted(j) = Wanted(job[t])
    BY <2>5, Zenon DEF TInv, Wanted, Target
  <2>8. "walk" # "mkdir" /\ "list" # "returned" /\ cwd \in Seq(Names)
    BY DEF TInv
  <2> HIDE <1>4, <2>1, <2>2
  <2>9. JobTyped(j, Len(data))
    BY <1>1, <2>5, <2>6, <2>7, <2>8, Zenon DEF JobTyped
  <2>10. OpenTyped'
    BY <1>1 DEF TInv, OpenTyped
  <2> QED BY <1>1, <1>2, <2>3, <2>9, <2>10, GotoIs, SameTyped, StepTyped
<1> QED BY <1>3, <1>4, Zenon DEF CheckListed

LEMMA BeginTyped ==
    ASSUME FInv, TInv, NEW t \in Threads, Disturbs(t), Begin(t)
    PROVE  TInv'
<1>1. UNCHANGED <<tree, data, cwd, descriptors, held>>
  BY DEF Begin, Same
<1>2. PICK r \in Requests :
          Goto(t, [NoJob EXCEPT
              !.at = First[r.op], !.request = r, !.home = cwd,
              !.todo = IF r.op = "delete_directory" THEN <<[under |-> <<>>, info |-> Info[Kind(At(r.path))]]>> ELSE @])
  BY Zenon DEF Begin
<1> DEFINE todo == IF r.op = "delete_directory" THEN <<[under |-> <<>>, info |-> Info[Kind(At(r.path))]]>> ELSE NoJob.todo
<1>3. todo \in Seq(Visits)
  <2>1. [under |-> <<>>, info |-> Info[Kind(At(r.path))]] \in Visits
    BY InfoOf, EmptySeq DEF Visits
  <2>2. NoJob.todo \in Seq(Visits)
    BY NoJobTyped DEF JobTyped, TInv, TreeTyped
  <2> QED BY <1>2, <2>1, <2>2
<1>4. PICK j : j = [NoJob EXCEPT
              !.at = First[r.op], !.request = r, !.home = cwd,
              !.todo = IF r.op = "delete_directory" THEN <<[under |-> <<>>, info |-> Info[Kind(At(r.path))]]>> ELSE @]
  OBVIOUS
<1>5. Goto(t, j)
  BY <1>2, <1>4, Zenon
<1>6. /\ j.at = First[r.op] /\ j.request = r /\ j.home = cwd /\ j.todo = todo
      /\ j.made = NoJob.made /\ j.file = NoJob.file /\ j.contents = NoJob.contents
  BY <1>4, NoJobIs, Zenon DEF Fields
<1>7. First[r.op] # "mkdir" /\ NoJob.made = 0
  BY RequestsOK DEF First, NoJob
<1>8. JobTyped(NoJob, Len(data)) /\ cwd \in Seq(Names)
  BY NoJobTyped DEF TInv, TreeTyped
<1> HIDE <1>2, <1>4 DEF todo
<1>9. JobTyped(j, Len(data))
  BY <1>3, <1>6, <1>7, <1>8, Zenon DEF JobTyped
<1>10. OpenTyped'
  BY <1>1 DEF TInv, OpenTyped
<1> QED BY <1>1, <1>5, <1>8, <1>9, <1>10, GotoIs, SameTyped, StepTyped

LEMMA StepsTyped ==
    ASSUME FInv, TInv, NEW t \in Threads, Begin(t) \/ CloseFile(t) \/ Step(t), Disturbs(t)
    PROVE  TInv'
BY BeginTyped, CloseFileTyped, CheckPrefixTyped, MakeDirectoryTyped, CheckTargetTyped, OpenTypedStep,
   OpenSourceTyped, ReadSourceTyped, WriteTargetTyped, DeleteFileTyped, MoveTyped, CheckListedTyped,
   WalkStepTyped, EndWalkTyped DEF Step

LEMMA TreeTyping == Spec => []TInv
<1>1. FInv /\ TInv /\ [Next]_vars => TInv'
  <2>1. CASE Next
    BY <2>1, StepsTyped DEF Next
  <2>2. CASE UNCHANGED vars
    BY <2>2 DEF vars, TInv, TreeTyped, OpenTyped, DisturbedTyped, JobTyped, Rooted, KindIn, Wanted, Target
  <2> QED BY <2>1, <2>2
<1> QED BY <1>1, InitTyped, FileSystemInvariant, PTL DEF Spec

\* For any trees, requests and threads: whatever the calls of the threads do
\* between each other's steps, everything in the tree stands in a directory and
\* every file has contents of its own number, and no more is closed than was
\* opened.
THEOREM TreeStaysRooted == Spec => []TypeOK
<1>1. TInv => TypeOK
  BY DEF TInv, TreeTyped, OpenTyped, DisturbedTyped, TypeOK
<1> QED BY <1>1, TreeTyping, PTL

-----------------------------------------------------------------------------
\* Among some subsets of a finite set, one has no other of them within it.
LEMMA LeastSet ==
    ASSUME NEW S, IsFiniteSet(S), NEW bad, bad \subseteq SUBSET S, bad # {}
    PROVE  \E T \in bad : \A U \in bad : U \subseteq T => U = T
<1>1. bad \subseteq FiniteSubsetsOf(S)
  BY FS_FiniteSubsetsOfFinite
<1>2. IsWellFoundedOn(StrictSubsetOrdering(S), FiniteSubsetsOf(S))
  BY FS_StrictSubsetOrderingWellFounded
<1>3. PICK T \in bad : \A U \in bad : ~ (<<U, T>> \in StrictSubsetOrdering(S))
  BY <1>1, <1>2, WFMin
<1> QED BY <1>3 DEF StrictSubsetOrdering

LEMMA LeastNumber ==
    ASSUME NEW n \in Nat, NEW bad, bad \subseteq 0 .. n, bad # {}
    PROVE  \E k \in bad : \A m \in bad : k <= m
<1> DEFINE below == {0 .. (k - 1) : k \in bad}
<1>1. below \subseteq SUBSET (0 .. n) /\ below # {}
  <2> SUFFICES ASSUME NEW k \in bad PROVE 0 .. (k - 1) \subseteq 0 .. n
    OBVIOUS
  <2>1. k \in 0 .. n
    OBVIOUS
  <2> QED BY <2>1
<1>2. PICK S : S = 0 .. n /\ IsFiniteSet(S)
  BY FS_Interval
<1>3. PICK T \in below : \A U \in below : U \subseteq T => U = T
  <2>1. IsFiniteSet(S) /\ below \subseteq SUBSET S /\ below # {}
    BY <1>1, <1>2
  <2>2. PICK W : W = below
    OBVIOUS
  <2>3. \E T \in W : \A U \in W : U \subseteq T => U = T
    <3>1. IsFiniteSet(S) /\ W \subseteq SUBSET S /\ W # {}
      BY <2>1, <2>2, Zenon
    <3> HIDE <2>1, <2>2, <1>2
    <3> QED BY <3>1, LeastSet
  <2> QED BY <2>2, <2>3, Zenon
<1>4. PICK k \in bad : T = 0 .. (k - 1)
  OBVIOUS
<1>5. ASSUME NEW m \in bad, m < k PROVE FALSE
  <2>1. 0 .. (m - 1) \in below /\ 0 .. (m - 1) \subseteq T
    BY <1>4, <1>5
  <2>2. m \notin 0 .. (m - 1) /\ m \in 0 .. (k - 1)
    BY <1>5
  <2> QED BY <1>3, <1>4, <2>1, <2>2
<1> QED BY <1>5

-----------------------------------------------------------------------------
(* What is above and below a path *)

LEMMA PrefixTrans ==
    ASSUME NEW p \in Seq(Names), NEW q \in Seq(Names), NEW r \in Seq(Names), IsPrefix(p, q), IsPrefix(q, r)
    PROVE  IsPrefix(p, r)
<1>1. Len(p) \in Nat /\ Len(q) \in Nat /\ Len(r) \in Nat
  OBVIOUS
<1>2. Len(p) <= Len(q) /\ \A i \in 1 .. Len(p) : p[i] = q[i]
  BY PrefixIs
<1>3. Len(q) <= Len(r) /\ \A i \in 1 .. Len(q) : q[i] = r[i]
  BY PrefixIs
<1>4. \A i \in 1 .. Len(p) : i \in 1 .. Len(q)
  BY <1>1, <1>2
<1>5. Len(p) <= Len(r) /\ \A i \in 1 .. Len(p) : p[i] = r[i]
  BY <1>1, <1>2, <1>3, <1>4
<1> QED BY <1>5, PrefixIs

LEMMA PrefixSame ==
    ASSUME NEW p \in Seq(Names), NEW q \in Seq(Names), IsPrefix(p, q), Len(q) <= Len(p)
    PROVE  p = q
<1>1. Len(p) \in Nat /\ Len(q) \in Nat /\ Len(p) <= Len(q) /\ \A i \in 1 .. Len(p) : p[i] = q[i]
  BY PrefixIs
<1>2. Len(p) = Len(q)
  BY <1>1
<1> QED BY <1>1, <1>2, SeqEqual

LEMMA PrefixOfItself ==
    ASSUME NEW p \in Seq(Names)
    PROVE  IsPrefix(p, p)
BY PrefixIs

LEMMA ConcatIs ==
    ASSUME NEW p \in Seq(Names), NEW u \in Seq(Names)
    PROVE  /\ p \o u \in Seq(Names) /\ Len(p \o u) = Len(p) + Len(u) /\ Len(p) \in Nat /\ Len(u) \in Nat
           /\ \A i \in 1 .. Len(p) : (p \o u)[i] = p[i]
           /\ \A i \in 1 .. Len(u) : (p \o u)[Len(p) + i] = u[i]
           /\ IsPrefix(p, p \o u)
           /\ u = <<>> => p \o u = p
           /\ u # <<>> => IsStrictPrefix(p, p \o u) /\ p \o u # <<>>
<1>1. Len(p) \in Nat /\ Len(u) \in Nat
  OBVIOUS
<1>2. PICK w : w = p \o u
  OBVIOUS
<1>3. /\ w \in Seq(Names) /\ Len(w) = Len(p) + Len(u)
      /\ \A i \in 1 .. Len(p) + Len(u) : w[i] = IF i <= Len(p) THEN p[i] ELSE u[i - Len(p)]
  BY <1>2, ConcatProperties
<1>4. u = <<>> => w = p
  BY <1>2
<1> HIDE <1>2
<1>5. \A i \in 1 .. Len(p) : w[i] = p[i]
  BY <1>1, <1>3
<1>6. ASSUME NEW i \in 1 .. Len(u) PROVE w[Len(p) + i] = u[i]
  <2>1. PICK k : k = Len(p) + i
    OBVIOUS
  <2>2. k \in 1 .. Len(p) + Len(u) /\ ~(k <= Len(p)) /\ k - Len(p) = i
    BY <1>1, <2>1
  <2>3. w[k] = u[i]
    BY <1>3, <2>2
  <2> QED BY <2>1, <2>3
<1>7. IsPrefix(p, w)
  <2>1. Len(p) <= Len(w)
    BY <1>1, <1>3
  <2> QED BY <1>3, <1>5, <2>1, PrefixIs
<1>8. u # <<>> => Len(w) > Len(p) /\ Len(w) > 0
  <2>1. u # <<>> => Len(u) > 0
    BY EmptySeq
  <2> QED BY <1>1, <1>3, <2>1
<1>9. u # <<>> => IsStrictPrefix(p, w) /\ w # <<>>
  <2>1. w = p => Len(w) = Len(p)
    OBVIOUS
  <2>2. w = <<>> => Len(w) = 0
    OBVIOUS
  <2> QED BY <1>1, <1>3, <1>7, <1>8, <2>1, <2>2 DEF IsStrictPrefix
<1> QED BY <1>1, <1>2, <1>3, <1>4, <1>5, <1>6, <1>7, <1>9

\* Whatever something is below is a directory.
LEMMA Ancestors ==
    ASSUME NEW f, NEW n, Rooted(f, n), NEW s \in DOMAIN f, NEW p \in Seq(Names), IsStrictPrefix(p, s)
    PROVE  p \in DOMAIN f /\ f[p].kind = "directory"
<1> SUFFICES ASSUME ~(p \in DOMAIN f /\ f[p].kind = "directory") PROVE FALSE
  OBVIOUS
<1> DEFINE those == {r \in DOMAIN f : IsStrictPrefix(p, r) /\ Len(r) <= Len(s)}
           bad == {Len(r) : r \in those}
<1>1. \A r \in DOMAIN f : r \in Seq(Names) /\ Len(r) \in Nat
  BY RootedIs
<1>2. Len(s) \in bad /\ bad # {} /\ Len(s) \in Nat /\ bad \subseteq 0 .. Len(s)
  <2>1. Len(s) \in Nat /\ s \in those
    BY <1>1
  <2>2. \A r \in those : Len(r) \in 0 .. Len(s)
    BY <1>1, <2>1
  <2> HIDE DEF those
  <2> QED BY <2>1, <2>2
<1>3. PICK k \in bad : \A m \in bad : k <= m
  <2>1. PICK b : b = bad
    OBVIOUS
  <2>2. \E k \in b : \A m \in b : k <= m
    <3>1. b # {} /\ Len(s) \in Nat /\ b \subseteq 0 .. Len(s)
      BY <1>2, <2>1, Zenon
    <3> HIDE <2>1
    <3> QED BY <3>1, LeastNumber
  <2> QED BY <2>1, <2>2, Zenon
<1>4. PICK r \in those : k = Len(r)
  OBVIOUS
<1>5. r \in DOMAIN f /\ IsStrictPrefix(p, r) /\ Len(r) <= Len(s) /\ r \in Seq(Names)
  BY <1>1
<1>6. r # <<>>
  <2>1. Len(p) <= Len(r) /\ Len(p) \in Nat
    BY <1>5, PrefixIs DEF IsStrictPrefix
  <2>2. r = <<>> => p = <<>>
    BY <2>1, EmptySeq
  <2> QED BY <1>5, <2>2 DEF IsStrictPrefix
<1>7. /\ Front(r) \in DOMAIN f /\ f[Front(r)].kind = "directory" /\ IsPrefix(p, Front(r))
      /\ Len(Front(r)) = Len(r) - 1 /\ Len(r) > 0
  BY <1>5, <1>6, RootedIs, AboveFront, FrontIs
<1>8. IsStrictPrefix(p, Front(r))
  BY <1>7 DEF IsStrictPrefix
<1>9. Len(r) \in Nat /\ Len(Front(r)) <= Len(s)
  BY <1>1, <1>2, <1>5, <1>7
<1>10. Len(Front(r)) \in bad
  BY <1>7, <1>8, <1>9
<1>11. k <= Len(r) - 1
  BY <1>3, <1>7, <1>10
<1> QED BY <1>4, <1>9, <1>11

\* A directory something is below has an entry that is that or above it.
LEMMA ChildOf ==
    ASSUME NEW f, NEW n, Rooted(f, n), NEW s \in DOMAIN f, NEW p \in Seq(Names), IsStrictPrefix(p, s)
    PROVE  \E c \in Children(f, p) : IsPrefix(c, s)
<1>1. s \in Seq(Names) /\ Len(s) \in Nat /\ Len(p) \in Nat
  BY RootedIs
<1>2. Len(p) < Len(s) /\ \A i \in 1 .. Len(p) : p[i] = s[i]
  <2>1. IsPrefix(p, s) /\ p # s
    BY DEF IsStrictPrefix
  <2>2. Len(p) <= Len(s) /\ (Len(s) <= Len(p) => p = s)
    BY <1>1, <2>1, PrefixIs, PrefixSame
  <2>3. \A i \in 1 .. Len(p) : p[i] = s[i]
    BY <1>1, <2>1, PrefixIs
  <2> QED BY <1>1, <2>1, <2>2, <2>3
<1>3. PICK c : c = SubSeq(s, 1, Len(p) + 1)
  OBVIOUS
<1>4. c \in Seq(Names) /\ Len(c) = Len(p) + 1 /\ \A i \in 1 .. Len(p) + 1 : c[i] = s[i]
  BY <1>1, <1>2, <1>3
<1> HIDE <1>3
<1>5. IsPrefix(c, s)
  <2>1. Len(c) <= Len(s)
    BY <1>1, <1>2, <1>4
  <2> QED BY <1>1, <1>4, <2>1, PrefixIs
<1>6. IsStrictPrefix(p, c)
  <2>1. Len(p) <= Len(c) /\ Len(p) # Len(c)
    BY <1>1, <1>4
  <2>2. \A i \in 1 .. Len(p) : p[i] = c[i]
    BY <1>1, <1>2, <1>4
  <2>3. p # c
    BY <2>1
  <2> QED BY <1>4, <2>1, <2>2, <2>3, PrefixIs DEF IsStrictPrefix
<1>7. c \in DOMAIN f
  BY <1>4, <1>5, Ancestors DEF IsStrictPrefix
<1> QED BY <1>4, <1>5, <1>6, <1>7 DEF Children, Below

\* The entry of a directory, by its name
LEMMA ChildIs ==
    ASSUME NEW f, NEW n, Rooted(f, n), NEW p \in Seq(Names), NEW u \in Seq(Names), NEW c \in Children(f, p \o u)
    PROVE  /\ c \in DOMAIN f /\ c \in Seq(Names) /\ Len(c) = Len(p \o u) + 1 /\ IsStrictPrefix(p \o u, c)
           /\ Last(c) \in Names /\ Append(u, Last(c)) \in Seq(Names) /\ Len(Append(u, Last(c))) = Len(u) + 1
           /\ p \o Append(u, Last(c)) = c
<1> DEFINE q == p \o u
<1>1. q \in Seq(Names) /\ Len(q) = Len(p) + Len(u) /\ Len(p) \in Nat /\ Len(u) \in Nat /\ Len(q) \in Nat
  BY ConcatIs
<1>2. c \in DOMAIN f /\ c \in Seq(Names) /\ Len(c) = Len(q) + 1 /\ IsStrictPrefix(q, c)
  BY RootedIs DEF Children, Below
<1>3. Last(c) = c[Len(q) + 1] /\ Last(c) \in Names
  <2>1. Len(c) \in 1 .. Len(c)
    BY <1>1, <1>2
  <2> QED BY <1>2, <2>1, ElementOfSeq DEF Last
<1>4. PICK v : v = Append(u, Last(c))
  OBVIOUS
<1>5. v \in Seq(Names) /\ Len(v) = Len(u) + 1 /\ v[Len(u) + 1] = Last(c) /\ \A i \in 1 .. Len(u) : v[i] = u[i]
  BY <1>3, <1>4, AppendProperties
<1>6. /\ p \o v \in Seq(Names) /\ Len(p \o v) = Len(p) + Len(v)
      /\ \A i \in 1 .. Len(p) : (p \o v)[i] = p[i]
      /\ \A i \in 1 .. Len(v) : (p \o v)[Len(p) + i] = v[i]
  BY <1>5, ConcatIs
<1>7. /\ \A i \in 1 .. Len(p) : q[i] = p[i]
      /\ \A i \in 1 .. Len(u) : q[Len(p) + i] = u[i]
  BY ConcatIs
<1>8. \A i \in 1 .. Len(q) : q[i] = c[i]
  BY <1>1, <1>2, PrefixIs DEF IsStrictPrefix
<1> HIDE <1>4 DEF q
<1>9. Len(p \o v) = Len(c)
  BY <1>1, <1>2, <1>5, <1>6
<1>10. ASSUME NEW i \in 1 .. Len(c) PROVE (p \o v)[i] = c[i]
  <2>1. CASE i <= Len(p)
    <3>1. i \in 1 .. Len(p) /\ i \in 1 .. Len(q)
      BY <1>1, <1>10, <2>1
    <3> QED BY <1>6, <1>7, <1>8, <3>1
  <2>2. CASE ~(i <= Len(p))
    <3>1. PICK k : k = i - Len(p)
      OBVIOUS
    <3>2. k \in 1 .. Len(u) + 1 /\ Len(p) + k = i
      BY <1>1, <1>2, <1>10, <2>2, <3>1
    <3>3. (p \o v)[i] = v[k]
      BY <1>5, <1>6, <3>2
    <3>4. CASE k \in 1 .. Len(u)
      <4>1. i \in 1 .. Len(q)
        BY <1>1, <1>10, <3>2, <3>4
      <4>2. q[Len(p) + k] = u[k] /\ v[k] = u[k] /\ q[i] = c[i]
        BY <1>5, <1>7, <1>8, <3>4, <4>1
      <4> QED BY <3>2, <3>3, <4>2
    <3>5. CASE k = Len(u) + 1
      <4>1. i = Len(q) + 1
        BY <1>1, <3>2, <3>5
      <4> QED BY <1>3, <1>5, <3>3, <3>5, <4>1
    <3>6. \A l \in Nat : \A m \in 1 .. l + 1 : m \in 1 .. l \/ m = l + 1
      OBVIOUS
    <3> QED BY <1>1, <3>2, <3>4, <3>5, <3>6
  <2> QED BY <2>1, <2>2
<1>11. p \o v = c
  BY <1>2, <1>6, <1>9, <1>10, SeqEqual
<1> QED BY <1>2, <1>3, <1>4, <1>5, <1>11 DEF q

-----------------------------------------------------------------------------
(* What a call has done so far, when nobody disturbs it *)

Here(j) == From(j.home, j.request.path)
There(j) == From(j.home, j.request.other)
PrefixFrom(c, j) == From(c, [Target(j) EXCEPT !.names = SubSeq(@, 1, j.made + 1)])

\* fts_read tells of a place what is there.
Matches(f, e, s) == IF e.info = FTS_DP THEN KindIn(f, s) = "directory" ELSE e.info = Info[KindIn(f, s)]

\* Nothing is at p or below it.
Cleared(f, p) == \A s \in DOMAIN f : ~IsPrefix(p, s)

\* copy_file: what it read is what the source holds, and what it opened is the
\* target, which shares the contents of the source or leaves them.
Copying(j, f, d) ==
    LET p == Here(j)
        q == There(j)
    IN  /\ j.at = "read" => KindIn(f, p) \in {"file", "directory"} /\ j.file = f[p].file
        /\ j.at \in {"check", "create", "mkdir", "open"} => KindIn(f, p) = "file" /\ d[f[p].file] = j.contents
        /\ j.at = "write" =>
              /\ KindIn(f, p) = "file" /\ KindIn(f, q) = "file" /\ j.file = f[q].file
              /\ f[p].file = f[q].file \/ d[f[p].file] = j.contents

Named(f, p, kinds) == {u \in {SubSeq(s, Len(p) + 1, Len(s)) : s \in Children(f, p)} : f[p \o u].kind \in kinds}
Pending(todo, infos) == {e.under : e \in {v \in {todo[i] : i \in DOMAIN todo} : Len(v.under) = 1 /\ v.info \in infos}}

\* list: what it will visit is there, and with what it has found makes the
\* entries of the directory, once that has been visited.
Listing(todo, directories, files, f, p) ==
    /\ \A i \in DOMAIN todo : Matches(f, todo[i], p \o todo[i].under)
    /\ \/ todo = <<[under |-> <<>>, info |-> FTS_D]>> /\ directories = {} /\ files = {}
       \/ /\ \A i \in DOMAIN todo : todo[i].under = <<>> => todo[i].info = FTS_DP
          /\ directories \cup Pending(todo, {FTS_D, 3}) = Named(f, p, {"directory", "fifo"})
          /\ files \cup Pending(todo, {FTS_F, 10, 12}) = Named(f, p, {"file", "link"})

\* delete_directory of an absolute path: what it will visit is there, nothing
\* twice, what is below the directory is at or below some of it, and what is below
\* a directory that was read, at or below what comes before.
Clearing(todo, f, p) ==
    /\ \A i \in DOMAIN todo : Matches(f, todo[i], p \o todo[i].under)
    /\ \A i \in DOMAIN todo : todo[i].under = <<>> \/ p \o todo[i].under \in DOMAIN f
    /\ \A i, k \in DOMAIN todo : i < k => ~IsPrefix(p \o todo[i].under, p \o todo[k].under)
    /\ \A s \in DOMAIN f : IsPrefix(p, s) => \E i \in DOMAIN todo : IsPrefix(p \o todo[i].under, s)
    /\ \A i \in DOMAIN todo : todo[i].info = FTS_DP =>
           \A s \in DOMAIN f : IsStrictPrefix(p \o todo[i].under, s) =>
               \E k \in DOMAIN todo : k < i /\ IsPrefix(p \o todo[k].under, s)

\* delete_directory of a relative path, that is found from wherever the walk
\* stands: a directory with something in it keeps something in it.
Straying(todo, f, p, c, home) ==
    /\ todo = <<>> => Cleared(f, p)
    /\ \A i \in DOMAIN todo : todo[i].under = <<>> <=> i = Len(todo)
    /\ \A i \in DOMAIN todo : i = Len(todo) => Matches(f, todo[i], p)
    /\ Len(todo) > 1 => todo[Len(todo)].info = FTS_DP /\ IsPrefix(p, c) /\ Below(f, p) # {}
    /\ Len(todo) = 1 /\ todo[1].info # FTS_DP => c = home

Doing(j, f, d, c) ==
    /\ j.request.op = "create" /\ j.at = "mkdir" => KindIn(f, PrefixFrom(c, j)) # "directory"
    /\ j.request.op = "copy" => Copying(j, f, d)
    /\ j.request.op = "list" /\ j.at = "list" => j.directories = {} /\ j.files = {}
    /\ j.request.op = "list" /\ j.at = "walk" => Listing(j.todo, j.directories, j.files, f, Here(j))
    /\ j.request.op = "delete_directory" /\ ~j.request.path.relative => Clearing(j.todo, f, Here(j))
    /\ j.request.op = "delete_directory" /\ j.request.path.relative => Straying(j.todo, f, Here(j), c, j.home)

AInv == \A t \in Threads : job[t].at # "returned" /\ disturbed[t] = {} => Doing(job[t], tree, data, cwd)

\* The step of a thread either ends its call with its answer or brings it on.
Answers(t) ==
    IF job'[t].at = "returned"
    THEN Answer(job[t].request, job'[t], tree', data', Here(job[t]), There(job[t]))
    ELSE Doing(job'[t], tree', data', cwd')

LEMMA RootEntries ==
    ASSUME NEW f, NEW n, Rooted(f, n), NEW p \in Seq(Names), <<>> \in Seq(Names), p \o <<>> = p
    PROVE  \A c \in Children(f, p) : c \in Seq(Names) /\ Len(c) = Len(p) + 1 /\ p \o Append(<<>>, Last(c)) = c /\ Last(c) \in Names
<1>1. ASSUME NEW e \in Seq(Names), NEW c \in Children(f, p \o e)
      PROVE  /\ c \in DOMAIN f /\ c \in Seq(Names) /\ Len(c) = Len(p \o e) + 1
             /\ Last(c) \in Names /\ p \o Append(e, Last(c)) = c
  <2>1. c \in DOMAIN f /\ c \in Seq(Names) /\ Len(c) = Len(p \o e) + 1 /\ Last(c) \in Names
    BY <1>1, ChildIs
  <2>2. p \o Append(e, Last(c)) = c
    BY <1>1, ChildIs
  <2> QED BY <2>1, <2>2
<1>2. PICK e : e = <<>>
  OBVIOUS
<1>3. e \in Seq(Names) /\ p \o e = p
  BY <1>2, Zenon
<1>4. \A c \in Children(f, p \o e) : /\ c \in DOMAIN f /\ c \in Seq(Names) /\ Len(c) = Len(p \o e) + 1
                                      /\ Last(c) \in Names /\ p \o Append(e, Last(c)) = c
  BY <1>1, <1>3
<1>5. \A c \in Children(f, p) : c \in Seq(Names) /\ Len(c) = Len(p) + 1 /\ p \o Append(e, Last(c)) = c /\ Last(c) \in Names
  BY <1>3, <1>4, Zenon
<1> QED BY <1>2, <1>5, Zenon

\* The names of the entries of a directory
LEMMA NamedIs ==
    ASSUME NEW f, NEW n, Rooted(f, n), NEW p \in Seq(Names), NEW kinds
    PROVE  /\ Named(f, p, kinds) = {<<Last(c)>> : c \in {c \in Children(f, p) : f[c].kind \in kinds}}
           /\ \A c \in Children(f, p) : SubSeq(c, Len(p) + 1, Len(c)) = <<Last(c)>> /\ p \o <<Last(c)>> = c
<1>1. ASSUME NEW c \in Children(f, p)
      PROVE  SubSeq(c, Len(p) + 1, Len(c)) = <<Last(c)>> /\ p \o <<Last(c)>> = c
  <2>1. <<>> \in Seq(Names) /\ p \o <<>> = p
    BY EmptySeq, ConcatIs
  <2>3. /\ c \in Seq(Names) /\ Len(c) = Len(p) + 1 /\ p \o Append(<<>>, Last(c)) = c /\ Last(c) \in Names
    BY <2>1, RootEntries, Zenon
  <2>4. Append(<<>>, Last(c)) = <<Last(c)>>
    OBVIOUS
  <2>5. Len(p) \in Nat /\ Last(c) = c[Len(p) + 1]
    BY <2>3 DEF Last
  <2>6. PICK u : u = SubSeq(c, Len(p) + 1, Len(c))
    OBVIOUS
  <2>7. u \in Seq(Names) /\ Len(u) = 1 /\ u[1] = c[Len(p) + 1]
    BY <2>3, <2>5, <2>6
  <2>8. u = <<Last(c)>>
    <3>1. <<Last(c)>> \in Seq(Names) /\ Len(<<Last(c)>>) = 1 /\ <<Last(c)>>[1] = Last(c)
      BY <2>3
    <3>2. \A i \in 1 .. 1 : i = 1
      OBVIOUS
    <3> HIDE <2>6
    <3> QED BY <2>5, <2>7, <3>1, <3>2, SeqEqual
  <2> QED BY <2>3, <2>4, <2>6, <2>8
<1>2. Named(f, p, kinds) = {SubSeq(c, Len(p) + 1, Len(c)) : c \in {c \in Children(f, p) : f[p \o SubSeq(c, Len(p) + 1, Len(c))].kind \in kinds}}
  BY DEF Named
<1> QED BY <1>1, <1>2

\* A tree that holds the same serves as well.
LEMMA SameDoing ==
    ASSUME NEW f, NEW n, Rooted(f, n), NEW g, DOMAIN g = DOMAIN f, \A p \in DOMAIN f : g[p] = f[p],
           NEW j, NEW d, NEW c, Here(j) \in Seq(Names), Doing(j, f, d, c)
    PROVE  Doing(j, g, d, c)
<1>1. \A p : KindIn(g, p) = KindIn(f, p)
  BY DEF KindIn
<1>2. \A p : Below(g, p) = Below(f, p) /\ Children(g, p) = Children(f, p)
  BY DEF Below, Children
<1>3. Rooted(g, n)
  BY <1>1 DEF Rooted
<1>4. \A e, s : Matches(g, e, s) <=> Matches(f, e, s)
  BY <1>1 DEF Matches
<1>5. \A kinds : Named(g, Here(j), kinds) = Named(f, Here(j), kinds)
  <2> SUFFICES ASSUME NEW kinds PROVE Named(g, Here(j), kinds) = Named(f, Here(j), kinds)
    OBVIOUS
  <2>1. \A s \in Children(f, Here(j)) : g[s] = f[s]
    BY DEF Children, Below
  <2>2. /\ Named(f, Here(j), kinds) = {<<Last(s)>> : s \in {s \in Children(f, Here(j)) : f[s].kind \in kinds}}
        /\ Named(g, Here(j), kinds) = {<<Last(s)>> : s \in {s \in Children(g, Here(j)) : g[s].kind \in kinds}}
    BY <1>3, NamedIs
  <2> QED BY <1>2, <2>1, <2>2
<1>6. Copying(j, f, d) => Copying(j, g, d)
  <2>1. \A p : KindIn(f, p) \in {"file", "directory"} => g[p].file = f[p].file
    BY DEF KindIn
  <2>2. \A p : KindIn(f, p) = "file" => g[p].file = f[p].file
    BY <2>1
  <2>3. ASSUME NEW p, NEW q, KindIn(f, p) = "file", KindIn(f, q) = "file"
        PROVE  g[p].file = f[p].file /\ g[q].file = f[q].file
    BY <2>2, <2>3
  <2> SUFFICES ASSUME Copying(j, f, d) PROVE Copying(j, g, d)
    OBVIOUS
  <2>4. j.at = "read" => KindIn(g, Here(j)) \in {"file", "directory"} /\ j.file = g[Here(j)].file
    BY <1>1, <2>1 DEF Copying
  <2>5. j.at \in {"check", "create", "mkdir", "open"} => KindIn(g, Here(j)) = "file" /\ d[g[Here(j)].file] = j.contents
    BY <1>1, <2>2 DEF Copying
  <2>6. j.at = "write" => /\ KindIn(g, Here(j)) = "file" /\ KindIn(g, There(j)) = "file" /\ j.file = g[There(j)].file
                          /\ g[Here(j)].file = g[There(j)].file \/ d[g[Here(j)].file] = j.contents
    BY <1>1, <2>3 DEF Copying
  <2> QED BY <2>4, <2>5, <2>6 DEF Copying
<1>7. Listing(j.todo, j.directories, j.files, f, Here(j)) => Listing(j.todo, j.directories, j.files, g, Here(j))
  BY <1>4, <1>5, Zenon DEF Listing
<1>8. Clearing(j.todo, f, Here(j)) => Clearing(j.todo, g, Here(j))
  BY <1>4, Zenon DEF Clearing
<1>9. Straying(j.todo, f, Here(j), c, j.home) => Straying(j.todo, g, Here(j), c, j.home)
  BY <1>2, <1>4, Zenon DEF Straying, Cleared
<1> QED BY <1>1, <1>6, <1>7, <1>8, <1>9, Zenon DEF Doing

\* Where a call that does not walk began
LEMMA AtHere ==
    ASSUME FInv, TInv, NEW t \in Threads, job[t].at \notin {"returned", "walk"}, disturbed[t] = {}
    PROVE  /\ job[t].home = cwd
           /\ Here(job[t]) = At(job[t].request.path) /\ There(job[t]) = At(job[t].request.other)
           /\ PrefixFrom(cwd, job[t]) = Prefix(job[t])
           /\ Here(job[t]) \in Seq(Names) \ {<<>>} /\ There(job[t]) \in Seq(Names) \ {<<>>}
<1>1. job[t].home = cwd
  BY DEF FInv, Undisturbed
<1>2. cwd \in Seq(Names) /\ <<>> \in Seq(Names)
  BY EmptySeq DEF TInv
<1>3. ASSUME NEW path \in Paths PROVE From(cwd, path) \in Seq(Names) \ {<<>>}
  <2>1. path.names \in Seq(Names) /\ path.names # <<>>
    BY DEF Paths
  <2>2. \A base \in Seq(Names) : base \o path.names \in Seq(Names) \ {<<>>}
    BY <2>1, ConcatIs
  <2> QED BY <1>2, <2>2 DEF From
<1>4. job[t].request.path \in Paths /\ job[t].request.other \in Paths
  BY JobIs
<1> QED BY <1>1, <1>3, <1>4 DEF Here, There, At, Prefix, PrefixFrom

\* A search for the directory of a file carries on what was read.
LEMMA DoingSearch ==
    ASSUME NEW k, NEW f, NEW d, NEW c, k.at \in {"check", "create", "mkdir", "open"},
           k.request.op \in {"create", "open", "copy"},
           k.request.op = "create" /\ k.at = "mkdir" => KindIn(f, PrefixFrom(c, k)) # "directory",
           k.request.op = "copy" => KindIn(f, Here(k)) = "file" /\ d[f[Here(k)].file] = k.contents
    PROVE  Doing(k, f, d, c)
BY DEF Doing, Copying

\* What a step that goes on leaves of a call
Carries(j, k) ==
    /\ k.request = j.request /\ k.home = j.home /\ k.contents = j.contents
    /\ k.directories = j.directories /\ k.files = j.files /\ k.todo = j.todo

\* A search that goes on or comes to its end
LEMMA SearchIs ==
    ASSUME FInv, NEW t \in Threads, job[t].at \in {"create", "mkdir"}, Advanced(t) \/ \E ok : Created(t, ok)
    PROVE  \/ job[t].request.op = "create" /\ job'[t].at = "returned"
           \/ job'[t].at \in {"create", "open"} /\ Carries(job[t], job'[t])
<1>0. DOMAIN job[t] = Fields
  BY JobIs
<1>1. ASSUME NEW ok, Created(t, ok)
      PROVE  \/ job[t].request.op = "create" /\ job'[t].at = "returned"
             \/ job'[t].at = "open" /\ Carries(job[t], job'[t])
  <2>1. CASE job[t].request.op = "create"
    BY <1>1, <2>1, ReturnIs DEF Created
  <2>2. CASE job[t].request.op # "create"
    <3>1. PICK k : k = [job[t] EXCEPT !.at = "open", !.made = 0]
      OBVIOUS
    <3>2. Goto(t, k)
      BY <1>1, <2>2, <3>1, Zenon DEF Created
    <3>3. k.at = "open" /\ Carries(job[t], k)
      BY <1>0, <3>1, Zenon DEF Fields, Carries
    <3> QED BY <3>2, <3>3, GotoIs
  <2> QED BY <2>1, <2>2
<1>2. CASE \E ok : Created(t, ok)
  BY <1>1, <1>2
<1>3. CASE Goto(t, [job[t] EXCEPT !.at = "create", !.made = @ + 1])
  <2>1. PICK k : k = [job[t] EXCEPT !.at = "create", !.made = job[t].made + 1]
    OBVIOUS
  <2>2. Goto(t, k)
    BY <1>3, <2>1, Zenon
  <2>3. k.at = "create" /\ Carries(job[t], k)
    BY <1>0, <2>1, Zenon DEF Fields, Carries
  <2> QED BY <2>2, <2>3, GotoIs
<1> QED BY <1>2, <1>3, Zenon DEF Advanced

LEMMA SearchEnds ==
    ASSUME FInv, NEW t \in Threads, job[t].at \in {"create", "mkdir"}, Advanced(t) \/ Created(t, TRUE)
    PROVE  \/ job[t].request.op = "create" /\ job'[t].at = "returned" /\ job'[t].result = TRUE
           \/ job'[t].at \in {"create", "open"} /\ Carries(job[t], job'[t])
<1>1. ASSUME Created(t, TRUE), job[t].request.op = "create"
      PROVE  job'[t].result = TRUE
  BY <1>1, ReturnIs DEF Created
<1>2. CASE Created(t, TRUE)
  BY <1>1, <1>2, SearchIs DEF Carries
<1>3. CASE Goto(t, [job[t] EXCEPT !.at = "create", !.made = @ + 1])
  <2>0. DOMAIN job[t] = Fields
    BY JobIs
  <2>1. PICK k : k = [job[t] EXCEPT !.at = "create", !.made = job[t].made + 1]
    OBVIOUS
  <2>2. Goto(t, k)
    BY <1>3, <2>1, Zenon
  <2>3. k.at = "create" /\ Carries(job[t], k)
    BY <2>0, <2>1, Zenon DEF Fields, Carries
  <2> QED BY <2>2, <2>3, GotoIs
<1> QED BY <1>2, <1>3, Zenon DEF Advanced

\* A search that goes on with what was read still there
LEMMA SearchDoing ==
    ASSUME FInv, NEW t \in Threads, job[t].at \in {"check", "create", "mkdir", "open"},
           Doing(job[t], tree, data, cwd), job[t].request.op \in {"create", "open", "copy"},
           job'[t].at \in {"check", "create", "mkdir", "open"}, Carries(job[t], job'[t]),
           data' = data,
           KindIn(tree, Here(job[t])) = "file" =>
               KindIn(tree', Here(job[t])) = "file" /\ tree'[Here(job[t])].file = tree[Here(job[t])].file,
           job[t].request.op = "create" /\ job'[t].at = "mkdir" => KindIn(tree', PrefixFrom(cwd', job'[t])) # "directory"
    PROVE  Doing(job'[t], tree', data', cwd')
<1>1. PICK j, k : j = job[t] /\ k = job'[t]
  OBVIOUS
<1>2. k.request = j.request /\ k.contents = j.contents /\ k.home = j.home
  BY <1>1, Zenon DEF Carries
<1>3. Here(k) = Here(j)
  BY <1>2 DEF Here
<1>4. j.request.op = "copy" => KindIn(tree, Here(j)) = "file" /\ data[tree[Here(j)].file] = j.contents
  BY <1>1 DEF Doing, Copying
<1>5. k.request.op = "copy" => KindIn(tree', Here(k)) = "file" /\ data'[tree'[Here(k)].file] = k.contents
  BY <1>1, <1>2, <1>3, <1>4
<1>6. Doing(k, tree', data', cwd')
  BY <1>1, <1>2, <1>5, DoingSearch
<1> QED BY <1>1, <1>6

LEMMA CheckPrefixAnswers ==
    ASSUME FInv, TInv, NEW t \in Threads, disturbed[t] = {}, Doing(job[t], tree, data, cwd), CheckPrefix(t)
    PROVE  Answers(t)
<1>1. job[t].at = "create" /\ UNCHANGED <<tree, data, cwd>>
  BY DEF CheckPrefix, Same
<1>2. job[t].request.op \in {"create", "open", "copy"}
  BY <1>1, JobIs, StagesOf
<1>3. Here(job[t]) = At(job[t].request.path) /\ PrefixFrom(cwd, job[t]) = Prefix(job[t])
  BY <1>1, AtHere
<1>4. CASE Advanced(t) \/ Created(t, TRUE)
  <2>1. CASE job[t].request.op = "create" /\ job'[t].at = "returned" /\ job'[t].result = TRUE
    <3>1. Step(t) /\ Returns(t) /\ job'[t].result
      BY <1>1, <2>1 DEF Step, Returns
    <3>2. KindIn(tree', Here(job[t])) = "directory"
      BY <1>3, <2>1, <3>1, CreateReturns
    <3> QED BY <2>1, <3>2, Zenon DEF Answers, Answer
  <2>2. CASE job'[t].at \in {"create", "open"} /\ Carries(job[t], job'[t])
    <3>1. Doing(job'[t], tree', data', cwd')
      BY <1>1, <1>2, <2>2, SearchDoing
    <3> QED BY <2>2, <3>1 DEF Answers
  <2> QED BY <1>1, <1>4, <2>1, <2>2, SearchEnds
<1>5. CASE ~Directory(Prefix(job[t])) /\ Goto(t, [job[t] EXCEPT !.at = "mkdir"])
  <2>0. DOMAIN job[t] = Fields
    BY JobIs
  <2>1. PICK k : k = [job[t] EXCEPT !.at = "mkdir"]
    OBVIOUS
  <2>2. Goto(t, k)
    BY <1>5, <2>1, Zenon
  <2>3. k.at = "mkdir" /\ Carries(job[t], k) /\ k.made = job[t].made
    BY <2>0, <2>1, Zenon DEF Fields, Carries
  <2>4. job'[t] = k
    BY <2>2, GotoIs
  <2>5. PrefixFrom(cwd, k) = Prefix(job[t])
    BY <1>3, <2>3, Zenon DEF PrefixFrom, Target, Carries
  <2>6. KindIn(tree', PrefixFrom(cwd', job'[t])) # "directory"
    BY <1>1, <1>5, <2>4, <2>5 DEF Directory, Kind
  <2> HIDE <1>5, <2>1
  <2>7. Doing(job'[t], tree', data', cwd')
    BY <1>1, <1>2, <2>3, <2>4, <2>6, SearchDoing
  <2> QED BY <2>3, <2>4, <2>7 DEF Answers
<1> QED BY <1>4, <1>5, Zenon DEF CheckPrefix

\* The directory create_directory is at is that of its path or above it.
LEMMA PrefixAbove ==
    ASSUME FInv, TInv, NEW t \in Threads, job[t].at = "mkdir", job[t].request.op = "create"
    PROVE  /\ Prefix(job[t]) \in Seq(Names) /\ At(job[t].request.path) \in Seq(Names)
           /\ IsPrefix(Prefix(job[t]), At(job[t].request.path))
<1>1. PICK path, m : path = job[t].request.path /\ m = job[t].made
  OBVIOUS
<1>2. path \in Paths /\ path.names \in Seq(Names) /\ m \in Nat /\ m < Len(path.names) /\ Target(job[t]) = path
  BY <1>1, JobIs DEF Target
<1>3. PICK part : part = [path EXCEPT !.names = SubSeq(path.names, 1, m + 1)]
  OBVIOUS
<1>4. part.names = SubSeq(path.names, 1, m + 1) /\ part.relative = path.relative
  BY <1>2, <1>3 DEF Paths
<1>5. Prefix(job[t]) = At(part)
  BY <1>1, <1>2, <1>3, Zenon DEF Prefix
<1>6. PICK base : base = IF path.relative THEN cwd ELSE <<>>
  OBVIOUS
<1>7. base \in Seq(Names)
  BY <1>6, EmptySeq DEF TInv
<1>8. Prefix(job[t]) = base \o part.names /\ At(path) = base \o path.names
  BY <1>4, <1>5, <1>6, Zenon DEF At, From
<1> HIDE <1>3, <1>6
<1>9. PICK u : u = part.names
  OBVIOUS
<1>10. u \in Seq(Names) /\ Len(u) = m + 1 /\ \A i \in 1 .. m + 1 : u[i] = path.names[i]
  BY <1>2, <1>4, <1>9
<1>11. PICK w : w = path.names
  OBVIOUS
<1>12. w \in Seq(Names) /\ Len(w) \in Nat /\ m + 1 <= Len(w) /\ \A i \in 1 .. m + 1 : u[i] = w[i]
  BY <1>2, <1>10, <1>11
<1> HIDE <1>9, <1>11, <1>4
<1>13. /\ base \o u \in Seq(Names) /\ Len(base \o u) = Len(base) + Len(u) /\ Len(base) \in Nat
       /\ \A i \in 1 .. Len(base) : (base \o u)[i] = base[i]
       /\ \A i \in 1 .. Len(u) : (base \o u)[Len(base) + i] = u[i]
  BY <1>7, <1>10, ConcatIs
<1>14. /\ base \o w \in Seq(Names) /\ Len(base \o w) = Len(base) + Len(w)
       /\ \A i \in 1 .. Len(base) : (base \o w)[i] = base[i]
       /\ \A i \in 1 .. Len(w) : (base \o w)[Len(base) + i] = w[i]
  BY <1>7, <1>12, ConcatIs
<1>15. PICK a, b : a = base \o u /\ b = base \o w
  OBVIOUS
<1>16. Len(a) <= Len(b) /\ a \in Seq(Names) /\ b \in Seq(Names)
  BY <1>2, <1>10, <1>12, <1>13, <1>14, <1>15
<1>17. ASSUME NEW i \in 1 .. Len(a) PROVE a[i] = b[i]
  <2>1. CASE i <= Len(base)
    BY <1>13, <1>14, <1>15, <2>1
  <2>2. CASE ~(i <= Len(base))
    <3>1. PICK k : k = i - Len(base)
      OBVIOUS
    <3>2. k \in 1 .. m + 1 /\ k \in 1 .. Len(u) /\ k \in 1 .. Len(w) /\ Len(base) + k = i
      <4>1. Len(a) = Len(base) + m + 1
        BY <1>2, <1>10, <1>13, <1>15
      <4> QED BY <1>2, <1>10, <1>12, <1>13, <1>17, <2>2, <3>1, <4>1
    <3>3. a[Len(base) + k] = u[k] /\ b[Len(base) + k] = w[k] /\ u[k] = w[k]
      BY <1>12, <1>13, <1>14, <1>15, <3>2
    <3> QED BY <3>2, <3>3
  <2> QED BY <2>1, <2>2
<1>18. IsPrefix(a, b)
  BY <1>16, <1>17, PrefixIs
<1>19. a = Prefix(job[t]) /\ b = At(job[t].request.path)
  BY <1>1, <1>8, <1>9, <1>11, <1>15, Zenon
<1> QED BY <1>16, <1>18, <1>19, Zenon

LEMMA MakeDirectoryAnswers ==
    ASSUME FInv, TInv, NEW t \in Threads, disturbed[t] = {}, Doing(job[t], tree, data, cwd), MakeDirectory(t)
    PROVE  Answers(t)
<1> DEFINE d == Prefix(job[t])
<1>1. job[t].at = "mkdir" /\ UNCHANGED <<data, cwd>>
  BY DEF MakeDirectory
<1>2. job[t].request.op \in {"create", "open", "copy"}
  BY <1>1, JobIs, StagesOf
<1>3. Here(job[t]) = At(job[t].request.path) /\ PrefixFrom(cwd, job[t]) = d
  BY <1>1, AtHere
<1>4. \/ Kind(d) = "none" /\ tree' = Made(d, Entry("directory", 0)) /\ Advanced(t)
      \/ tree' = tree /\ Created(t, FALSE)
  BY Zenon DEF MakeDirectory, Refused
<1>5. KindIn(tree, Here(job[t])) = "file" =>
          KindIn(tree', Here(job[t])) = "file" /\ tree'[Here(job[t])].file = tree[Here(job[t])].file
  BY <1>4 DEF Made, Kind, KindIn
<1>6. ASSUME job'[t].at \in {"create", "open"}, Carries(job[t], job'[t])
      PROVE  Answers(t)
  <2>1. Doing(job'[t], tree', data', cwd')
    BY <1>1, <1>2, <1>5, <1>6, SearchDoing
  <2> QED BY <1>6, <2>1 DEF Answers
<1>7. CASE Advanced(t)
  <2>1. CASE job[t].request.op = "create" /\ job'[t].at = "returned" /\ job'[t].result = TRUE
    <3>1. Step(t) /\ Returns(t) /\ job'[t].result
      BY <1>1, <2>1 DEF Step, Returns
    <3>2. KindIn(tree', Here(job[t])) = "directory"
      BY <1>3, <2>1, <3>1, CreateReturns
    <3> QED BY <2>1, <3>2, Zenon DEF Answers, Answer
  <2> QED BY <1>1, <1>6, <1>7, <2>1, SearchEnds
<1>8. CASE tree' = tree /\ Created(t, FALSE)
  <2>1. CASE job[t].request.op = "create"
    <3>1. job'[t].at = "returned" /\ job'[t].result = FALSE
      BY <1>8, <2>1, ReturnIs DEF Created
    <3>2. KindIn(tree, d) # "directory"
      BY <1>1, <1>3, <2>1 DEF Doing
    <3>3. KindIn(tree, Here(job[t])) # "directory"
      <4> SUFFICES ASSUME KindIn(tree, Here(job[t])) = "directory" PROVE FALSE
        OBVIOUS
      <4>1. d \in Seq(Names) /\ IsPrefix(d, Here(job[t])) /\ Here(job[t]) \in DOMAIN tree
        BY <1>1, <1>3, <2>1, PrefixAbove DEF KindIn
      <4>2. Rooted(tree, Len(data))
        BY DEF TInv, TreeTyped
      <4>3. d # Here(job[t])
        BY <3>2
      <4> HIDE DEF d
      <4>4. d \in DOMAIN tree /\ tree[d].kind = "directory"
        BY <4>1, <4>2, <4>3, Ancestors DEF IsStrictPrefix
      <4> QED BY <3>2, <4>4 DEF KindIn
    <3> QED BY <1>8, <2>1, <3>1, <3>3, Zenon DEF Answers, Answer
  <2> QED BY <1>1, <1>6, <1>8, <2>1, SearchIs, Zenon
<1> QED BY <1>4, <1>7, <1>8, Zenon

LEMMA CheckTargetAnswers ==
    ASSUME FInv, TInv, NEW t \in Threads, disturbed[t] = {}, Doing(job[t], tree, data, cwd), CheckTarget(t)
    PROVE  Answers(t)
<1>1. job[t].at = "check" /\ UNCHANGED <<tree, data, cwd>>
  BY DEF CheckTarget, Same
<1>2. job[t].request.op \in {"open", "copy"}
  BY <1>1, JobIs, StagesOf
<1>3. PICK a \in {"open", "create"} : Goto(t, [job[t] EXCEPT !.at = a])
  BY Zenon DEF CheckTarget
<1>4. PICK k : k = [job[t] EXCEPT !.at = a]
  OBVIOUS
<1>5. DOMAIN job[t] = Fields
  BY JobIs
<1>6. k.at = a /\ Carries(job[t], k)
  BY <1>4, <1>5, Zenon DEF Fields, Carries
<1>7. job'[t] = k
  BY <1>3, <1>4, GotoIs
<1> HIDE <1>3, <1>4
<1>8. job'[t].at \in {"create", "open"} /\ Carries(job[t], job'[t])
  BY <1>6, <1>7
<1>9. Doing(job'[t], tree', data', cwd')
  BY <1>1, <1>2, <1>8, SearchDoing
<1> QED BY <1>8, <1>9 DEF Answers

LEMMA OpenAnswers ==
    ASSUME FInv, TInv, NEW t \in Threads, disturbed[t] = {}, Doing(job[t], tree, data, cwd), Open(t)
    PROVE  Answers(t)
<1> DEFINE q == At(Target(job[t]))
           n == Number(q)
           p == Here(job[t])
<1>1. job[t].at = "open" /\ UNCHANGED <<cwd>>
  BY DEF Open
<1>2. job[t].request.op \in {"open", "copy"}
  BY <1>1, JobIs, StagesOf
<1>3. p = At(job[t].request.path) /\ There(job[t]) = At(job[t].request.other) /\ p # <<>>
  BY <1>1, AtHere
<1>4. q = IF job[t].request.op = "copy" THEN There(job[t]) ELSE p
  BY <1>3 DEF Target
<1>5. Rooted(tree, Len(data)) /\ Len(data) \in Nat /\ DOMAIN data = 1 .. Len(data)
  BY LenProperties DEF TInv, TreeTyped
<1>6. CASE Opens(q)
  <2>1. tree' = Made(q, Entry("file", n)) /\ data' = [i \in DOMAIN data \cup {n} |-> IF i = n THEN "empty" ELSE data[i]]
    BY <1>6, Zenon DEF Open
  <2>2. /\ DOMAIN tree' = DOMAIN tree \cup {q} /\ tree'[q].kind = "file" /\ tree'[q].file = n
        /\ \A r \in DOMAIN tree \ {q} : tree'[r] = tree[r]
    BY <2>1 DEF Made, Entry
  <2>3. data'[n] = "empty" /\ \A i \in DOMAIN data \ {n} : data'[i] = data[i]
    BY <2>1
  <2> HIDE DEF q, n, p
  <2>4. KindIn(tree', q) = "file"
    BY <2>2 DEF KindIn
  <2>5. CASE job[t].request.op = "open"
    <3>1. Return(t, TRUE)
      BY <1>6, <2>5, Zenon DEF Open, q
    <3>2. job'[t].at = "returned" /\ job'[t].result = TRUE
      BY <3>1, ReturnIs
    <3>3. q = p /\ data'[tree'[q].file] = "empty"
      BY <1>4, <2>2, <2>3, <2>5
    <3> QED BY <2>4, <2>5, <3>2, <3>3, Zenon DEF Answers, Answer, p
  <2>6. CASE job[t].request.op = "copy"
    <3>1. Goto(t, [job[t] EXCEPT !.at = "write", !.file = n])
      BY <1>6, <2>6, Zenon DEF Open, q, n
    <3>2. PICK k : k = [job[t] EXCEPT !.at = "write", !.file = n]
      OBVIOUS
    <3>3. DOMAIN job[t] = Fields
      BY JobIs
    <3>4. k.at = "write" /\ k.file = n /\ Carries(job[t], k)
      BY <3>2, <3>3, Zenon DEF Fields, Carries
    <3>5. job'[t] = k
      BY <3>1, <3>2, GotoIs
    <3> HIDE <3>1, <3>2
    <3>6. KindIn(tree, p) = "file" /\ data[tree[p].file] = job[t].contents
      BY <1>1, <2>6 DEF Doing, Copying, p
    <3>7. Here(k) = p /\ There(k) = q /\ k.contents = job[t].contents /\ k.request.op = "copy"
      BY <1>4, <2>6, <3>4 DEF Here, There, Carries, p
    <3>8. KindIn(tree', p) = "file" /\ (tree'[p].file = n \/ data'[tree'[p].file] = data[tree[p].file])
      <4>1. CASE p = q
        BY <2>2, <2>4, <4>1
      <4>2. CASE p # q
        <5>1. p \in DOMAIN tree
          BY <3>6 DEF KindIn
        <5>2. tree'[p] = tree[p] /\ KindIn(tree', p) = "file"
          BY <2>2, <3>6, <4>2, <5>1 DEF KindIn
        <5>3. tree[p].file \in DOMAIN data
          BY <1>5, <3>6, <5>1, RootedIs DEF KindIn
        <5> QED BY <2>3, <5>2, <5>3
      <4> QED BY <4>1, <4>2
    <3>9. Copying(k, tree', data')
      BY <2>2, <2>4, <3>4, <3>6, <3>7, <3>8 DEF Copying
    <3>10. Doing(k, tree', data', cwd')
      BY <3>4, <3>7, <3>9 DEF Doing
    <3> QED BY <3>4, <3>5, <3>10 DEF Answers
  <2> QED BY <1>2, <2>5, <2>6
<1>7. CASE ~Opens(q) /\ UNCHANGED <<tree, data, descriptors>> /\ Return(t, FALSE)
  <2>1. job'[t].at = "returned" /\ job'[t].result = FALSE
    BY <1>7, ReturnIs
  <2>2. CASE job[t].request.op = "copy"
    BY <2>1, <2>2, Zenon DEF Answers, Answer
  <2>3. CASE job[t].request.op = "open"
    <3>1. q = p
      BY <1>4, <2>3
    <3>2. ASSUME KindIn(tree, p) = "file" PROVE descriptors = MaxOpen
      <4>1. p \in DOMAIN tree /\ Kind(p) = "file"
        BY <3>2 DEF KindIn, Kind
      <4>2. CanHold(p)
        <5>1. Front(p) \in DOMAIN tree /\ tree[Front(p)].kind = "directory"
          BY <1>3, <1>5, <4>1, RootedIs
        <5> QED BY <1>3, <5>1 DEF CanHold, Kind, KindIn
      <4>3. ~(descriptors < MaxOpen)
        BY <1>7, <3>1, <4>1, <4>2 DEF Opens
      <4>4. descriptors \in 0 .. MaxOpen
        BY DEF TInv, OpenTyped
      <4> QED BY <4>3, <4>4, MaxOpenOK
    <3>3. KindIn(tree', p) # "file" \/ descriptors = MaxOpen
      BY <1>7, <3>2
    <3> QED BY <2>1, <2>3, <3>3, Zenon DEF Answers, Answer
  <2> QED BY <1>2, <2>2, <2>3
<1> QED BY <1>6, <1>7, Zenon DEF Open

LEMMA OpenSourceAnswers ==
    ASSUME FInv, TInv, NEW t \in Threads, disturbed[t] = {}, Doing(job[t], tree, data, cwd), OpenSource(t)
    PROVE  Answers(t)
<1> DEFINE p == At(job[t].request.path)
<1>1. job[t].at = "source" /\ UNCHANGED <<tree, data, cwd>>
  BY DEF OpenSource
<1>2. job[t].request.op = "copy" /\ Here(job[t]) = p
  BY <1>1, JobIs, StagesOf, AtHere
<1>3. CASE Return(t, FALSE)
  <2>1. job'[t].at = "returned" /\ job'[t].result = FALSE
    BY <1>3, ReturnIs
  <2> QED BY <1>2, <2>1, Zenon DEF Answers, Answer
<1>4. CASE Kind(p) \in {"file", "directory"} /\ Goto(t, [job[t] EXCEPT !.at = "read", !.file = tree[p].file])
  <2>1. PICK k : k = [job[t] EXCEPT !.at = "read", !.file = tree[p].file]
    OBVIOUS
  <2>2. DOMAIN job[t] = Fields
    BY JobIs
  <2>3. k.at = "read" /\ k.file = tree[p].file /\ Carries(job[t], k)
    BY <2>1, <2>2, Zenon DEF Fields, Carries
  <2>4. job'[t] = k
    BY <1>4, <2>1, GotoIs
  <2>5. Kind(p) \in {"file", "directory"}
    BY <1>4
  <2> HIDE <1>4, <2>1
  <2>6. Here(k) = p /\ k.request.op = "copy"
    BY <1>2, <2>3 DEF Here, Carries
  <2> HIDE DEF p
  <2>7. Copying(k, tree', data')
    BY <1>1, <2>3, <2>5, <2>6 DEF Copying, Kind
  <2>8. Doing(k, tree', data', cwd')
    BY <2>3, <2>6, <2>7 DEF Doing
  <2> QED BY <2>3, <2>4, <2>8 DEF Answers
<1> QED BY <1>3, <1>4, Zenon DEF OpenSource

LEMMA ReadSourceAnswers ==
    ASSUME FInv, TInv, NEW t \in Threads, disturbed[t] = {}, Doing(job[t], tree, data, cwd), ReadSource(t)
    PROVE  Answers(t)
<1> DEFINE p == Here(job[t])
<1>1. job[t].at = "read" /\ UNCHANGED <<tree, data, cwd>>
  BY DEF ReadSource, Same
<1>2. job[t].request.op = "copy"
  BY <1>1, JobIs, StagesOf
<1>3. CASE Return(t, FALSE)
  <2>1. job'[t].at = "returned" /\ job'[t].result = FALSE
    BY <1>3, ReturnIs
  <2> QED BY <1>2, <2>1, Zenon DEF Answers, Answer
<1>4. CASE job[t].file # 0 /\ Goto(t, [job[t] EXCEPT !.at = "check", !.contents = data[job[t].file], !.file = 0])
  <2>1. PICK k : k = [job[t] EXCEPT !.at = "check", !.contents = data[job[t].file], !.file = 0]
    OBVIOUS
  <2>2. DOMAIN job[t] = Fields
    BY JobIs
  <2>3. k.at = "check" /\ k.contents = data[job[t].file] /\ k.request = job[t].request /\ k.home = job[t].home
    BY <2>1, <2>2, Zenon DEF Fields
  <2>4. job'[t] = k
    BY <1>4, <2>1, GotoIs
  <2>5. job[t].file # 0
    BY <1>4
  <2> HIDE <1>4, <2>1
  <2>6. Here(k) = p /\ k.request.op = "copy"
    BY <1>2, <2>3 DEF Here
  <2>7. KindIn(tree, p) \in {"file", "directory"} /\ job[t].file = tree[p].file
    BY <1>1, <1>2 DEF Doing, Copying
  <2>8. KindIn(tree, p) = "file"
    <3>1. Rooted(tree, Len(data)) /\ p \in DOMAIN tree
      BY <2>7 DEF TInv, TreeTyped, KindIn
    <3> QED BY <2>5, <2>7, <3>1, RootedIs DEF KindIn
  <2> HIDE DEF p
  <2>9. Doing(k, tree', data', cwd')
    BY <1>1, <2>3, <2>6, <2>7, <2>8, DoingSearch
  <2> QED BY <2>3, <2>4, <2>9 DEF Answers
<1> QED BY <1>3, <1>4, Zenon DEF ReadSource

LEMMA WriteTargetAnswers ==
    ASSUME FInv, TInv, NEW t \in Threads, disturbed[t] = {}, Doing(job[t], tree, data, cwd), WriteTarget(t)
    PROVE  Answers(t)
<1> DEFINE p == Here(job[t])
           q == There(job[t])
<1>1. job[t].at = "write" /\ UNCHANGED <<tree, cwd>>
  BY DEF WriteTarget
<1>2. job[t].request.op = "copy"
  BY <1>1, JobIs, StagesOf
<1>3. PICK whole \in BOOLEAN :
          /\ data' = [data EXCEPT ![job[t].file] = IF whole THEN job[t].contents ELSE "part"]
          /\ Return(t, whole)
  BY DEF WriteTarget, Written
<1>4. job'[t].at = "returned" /\ job'[t].result = whole
  BY <1>3, ReturnIs
<1>5. /\ KindIn(tree, p) = "file" /\ KindIn(tree, q) = "file" /\ job[t].file = tree[q].file
      /\ tree[p].file = tree[q].file \/ data[tree[p].file] = job[t].contents
  BY <1>1, <1>2 DEF Doing, Copying
<1>6. tree[p].file \in DOMAIN data /\ tree[q].file \in DOMAIN data
  <2>1. Rooted(tree, Len(data)) /\ p \in DOMAIN tree /\ q \in DOMAIN tree /\ DOMAIN data = 1 .. Len(data)
    BY <1>5, LenProperties DEF TInv, TreeTyped, KindIn
  <2> HIDE DEF p, q
  <2> QED BY <1>5, <2>1, RootedIs DEF KindIn
<1> HIDE DEF p, q
<1>7. whole => data'[tree[q].file] = job[t].contents /\ data'[tree[p].file] = job[t].contents
  BY <1>3, <1>5, <1>6
<1>8. job'[t].result => /\ KindIn(tree', p) = "file" /\ KindIn(tree', q) = "file"
                        /\ data'[tree'[p].file] = data'[tree'[q].file]
  BY <1>1, <1>4, <1>5, <1>7
<1> QED BY <1>2, <1>4, <1>8, Zenon DEF Answers, Answer, p, q

LEMMA DeleteFileAnswers ==
    ASSUME FInv, TInv, NEW t \in Threads, disturbed[t] = {}, Doing(job[t], tree, data, cwd), DeleteFile(t)
    PROVE  Answers(t)
<1> DEFINE p == Here(job[t])
<1>1. job[t].at = "remove"
  BY DEF DeleteFile
<1>2. job[t].request.op = "delete_file" /\ p = At(job[t].request.path) /\ p # <<>>
  BY <1>1, JobIs, StagesOf, AtHere
<1>3. tree' = (IF Unlink(p) THEN Removed(p) ELSE tree) /\ Return(t, Unlink(p))
  BY <1>2, Zenon DEF DeleteFile
<1>4. job'[t].at = "returned" /\ job'[t].result = Unlink(p)
  BY <1>3, ReturnIs
<1>5. Unlink(p) => p \notin DOMAIN tree'
  BY <1>3 DEF Removed
<1>6. ~Unlink(p) => tree' = tree /\ (p \notin DOMAIN tree \/ Below(tree, p) # {})
  <2>1. p \in DOMAIN tree => tree[p].kind \in {"directory", "fifo", "file", "link"}
    BY RootedIs DEF TInv, TreeTyped
  <2> HIDE DEF p
  <2> QED BY <1>2, <1>3, <2>1 DEF Unlink, Rmdir, Directory, Kind, KindIn
<1>7. ~Unlink(p) => p \notin DOMAIN tree' \/ Below(tree', p) # {}
  BY <1>6
<1> HIDE DEF p
<1>8. IF job'[t].result THEN p \notin DOMAIN tree' ELSE p \notin DOMAIN tree' \/ Below(tree', p) # {}
  BY <1>4, <1>5, <1>7
<1> QED BY <1>2, <1>4, <1>8, Zenon DEF Answers, Answer, p

\* rename() leaves nothing where it moves from.
LEMMA RenamedAway ==
    ASSUME NEW n, Rooted(tree, n), NEW p \in Seq(Names), NEW q \in Seq(Names), Renames(p, q)
    PROVE  q \in DOMAIN Renamed(p, q) /\ (p # q => p \notin DOMAIN Renamed(p, q))
<1> DEFINE kept == {r \in DOMAIN tree : IsPrefix(p, r)} \cup {r \in DOMAIN tree : ~IsPrefix(q, r)}
<1>1. DOMAIN Renamed(p, q) = {Rebased(p, q, r) : r \in kept}
  BY DEF Renamed
<1>2. p \in DOMAIN tree
  BY DEF Renames, Kind, KindIn
<1>3. p \in kept /\ Rebased(p, q, p) = q
  BY <1>2, RebasedSelf
<1>4. ASSUME p # q, NEW r \in kept, Rebased(p, q, r) = p
      PROVE  FALSE
  <2>1. r \in Seq(Names)
    BY RootedIs
  <2>2. CASE ~IsPrefix(p, r)
    BY <1>4, <2>2, RebasedSelf DEF Rebased
  <2>3. CASE IsPrefix(p, r)
    <3>1. /\ Len(Rebased(p, q, r)) = Len(q) + Len(r) - Len(p)
          /\ \A i \in 1 .. Len(q) : Rebased(p, q, r)[i] = q[i]
      BY <2>1, <2>3, RebasedIs
    <3>2. Len(p) = Len(q) + Len(r) - Len(p) /\ \A i \in 1 .. Len(q) : p[i] = q[i]
      BY <1>4, <3>1
    <3>3. Len(p) <= Len(r) /\ Len(p) \in Nat /\ Len(q) \in Nat /\ Len(r) \in Nat
      BY <2>1, <2>3, PrefixIs
    <3>4. Len(q) <= Len(p)
      BY <3>2, <3>3
    <3>5. IsStrictPrefix(q, p)
      BY <1>4, <3>2, <3>4, PrefixIs DEF IsStrictPrefix
    <3>6. q \in DOMAIN tree /\ tree[q].kind = "directory"
      BY <1>2, <3>5, Ancestors
    <3>7. p \in Below(tree, q)
      BY <1>2, <3>5 DEF Below
    <3> QED BY <1>4, <3>6, <3>7 DEF Renames, Rmdir, Kind, KindIn
  <2> QED BY <2>2, <2>3
<1> QED BY <1>1, <1>3, <1>4

LEMMA MoveAnswers ==
    ASSUME FInv, TInv, NEW t \in Threads, disturbed[t] = {}, Doing(job[t], tree, data, cwd), Move(t)
    PROVE  Answers(t)
<1> DEFINE p == Here(job[t])
           q == There(job[t])
<1>1. job[t].at = "rename"
  BY DEF Move
<1>2. /\ job[t].request.op = "move" /\ p = At(job[t].request.path) /\ q = At(job[t].request.other)
      /\ p \in Seq(Names) /\ q \in Seq(Names)
  BY <1>1, JobIs, StagesOf, AtHere
<1>3. \/ Renames(p, q) /\ tree' = Renamed(p, q) /\ Return(t, TRUE)
      \/ Return(t, FALSE)
  BY <1>2, Zenon DEF Move
<1> HIDE DEF p, q
<1>4. CASE Renames(p, q) /\ tree' = Renamed(p, q) /\ Return(t, TRUE)
  <2>1. job'[t].at = "returned"
    BY <1>4, ReturnIs
  <2>2. q \in DOMAIN tree' /\ (p # q => p \notin DOMAIN tree')
    BY <1>2, <1>4, RenamedAway DEF TInv, TreeTyped
  <2> QED BY <1>2, <2>1, <2>2, Zenon DEF Answers, Answer, p, q
<1>5. CASE Return(t, FALSE)
  <2>1. job'[t].at = "returned" /\ job'[t].result = FALSE
    BY <1>5, ReturnIs
  <2> QED BY <1>2, <2>1, Zenon DEF Answers, Answer
<1> QED BY <1>3, <1>4, <1>5

-----------------------------------------------------------------------------
(* Where a walk begins *)

\* What fts_read tells of each kind
LEMMA InfoIs ==
    /\ Info.directory = 1 /\ Info.fifo = 3 /\ Info.file = 8 /\ Info.none = 10 /\ Info.link = 12
    /\ Info["directory"] = 1 /\ Info["fifo"] = 3 /\ Info["file"] = 8 /\ Info["none"] = 10 /\ Info["link"] = 12
    /\ FTS_D = 1 /\ FTS_DNR = 4 /\ FTS_DP = 6 /\ FTS_F = 8
BY DEF Info, FTS_D, FTS_F, FTS_DNR, FTS_DP

LEMMA KindIs ==
    ASSUME NEW f, NEW n, Rooted(f, n), NEW p
    PROVE  /\ KindIn(f, p) \in {"directory", "fifo", "file", "none", "link"}
           /\ KindIn(f, p) = "none" <=> p \notin DOMAIN f
           /\ Info[KindIn(f, p)] \in {1, 3, 8, 10, 12} /\ Info[KindIn(f, p)] # FTS_DP
           /\ Info[KindIn(f, p)] = FTS_D <=> KindIn(f, p) = "directory"
           /\ Info[KindIn(f, p)] = FTS_F <=> KindIn(f, p) = "file"
           /\ Info[KindIn(f, p)] = 3 <=> KindIn(f, p) = "fifo"
           /\ Info[KindIn(f, p)] = 12 <=> KindIn(f, p) = "link"
           /\ Info[KindIn(f, p)] = 10 <=> KindIn(f, p) = "none"
<1>1. PICK k : k = KindIn(f, p)
  OBVIOUS
<1>2. p \in DOMAIN f => f[p].kind \in {"directory", "fifo", "file", "link"}
  BY RootedIs
<1>3. k \in {"directory", "fifo", "file", "none", "link"} /\ (k = "none" <=> p \notin DOMAIN f)
  BY <1>1, <1>2 DEF KindIn
<1> HIDE <1>1
<1>4. /\ Info[k] \in {1, 3, 8, 10, 12} /\ Info[k] # FTS_DP
      /\ Info[k] = FTS_D <=> k = "directory"
      /\ Info[k] = FTS_F <=> k = "file"
      /\ Info[k] = 3 <=> k = "fifo"
      /\ Info[k] = 12 <=> k = "link"
      /\ Info[k] = 10 <=> k = "none"
  BY <1>3, InfoIs
<1> QED BY <1>1, <1>3, <1>4

LEMMA CheckListedAnswers ==
    ASSUME FInv, TInv, NEW t \in Threads, disturbed[t] = {}, Doing(job[t], tree, data, cwd), CheckListed(t)
    PROVE  Answers(t)
<1> DEFINE p == At(job[t].request.path)
<1>1. job[t].at = "list" /\ UNCHANGED <<tree, data, cwd>>
  BY DEF CheckListed, Same
<1>2. job[t].request.op = "list" /\ p \in Seq(Names)
  BY <1>1, JobIs, StagesOf, AtHere
<1>3. CASE Return(t, FALSE)
  <2>1. job'[t].at = "returned" /\ job'[t].result = FALSE
    BY <1>3, ReturnIs
  <2> QED BY <1>2, <2>1, Zenon DEF Answers, Answer
<1>4. CASE /\ Directory(p)
           /\ Goto(t, [job[t] EXCEPT !.at = "walk", !.home = cwd, !.todo = <<[under |-> <<>>, info |-> FTS_D]>>])
  <2>1. PICK todo : todo = <<[under |-> <<>>, info |-> FTS_D]>>
    OBVIOUS
  <2>2. PICK k : k = [job[t] EXCEPT !.at = "walk", !.home = cwd, !.todo = todo]
    OBVIOUS
  <2>3. Goto(t, k)
    BY <1>4, <2>1, <2>2, Zenon
  <2>4. DOMAIN job[t] = Fields
    BY JobIs
  <2>5. /\ k.at = "walk" /\ k.request = job[t].request /\ k.home = cwd /\ k.todo = todo
        /\ k.directories = job[t].directories /\ k.files = job[t].files
    BY <2>2, <2>4, Zenon DEF Fields
  <2>6. job'[t] = k
    BY <2>3, GotoIs
  <2>7. KindIn(tree, p) = "directory"
    BY <1>4 DEF Directory, Kind
  <2> HIDE <1>4, <2>2
  <2>8. Here(k) = p
    BY <2>5 DEF Here, At
  <2> HIDE DEF p
  <2>9. k.directories = {} /\ k.files = {}
    BY <1>1, <1>2, <2>5 DEF Doing
  <2>10. \A i \in DOMAIN k.todo : Matches(tree, k.todo[i], Here(k) \o k.todo[i].under)
    <3>1. DOMAIN todo = {1} /\ todo[1].under = <<>> /\ todo[1].info = FTS_D
      BY <2>1
    <3>2. p \o <<>> = p
      BY <1>2, EmptySeq, ConcatIs
    <3>3. Matches(tree, todo[1], p)
      BY <2>7, <3>1, InfoIs DEF Matches
    <3> HIDE <2>1
    <3>4. \A i \in DOMAIN todo : Matches(tree, todo[i], p \o todo[i].under)
      BY <3>1, <3>2, <3>3
    <3> QED BY <2>5, <2>8, <3>4
  <2>11. Listing(k.todo, k.directories, k.files, tree', Here(k))
    BY <1>1, <2>1, <2>5, <2>9, <2>10, Zenon DEF Listing
  <2>12. k.request.op = "list"
    BY <1>2, <2>5
  <2> HIDE <2>1
  <2>13. Doing(k, tree', data', cwd')
    BY <2>5, <2>11, <2>12 DEF Doing
  <2> QED BY <2>5, <2>6, <2>13 DEF Answers
<1> QED BY <1>3, <1>4, Zenon DEF CheckListed

\* A delete_directory that has visited nothing
LEMMA DeleteBegins ==
    ASSUME NEW f, NEW n, Rooted(f, n), NEW p \in Seq(Names), NEW todo, NEW c,
           todo = <<[under |-> <<>>, info |-> Info[KindIn(f, p)]]>>
    PROVE  Clearing(todo, f, p) /\ Straying(todo, f, p, c, c)
<1>1. PICK e : e = [under |-> <<>>, info |-> Info[KindIn(f, p)]]
  OBVIOUS
<1>2. e.under = <<>> /\ e.info = Info[KindIn(f, p)] /\ p \o e.under = p
  <2>1. p \o <<>> = p
    BY EmptySeq, ConcatIs
  <2> QED BY <1>1, <2>1
<1>3. DOMAIN todo = {1} /\ todo[1] = e /\ Len(todo) = 1 /\ todo # <<>>
  BY <1>1
<1>4. Matches(f, e, p) /\ e.info # FTS_DP
  BY <1>2, KindIs DEF Matches
<1>5. \A i, k \in DOMAIN todo : ~(i < k)
  BY <1>3
<1> HIDE <1>1
<1>6. Clearing(todo, f, p)
  BY <1>2, <1>3, <1>4, <1>5, Zenon DEF Clearing
<1>7. Straying(todo, f, p, c, c)
  BY <1>2, <1>3, <1>4 DEF Straying
<1> QED BY <1>6, <1>7

LEMMA BeginAnswers ==
    ASSUME FInv, TInv, NEW t \in Threads, Begin(t)
    PROVE  Answers(t)
<1>1. UNCHANGED <<tree, data, cwd>>
  BY DEF Begin, Same
<1>2. PICK r \in Requests :
          Goto(t, [NoJob EXCEPT
              !.at = First[r.op], !.request = r, !.home = cwd,
              !.todo = IF r.op = "delete_directory" THEN <<[under |-> <<>>, info |-> Info[Kind(At(r.path))]]>> ELSE @])
  BY Zenon DEF Begin
<1>3. PICK todo : todo = IF r.op = "delete_directory" THEN <<[under |-> <<>>, info |-> Info[Kind(At(r.path))]]>> ELSE NoJob.todo
  OBVIOUS
<1>4. PICK k : k = [NoJob EXCEPT !.at = First[r.op], !.request = r, !.home = cwd, !.todo = todo]
  OBVIOUS
<1>5. Goto(t, k)
  BY <1>2, <1>3, <1>4, Zenon
<1>6. /\ k.at = First[r.op] /\ k.request = r /\ k.home = cwd /\ k.todo = todo
      /\ k.directories = NoJob.directories /\ k.files = NoJob.files
  BY <1>4, NoJobIs, Zenon DEF Fields
<1>7. k.directories = {} /\ k.files = {}
  BY <1>6 DEF NoJob
<1>8. job'[t] = k
  BY <1>5, GotoIs
<1>9. r.op \in {"create", "open", "copy", "delete_file", "delete_directory", "move", "list"} /\ r.path \in Paths
  BY RequestsOK DEF First
<1>10. /\ First[r.op] # "returned" /\ (r.op = "create" => First[r.op] # "mkdir")
       /\ r.op = "copy" => First[r.op] = "source"
       /\ r.op = "list" => First[r.op] # "walk"
  BY <1>9 DEF First
<1> HIDE <1>2, <1>4
<1>11. Here(k) = At(r.path)
  BY <1>6 DEF Here, At
<1>12. r.op = "delete_directory" => Clearing(todo, tree, Here(k)) /\ Straying(todo, tree, Here(k), cwd, cwd)
  <2> SUFFICES ASSUME r.op = "delete_directory" PROVE Clearing(todo, tree, Here(k)) /\ Straying(todo, tree, Here(k), cwd, cwd)
    OBVIOUS
  <2>1. PICK p : p = At(r.path)
    OBVIOUS
  <2>2. todo = <<[under |-> <<>>, info |-> Info[KindIn(tree, p)]]>>
    BY <1>3, <2>1, Zenon DEF Kind
  <2>3. p \in Seq(Names) /\ Rooted(tree, Len(data))
    BY <1>9, <2>1, FromTyped DEF At, TInv, TreeTyped
  <2>4. Clearing(todo, tree, p) /\ Straying(todo, tree, p, cwd, cwd)
    BY <2>2, <2>3, DeleteBegins
  <2> QED BY <1>11, <2>1, <2>4
<1> HIDE <1>3
<1>13. Doing(k, tree', data', cwd')
  <2>1. r.op = "copy" => Copying(k, tree', data')
    BY <1>6, <1>10 DEF Copying
  <2> QED BY <1>1, <1>6, <1>7, <1>10, <1>12, <2>1 DEF Doing
<1> QED BY <1>6, <1>8, <1>10, <1>13 DEF Answers

-----------------------------------------------------------------------------
(* What a step of a walk does to what is left to visit *)

\* What fts_read has left once it went into the first of todo: the entries it
\* found, in the order it has them, then that directory again, then the rest.
Reads(todo, new, order, f) ==
    /\ DOMAIN new = 1 .. Len(order) + Len(todo) /\ Len(new) = Len(order) + Len(todo)
    /\ \A i \in 1 .. Len(order) :
          new[i].under = Append(todo[1].under, Last(order[i])) /\ new[i].info = Info[KindIn(f, order[i])]
    /\ new[Len(order) + 1].under = todo[1].under /\ new[Len(order) + 1].info = FTS_DP
    /\ \A i \in 2 .. Len(todo) : new[Len(order) + i] = todo[i]

LEMMA TailIs ==
    ASSUME NEW S, NEW todo \in Seq(S), todo # <<>>
    PROVE  /\ Head(todo) = todo[1] /\ Len(todo) \in Nat /\ Len(todo) >= 1 /\ DOMAIN todo = 1 .. Len(todo)
           /\ Tail(todo) \in Seq(S) /\ Len(Tail(todo)) = Len(todo) - 1 /\ DOMAIN Tail(todo) = 1 .. Len(todo) - 1
           /\ \A i \in 1 .. Len(todo) - 1 : Tail(todo)[i] = todo[i + 1]
<1>1. Len(todo) \in Nat /\ Len(todo) >= 1 /\ DOMAIN todo = 1 .. Len(todo) /\ Head(todo) = todo[1]
  BY EmptySeq, LenProperties
<1>2. Tail(todo) \in Seq(S) /\ Len(Tail(todo)) = Len(todo) - 1 /\ \A i \in 1 .. Len(Tail(todo)) : Tail(todo)[i] = todo[i + 1]
  BY HeadTailProperties
<1>3. DOMAIN Tail(todo) = 1 .. Len(Tail(todo))
  BY <1>2, LenProperties
<1> QED BY <1>1, <1>2, <1>3

\* The entries of a directory come once each.
LEMMA OrderOnce ==
    ASSUME NEW n, Rooted(tree, n), NEW p \in Seq(Names), NEW order \in SetToSeqs(Children(tree, p))
    PROVE  /\ order \in Seq(Children(tree, p)) /\ Len(order) \in Nat /\ DOMAIN order = 1 .. Len(order)
           /\ \A i \in 1 .. Len(order) : order[i] \in Children(tree, p)
           /\ \A i, k \in 1 .. Len(order) : order[i] = order[k] => i = k
           /\ \A c \in Children(tree, p) : \E i \in 1 .. Len(order) : order[i] = c
           /\ order = <<>> <=> Len(order) = 0
<1>1. Children(tree, p) \in SUBSET DOMAIN tree /\ IsFiniteSet(DOMAIN tree)
  BY DEF Children, Below, Rooted
<1>2. IsFiniteSet(Children(tree, p)) /\ Cardinality(Children(tree, p)) \in Nat
  BY <1>1, FS_Subset, FS_CardinalityType
<1>3. PICK N \in Nat : N = Cardinality(Children(tree, p))
  BY <1>2
<1>4. PICK C : C = Children(tree, p)
  OBVIOUS
<1>5. order \in {g \in [1 .. N -> C] : \A i, k \in 1 .. N : i # k => g[i] # g[k]} /\ IsFiniteSet(C) /\ Cardinality(C) = N
  BY <1>2, <1>3, <1>4, Zenon DEF SetToSeqs
<1>6. order \in [1 .. N -> C]
  BY <1>5
<1>7. \A i, k \in 1 .. N : order[i] = order[k] => i = k
  BY <1>5
<1>8. order \in Seq(C) /\ Len(order) = N
  BY <1>6
<1>9. \A c \in C : \E i \in 1 .. N : order[i] = c
  <2>1. IsFiniteSet(1 .. N) /\ Cardinality(1 .. N) = N
    BY FS_Interval
  <2>2. order \in Injection(1 .. N, C)
    BY <1>6, <1>7 DEF Injection, IsInjective
  <2>3. order \in Surjection(1 .. N, C)
    BY <1>5, <2>1, <2>2, FS_Injection
  <2> QED BY <2>3 DEF Surjection
<1> QED BY <1>4, <1>6, <1>7, <1>8, <1>9

\* What a step of a walk sets
LEMMA WalkSets ==
    ASSUME FInv, NEW t \in Threads, NEW todo, NEW a, NEW b,
           \/ job' = [job EXCEPT ![t].todo = todo] /\ a = job[t].directories /\ b = job[t].files
           \/ job' = [job EXCEPT ![t].todo = todo, ![t].directories = a] /\ b = job[t].files
           \/ job' = [job EXCEPT ![t].todo = todo, ![t].directories = a, ![t].files = b]
    PROVE  /\ job'[t].todo = todo /\ job'[t].directories = a /\ job'[t].files = b
           /\ job'[t].at = job[t].at /\ job'[t].request = job[t].request /\ job'[t].home = job[t].home
<1>1. DOMAIN job = Threads /\ DOMAIN job[t] = Fields
  BY JobIs DEF FInv
<1>2. CASE job' = [job EXCEPT ![t].todo = todo] /\ a = job[t].directories /\ b = job[t].files
  BY <1>1, <1>2, Zenon DEF Fields
<1>3. CASE job' = [job EXCEPT ![t].todo = todo, ![t].directories = a] /\ b = job[t].files
  BY <1>1, <1>3, Zenon DEF Fields
<1>4. CASE job' = [job EXCEPT ![t].todo = todo, ![t].directories = a, ![t].files = b]
  BY <1>1, <1>4, Zenon DEF Fields
<1> QED BY <1>2, <1>3, <1>4

LEMMA ReturnFinds ==
    ASSUME FInv, NEW t \in Threads, NEW ok, Return(t, ok)
    PROVE  job'[t].directories = job[t].directories /\ job'[t].files = job[t].files
<1>1. PICK j : j = [NoJob EXCEPT !.result = ok, !.directories = job[t].directories, !.files = job[t].files]
  OBVIOUS
<1>2. Goto(t, j)
  BY <1>1, Zenon DEF Return
<1>3. j.directories = job[t].directories /\ j.files = job[t].files
  BY <1>1, NoJobIs, Zenon DEF Fields
<1> QED BY <1>2, <1>3, GotoIs

\* Going into the first of what is left to visit
LEMMA DescendIs ==
    ASSUME FInv, TInv, NEW t \in Threads, job[t].at = "walk", job[t].todo # <<>>, NEW e, e = Head(job[t].todo),
           Descend(t, e)
    PROVE  /\ UNCHANGED tree /\ e.info = FTS_D
           /\ job'[t].at = job[t].at /\ job'[t].request = job[t].request /\ job'[t].home = job[t].home
           /\ job'[t].files = job[t].files
           /\ \/ /\ Directory(Place(job[t], e))
                 /\ \E order \in SetToSeqs(Children(tree, Place(job[t], e))) :
                       /\ Reads(job[t].todo, job'[t].todo, order, tree)
                       /\ cwd' = IF order = <<>> THEN cwd ELSE Place(job[t], e)
                 /\ job'[t].directories = IF Len(e.under) = 1 THEN job[t].directories \cup {e.under} ELSE job[t].directories
              \/ /\ ~Directory(Place(job[t], e)) /\ UNCHANGED cwd
                 /\ DOMAIN job'[t].todo = DOMAIN job[t].todo /\ Len(job'[t].todo) = Len(job[t].todo)
                 /\ job'[t].todo[1].under = e.under /\ job'[t].todo[1].info = FTS_DNR
                 /\ \A i \in 2 .. Len(job[t].todo) : job'[t].todo[i] = job[t].todo[i]
                 /\ job'[t].directories = job[t].directories
<1> DEFINE p == Place(job[t], e)
<1>1. /\ e \in Visits /\ e.under \in Seq(Names) /\ Tail(job[t].todo) \in Seq(Visits) /\ p \in Seq(Names)
      /\ Rooted(tree, Len(data)) /\ job[t].todo \in Seq(Visits)
  BY VisitIs DEF TInv, TreeTyped, JobTyped
<1>2. UNCHANGED tree /\ e.info = FTS_D
  BY DEF Descend
<1>3. PICK rest : rest = Tail(job[t].todo)
  OBVIOUS
<1>4. PICK old : old = job[t].todo
  OBVIOUS
<1>5. /\ e = old[1] /\ Len(old) \in Nat /\ Len(old) >= 1
      /\ rest \in Seq(Visits) /\ Len(rest) = Len(old) - 1 /\ \A i \in 1 .. Len(old) - 1 : rest[i] = old[i + 1]
  BY <1>1, <1>3, <1>4, TailIs
<1>6. ASSUME NEW info
      PROVE  [e EXCEPT !.info = info].under = e.under /\ [e EXCEPT !.info = info].info = info
  BY <1>1 DEF Visits
<1>7. CASE /\ Directory(p)
           /\ \E order \in SetToSeqs(Children(tree, p)) :
                 /\ job' = [job EXCEPT ![t].todo =
                        [i \in DOMAIN order |-> [under |-> Append(e.under, Last(order[i])), info |-> Info[Kind(order[i])]]]
                            \o <<[e EXCEPT !.info = FTS_DP]>> \o Tail(job[t].todo),
                        ![t].directories = IF Len(e.under) = 1 THEN job[t].directories \cup {e.under} ELSE job[t].directories]
                 /\ cwd' = IF order = <<>> THEN cwd ELSE p
  <2>1. PICK order \in SetToSeqs(Children(tree, p)) :
                 /\ job' = [job EXCEPT ![t].todo =
                        [i \in DOMAIN order |-> [under |-> Append(e.under, Last(order[i])), info |-> Info[Kind(order[i])]]]
                            \o <<[e EXCEPT !.info = FTS_DP]>> \o Tail(job[t].todo),
                        ![t].directories = IF Len(e.under) = 1 THEN job[t].directories \cup {e.under} ELSE job[t].directories]
                 /\ cwd' = IF order = <<>> THEN cwd ELSE p
    BY <1>7, Zenon
  <2>2. PICK found : found = [i \in DOMAIN order |-> [under |-> Append(e.under, Last(order[i])), info |-> Info[Kind(order[i])]]]
    OBVIOUS
  <2>3. PICK back : back = [e EXCEPT !.info = FTS_DP]
    OBVIOUS
  <2>4. PICK todo : todo = found \o <<back>> \o rest
    OBVIOUS
  <2>5. PICK a : a = IF Len(e.under) = 1 THEN job[t].directories \cup {e.under} ELSE job[t].directories
    OBVIOUS
  <2>6. job' = [job EXCEPT ![t].todo = todo, ![t].directories = a] /\ cwd' = IF order = <<>> THEN cwd ELSE p
    BY <2>1, <2>2, <2>3, <2>4, <2>5, <1>3, Zenon
  <2>7. PICK b : b = job[t].files
    OBVIOUS
  <2>8. /\ job'[t].todo = todo /\ job'[t].directories = a /\ job'[t].files = b
        /\ job'[t].at = job[t].at /\ job'[t].request = job[t].request /\ job'[t].home = job[t].home
    <3>1. job' = [job EXCEPT ![t].todo = todo, ![t].directories = a] /\ b = job[t].files
      BY <2>6, <2>7
    <3> HIDE <2>1, <2>2, <2>3, <2>4, <2>5, <2>6, <2>7, <1>7
    <3>2. DOMAIN job = Threads /\ DOMAIN job[t] = Fields
      BY JobIs DEF FInv
    <3> QED BY <3>1, <3>2, Zenon DEF Fields
  <2>9. Len(order) \in Nat /\ DOMAIN order = 1 .. Len(order)
    BY <1>1, OrderOnce
  <2>10. /\ DOMAIN found = 1 .. Len(order)
         /\ \A i \in 1 .. Len(order) : found[i].under = Append(e.under, Last(order[i])) /\ found[i].info = Info[Kind(order[i])]
    BY <2>2, <2>9
  <2>11. back.under = e.under /\ back.info = FTS_DP
    BY <1>6, <2>3
  <2> HIDE <1>7, <2>1, <2>2, <2>3, <2>5, <2>6
  <2>12. PICK A : A = {found[i] : i \in 1 .. Len(order)} \cup {back} \cup Visits
    OBVIOUS
  <2>13. found \in Seq(A) /\ Len(found) = Len(order) /\ <<back>> \in Seq(A) /\ rest \in Seq(A)
    <3>1. found \in [1 .. Len(order) -> A]
      <4>1. found = [i \in 1 .. Len(order) |-> found[i]]
        BY <2>2, <2>9, <2>10
      <4>2. \A i \in 1 .. Len(order) : found[i] \in A
        BY <2>12
      <4> QED BY <4>1, <4>2
    <3>2. back \in A /\ Visits \subseteq A
      BY <2>12
    <3>3. rest \in Seq(A)
      BY <1>5, <3>2
    <3>4. found \in Seq(A) /\ Len(found) = Len(order)
      BY <2>9, <3>1
    <3>5. <<back>> \in Seq(A)
      BY <3>2
    <3> QED BY <3>3, <3>4, <3>5
  <2>14. /\ DOMAIN todo = 1 .. Len(order) + Len(old) /\ Len(todo) = Len(order) + Len(old)
         /\ \A i \in 1 .. Len(order) : todo[i] = found[i]
         /\ todo[Len(order) + 1] = back
         /\ \A i \in 2 .. Len(old) : todo[Len(order) + i] = old[i]
    <3>1. PICK both : both = found \o <<back>>
      OBVIOUS
    <3>2. both \in Seq(A) /\ Len(both) = Len(order) + 1 /\ (\A i \in 1 .. Len(order) : both[i] = found[i]) /\ both[Len(order) + 1] = back
      <4>1. PICK one : one = <<back>>
        OBVIOUS
      <4>2. one \in Seq(A) /\ Len(one) = 1 /\ one[1] = back
        BY <2>13, <4>1
      <4>3. both = found \o one
        BY <3>1, <4>1
      <4> HIDE <3>1, <4>1
      <4>4. /\ both \in Seq(A) /\ Len(both) = Len(found) + Len(one)
            /\ \A i \in 1 .. Len(found) + Len(one) : both[i] = IF i <= Len(found) THEN found[i] ELSE one[i - Len(found)]
        <5>1. found \in Seq(A) /\ one \in Seq(A)
          BY <2>13, <4>2
        <5> HIDE <2>12, <2>13, <4>2, <4>3
        <5>2. /\ found \o one \in Seq(A) /\ Len(found \o one) = Len(found) + Len(one)
              /\ \A i \in 1 .. Len(found) + Len(one) :
                    (found \o one)[i] = IF i <= Len(found) THEN found[i] ELSE one[i - Len(found)]
          BY <5>1, ConcatProperties
        <5> QED BY <4>3, <5>2, Zenon
      <4>5. Len(found) = Len(order) /\ Len(order) \in Nat
        BY <2>9, <2>13
      <4> HIDE <4>3
      <4> QED BY <4>2, <4>4, <4>5
    <3>3. todo = both \o rest
      BY <2>4, <3>1
    <3> HIDE <3>1, <2>4
    <3>4. Len(todo) = Len(both) + Len(rest) /\ \A i \in 1 .. Len(both) + Len(rest) : todo[i] = IF i <= Len(both) THEN both[i] ELSE rest[i - Len(both)]
      <4>1. both \in Seq(A) /\ rest \in Seq(A)
        BY <2>13, <3>2
      <4>2. /\ Len(both \o rest) = Len(both) + Len(rest)
            /\ \A i \in 1 .. Len(both) + Len(rest) : (both \o rest)[i] = IF i <= Len(both) THEN both[i] ELSE rest[i - Len(both)]
        BY <4>1, ConcatProperties
      <4> QED BY <3>3, <4>2, Zenon
    <3>5. DOMAIN todo = 1 .. Len(order) + Len(old) /\ Len(todo) = Len(order) + Len(old)
      <4>1. Len(todo) = Len(order) + Len(old)
        BY <1>5, <2>9, <3>2, <3>4
      <4>2. both \in Seq(A) /\ rest \in Seq(A)
        BY <2>13, <3>2
      <4>3. todo \in Seq(A)
        BY <3>3, <4>2
      <4>4. DOMAIN todo = 1 .. Len(todo)
        BY <4>3, LenProperties
      <4> QED BY <4>1, <4>4
    <3>6. \A i \in 1 .. Len(order) + 1 : todo[i] = both[i]
      BY <1>5, <2>9, <3>2, <3>4
    <3>7. ASSUME NEW i \in 2 .. Len(old) PROVE todo[Len(order) + i] = old[i]
      <4>1. PICK k : k = Len(order) + i
        OBVIOUS
      <4>2. k \in 1 .. Len(both) + Len(rest) /\ ~(k <= Len(both)) /\ k - Len(both) = i - 1 /\ i - 1 \in 1 .. Len(old) - 1 /\ (i - 1) + 1 = i
        BY <1>5, <2>9, <3>2, <4>1
      <4>3. todo[k] = rest[i - 1] /\ rest[i - 1] = old[i]
        BY <1>5, <3>4, <4>2
      <4> QED BY <4>1, <4>3
    <3>8. \A i \in 1 .. Len(order) : i \in 1 .. Len(order) + 1
      BY <2>9
    <3>9. Len(order) + 1 \in 1 .. Len(order) + 1
      BY <2>9
    <3> QED BY <3>2, <3>5, <3>6, <3>7, <3>8, <3>9
  <2>15. Reads(old, todo, order, tree)
    <3>1. /\ \A i \in 1 .. Len(order) : todo[i].under = Append(old[1].under, Last(order[i])) /\ todo[i].info = Info[KindIn(tree, order[i])]
      BY <1>5, <2>10, <2>14 DEF Kind
    <3> QED BY <1>5, <2>11, <2>14, <3>1 DEF Reads
  <2>16. cwd' = IF order = <<>> THEN cwd ELSE p
    BY <2>6
  <2>17. Reads(job[t].todo, job'[t].todo, order, tree)
    BY <1>4, <2>8, <2>15
  <2>18. a = IF Len(e.under) = 1 THEN job[t].directories \cup {e.under} ELSE job[t].directories
    BY <2>5
  <2> HIDE <2>12, <2>7, <1>3, <1>4
  <2>19. Directory(p)
    BY <1>7
  <2>20. job'[t].files = job[t].files
    BY <2>7, <2>8
  <2> HIDE DEF p
  <2> QED BY <1>2, <2>8, <2>16, <2>17, <2>18, <2>19, <2>20, Zenon DEF p
<1>8. CASE /\ ~Directory(p)
           /\ job' = [job EXCEPT ![t].todo = <<[e EXCEPT !.info = FTS_DNR]>> \o Tail(job[t].todo)] /\ UNCHANGED cwd
  <2>1. PICK back : back = [e EXCEPT !.info = FTS_DNR]
    OBVIOUS
  <2>2. PICK todo : todo = <<back>> \o rest
    OBVIOUS
  <2>3. job' = [job EXCEPT ![t].todo = todo]
    BY <1>3, <1>8, <2>1, <2>2, Zenon
  <2>4. back.under = e.under /\ back.info = FTS_DNR
    BY <1>6, <2>1
  <2>5. /\ job'[t].todo = todo /\ job'[t].directories = job[t].directories /\ job'[t].files = job[t].files
        /\ job'[t].at = job[t].at /\ job'[t].request = job[t].request /\ job'[t].home = job[t].home
    BY <2>3, WalkSets, Zenon
  <2>6. ~Directory(p) /\ UNCHANGED cwd
    BY <1>8
  <2> HIDE <1>8, <2>1, <2>3
  <2>7. PICK A : A = {back} \cup Visits
    OBVIOUS
  <2>8. <<back>> \in Seq(A) /\ rest \in Seq(A)
    BY <1>5, <2>7
  <2>9. DOMAIN todo = DOMAIN old /\ Len(todo) = Len(old) /\ todo[1] = back /\ \A i \in 2 .. Len(old) : todo[i] = old[i]
    <3>1. Len(todo) = 1 + Len(rest) /\ \A i \in 1 .. 1 + Len(rest) : todo[i] = IF i <= 1 THEN back ELSE rest[i - 1]
      <4>1. Len(<<back>>) = 1 /\ <<back>>[1] = back
        OBVIOUS
      <4>2. \A i \in 1 .. 1 + Len(rest) : i <= 1 => i = 1
        OBVIOUS
      <4> QED BY <2>2, <2>8, <4>1, <4>2, ConcatProperties
    <3>2. Len(todo) = Len(old) /\ todo[1] = back
      BY <1>5, <3>1
    <3>3. ASSUME NEW i \in 2 .. Len(old) PROVE todo[i] = old[i]
      <4>1. i \in 1 .. 1 + Len(rest) /\ ~(i <= 1) /\ i - 1 \in 1 .. Len(old) - 1 /\ (i - 1) + 1 = i
        BY <1>5
      <4> QED BY <1>5, <3>1, <4>1
    <3>4. DOMAIN todo = DOMAIN old
      <4>1. todo \in Seq(A)
        BY <2>2, <2>8
      <4>2. DOMAIN todo = 1 .. Len(todo)
        BY <4>1, LenProperties
      <4>3. DOMAIN old = 1 .. Len(old)
        BY <1>1, <1>4, LenProperties
      <4> QED BY <3>2, <4>2, <4>3
    <3> QED BY <3>2, <3>3, <3>4
  <2> HIDE <2>2, <2>7
  <2>10. /\ DOMAIN job'[t].todo = DOMAIN job[t].todo /\ Len(job'[t].todo) = Len(job[t].todo)
         /\ job'[t].todo[1].under = e.under /\ job'[t].todo[1].info = FTS_DNR
         /\ \A i \in 2 .. Len(job[t].todo) : job'[t].todo[i] = job[t].todo[i]
    BY <1>4, <2>4, <2>5, <2>9
  <2> HIDE DEF p
  <2> QED BY <1>2, <2>5, <2>6, <2>10, Zenon DEF p
<1>9. \/ /\ Directory(p)
         /\ \E order \in SetToSeqs(Children(tree, p)) :
                 /\ job' = [job EXCEPT ![t].todo =
                        [i \in DOMAIN order |-> [under |-> Append(e.under, Last(order[i])), info |-> Info[Kind(order[i])]]]
                            \o <<[e EXCEPT !.info = FTS_DP]>> \o Tail(job[t].todo),
                        ![t].directories = IF Len(e.under) = 1 THEN job[t].directories \cup {e.under} ELSE job[t].directories]
                 /\ cwd' = IF order = <<>> THEN cwd ELSE p
      \/ /\ ~Directory(p)
         /\ job' = [job EXCEPT ![t].todo = <<[e EXCEPT !.info = FTS_DNR]>> \o Tail(job[t].todo)] /\ UNCHANGED cwd
  BY Zenon DEF Descend
<1> QED BY <1>7, <1>8, <1>9, Zenon

-----------------------------------------------------------------------------
(* list *)

LEMMA PendingIs ==
    ASSUME NEW todo, NEW infos, NEW x
    PROVE  x \in Pending(todo, infos) <=>
               \E i \in DOMAIN todo : todo[i].under = x /\ Len(x) = 1 /\ todo[i].info \in infos
BY Zenon DEF Pending

\* What the first of todo adds to what is pending
LEMMA PendingSplit ==
    ASSUME NEW todo \in Seq(Visits), todo # <<>>, NEW infos
    PROVE  /\ Pending(todo, infos) =
                  Pending(Tail(todo), infos)
                      \cup (IF Len(todo[1].under) = 1 /\ todo[1].info \in infos THEN {todo[1].under} ELSE {})
           /\ \A x : x \in Pending(Tail(todo), infos) <=>
                  \E i \in 2 .. Len(todo) : todo[i].under = x /\ Len(x) = 1 /\ todo[i].info \in infos
<1> DEFINE rest == Tail(todo)
<1>1. /\ Len(todo) \in Nat /\ Len(todo) >= 1 /\ DOMAIN todo = 1 .. Len(todo)
      /\ DOMAIN rest = 1 .. Len(todo) - 1 /\ \A i \in 1 .. Len(todo) - 1 : rest[i] = todo[i + 1]
  BY TailIs
<1> HIDE DEF rest
<1>2. \A i \in 1 .. Len(todo) - 1 : i + 1 \in 2 .. Len(todo)
  BY <1>1
<1>3. \A i \in 2 .. Len(todo) : i - 1 \in 1 .. Len(todo) - 1 /\ rest[i - 1] = todo[i]
  <2> SUFFICES ASSUME NEW i \in 2 .. Len(todo) PROVE i - 1 \in 1 .. Len(todo) - 1 /\ rest[i - 1] = todo[i]
    OBVIOUS
  <2>1. i - 1 \in 1 .. Len(todo) - 1 /\ (i - 1) + 1 = i
    BY <1>1
  <2> QED BY <1>1, <2>1
<1>4. ASSUME NEW x
      PROVE  x \in Pending(rest, infos) <=>
                 \E i \in 2 .. Len(todo) : todo[i].under = x /\ Len(x) = 1 /\ todo[i].info \in infos
  <2>1. x \in Pending(rest, infos) <=> \E i \in DOMAIN rest : rest[i].under = x /\ Len(x) = 1 /\ rest[i].info \in infos
    BY PendingIs
  <2> QED BY <1>1, <1>2, <1>3, <2>1, Zenon
<1>5. \A i : i \in 1 .. Len(todo) <=> i = 1 \/ i \in 2 .. Len(todo)
  BY <1>1
<1>6. ASSUME NEW x
      PROVE  x \in Pending(todo, infos) <=>
                 \/ x \in Pending(rest, infos)
                 \/ x = todo[1].under /\ Len(x) = 1 /\ todo[1].info \in infos
  <2>1. x \in Pending(todo, infos) <=> \E i \in 1 .. Len(todo) : todo[i].under = x /\ Len(x) = 1 /\ todo[i].info \in infos
    BY <1>1, PendingIs, Zenon
  <2> QED BY <1>4, <1>5, <2>1, Zenon
<1> QED BY <1>4, <1>6, Zenon DEF rest

\* The bits that list looks at
LEMMA BitsOf ==
    ASSUME NEW info \in Infos, info # FTS_D
    PROVE  /\ Has(info, FTS_D) <=> info = 3
           /\ ~Has(info, FTS_D) /\ Has(info, FTS_F) <=> info \in {8, 10, 12}
           /\ Has(info, FTS_DP) <=> info \in {3, 4, 6, 10, 12}
           /\ Has(info, FTS_F) <=> info \in {8, 10, 12}
<1>1. info \in {3, 4, 6, 8, 10, 12}
  BY InfosAre, InfoIs
<1>2. Has(3, 1) /\ ~Has(4, 1) /\ ~Has(6, 1) /\ ~Has(8, 1) /\ ~Has(10, 1) /\ ~Has(12, 1)
  BY DEF Has
<1>3. ~Has(3, 8) /\ ~Has(4, 8) /\ ~Has(6, 8) /\ Has(8, 8) /\ Has(10, 8) /\ Has(12, 8)
  BY DEF Has
<1>4. Has(3, 6) /\ Has(4, 6) /\ Has(6, 6) /\ ~Has(8, 6) /\ Has(10, 6) /\ Has(12, 6)
  BY DEF Has
<1>5. FTS_D = 1 /\ FTS_F = 8 /\ FTS_DP = 6
  BY InfoIs
<1>6. info = 3 \/ info = 4 \/ info = 6 \/ info = 8 \/ info = 10 \/ info = 12
  BY <1>1
<1> QED BY <1>2, <1>3, <1>4, <1>5, <1>6

\* What is found is named by the path from p, one name longer than u.
Sits(p, u, new, order) ==
    \A i \in 1 .. Len(order) :
        p \o new[i].under = order[i] /\ new[i].info # FTS_DP /\ Len(new[i].under) = Len(u) + 1

\* What fts_read tells of what it finds and of what it had before is there.
LEMMA ReadsMatch ==
    ASSUME NEW f, NEW n, Rooted(f, n), NEW p \in Seq(Names), NEW todo \in Seq(Visits), todo # <<>>,
           KindIn(f, p \o todo[1].under) = "directory",
           \A i \in DOMAIN todo : Matches(f, todo[i], p \o todo[i].under),
           NEW order, Len(order) \in Nat, \A i \in 1 .. Len(order) : order[i] \in Children(f, p \o todo[1].under),
           NEW new, Reads(todo, new, order, f)
    PROVE  /\ \A i \in DOMAIN new : Matches(f, new[i], p \o new[i].under)
           /\ Sits(p, todo[1].under, new, order)
           /\ Len(todo) \in Nat /\ Len(todo) >= 1 /\ Len(todo[1].under) \in Nat
           /\ \A i \in DOMAIN new : i \in 1 .. Len(order) \/ i = Len(order) + 1 \/ \E k \in 2 .. Len(todo) : i = Len(order) + k
<1>0. ASSUME NEW v \in Seq(Names), NEW c \in Children(f, p \o v)
      PROVE  p \o Append(v, Last(c)) = c
  BY <1>0, ChildIs
<1> DEFINE u == todo[1].under
<1>1. Len(todo) \in Nat /\ Len(todo) >= 1 /\ DOMAIN todo = 1 .. Len(todo)
  BY TailIs
<1>2. u \in Seq(Names) /\ Len(u) \in Nat
  <2>1. todo[1] \in Visits
    BY <1>1
  <2>2. u \in Seq(Names)
    BY <2>1 DEF Visits
  <2> QED BY <2>2
<1>3. DOMAIN new = 1 .. Len(order) + Len(todo)
  BY DEF Reads
<1>4. \A i \in DOMAIN new : i \in 1 .. Len(order) \/ i = Len(order) + 1 \/ \E k \in 2 .. Len(todo) : i = Len(order) + k
  <2> SUFFICES ASSUME NEW i \in DOMAIN new, i \notin 1 .. Len(order), i # Len(order) + 1
               PROVE  \E k \in 2 .. Len(todo) : i = Len(order) + k
    OBVIOUS
  <2>1. i - Len(order) \in 2 .. Len(todo) /\ i = Len(order) + (i - Len(order))
    BY <1>1, <1>3
  <2> QED BY <2>1
<1>5. ASSUME NEW i \in 1 .. Len(order)
      PROVE  /\ p \o new[i].under = order[i] /\ new[i].info = Info[KindIn(f, order[i])]
             /\ Len(new[i].under) = Len(u) + 1
  <2>1. PICK c \in Children(f, p \o u) : c = order[i]
    BY <1>5
  <2>2. new[i].under = Append(u, Last(c)) /\ new[i].info = Info[KindIn(f, c)]
    BY <1>5, <2>1, Zenon DEF Reads
  <2> HIDE DEF u
  <2>3. Len(Append(u, Last(c))) = Len(u) + 1
    <3>1. Last(c) \in Names
      BY <1>2, ChildIs
    <3> QED BY <1>2, <3>1, AppendProperties
  <2>4. p \o Append(u, Last(c)) = c
    BY <1>0, <1>2, Zenon
  <2> HIDE <2>1
  <2>5. p \o new[i].under = c /\ new[i].info = Info[KindIn(f, c)] /\ Len(new[i].under) = Len(u) + 1
    BY <2>2, <2>3, <2>4, Zenon
  <2> QED BY <2>1, <2>5, Zenon
<1>6. new[Len(order) + 1].under = u /\ new[Len(order) + 1].info = FTS_DP
  BY DEF Reads
<1>7. \A i \in 2 .. Len(todo) : new[Len(order) + i] = todo[i]
  BY DEF Reads
<1>8. \A i \in 2 .. Len(todo) : i \in DOMAIN todo
  BY <1>1
<1>9. \A s : Info[KindIn(f, s)] # FTS_DP
  BY KindIs
<1> HIDE DEF u
<1>10. ASSUME NEW i \in DOMAIN new PROVE Matches(f, new[i], p \o new[i].under)
  <2>1. CASE i \in 1 .. Len(order)
    <3>1. new[i].info = Info[KindIn(f, p \o new[i].under)]
      BY <1>5, <2>1, Zenon
    <3>2. new[i].info # FTS_DP
      BY <1>9, <3>1, Zenon
    <3> QED BY <3>1, <3>2, Zenon DEF Matches
  <2>2. CASE i = Len(order) + 1
    BY <1>6, <2>2, Zenon DEF Matches, u
  <2>3. CASE \E k \in 2 .. Len(todo) : i = Len(order) + k
    BY <1>7, <1>8, <2>3, Zenon
  <2> QED BY <1>4, <2>1, <2>2, <2>3
<1>11. Sits(p, u, new, order)
  BY <1>5, <1>9, Zenon DEF Sits
<1> QED BY <1>1, <1>2, <1>4, <1>10, <1>11 DEF u

LEMMA ListingDescends ==
    ASSUME NEW f, NEW n, Rooted(f, n), NEW p \in Seq(Names), NEW todo \in Seq(Visits), todo # <<>>,
           todo[1].info = FTS_D, NEW directories, NEW files, Listing(todo, directories, files, f, p),
           KindIn(f, p \o todo[1].under) = "directory",
           NEW order, Len(order) \in Nat, \A i \in 1 .. Len(order) : order[i] \in Children(f, p \o todo[1].under),
           \A c \in Children(f, p \o todo[1].under) : \E i \in 1 .. Len(order) : order[i] = c,
           NEW new, Reads(todo, new, order, f),
           NEW found, found = IF Len(todo[1].under) = 1 THEN directories \cup {todo[1].under} ELSE directories
    PROVE  Listing(new, found, files, f, p)
<1> DEFINE u == todo[1].under
<1>1. /\ \A i \in DOMAIN new : Matches(f, new[i], p \o new[i].under)
      /\ \A i \in 1 .. Len(order) : p \o new[i].under = order[i] /\ new[i].info # FTS_DP
                                      /\ Len(new[i].under) = Len(u) + 1
      /\ Len(todo) \in Nat /\ Len(todo) >= 1 /\ Len(u) \in Nat
      /\ \A i \in DOMAIN new : i \in 1 .. Len(order) \/ i = Len(order) + 1 \/ \E k \in 2 .. Len(todo) : i = Len(order) + k
  <2>1. \A i \in DOMAIN todo : Matches(f, todo[i], p \o todo[i].under)
    BY Zenon DEF Listing
  <2>2. Sits(p, u, new, order) /\ \A i \in DOMAIN new : Matches(f, new[i], p \o new[i].under)
    BY <2>1, ReadsMatch
  <2>4. /\ Len(todo) \in Nat /\ Len(todo) >= 1 /\ Len(u) \in Nat
        /\ \A i \in DOMAIN new : i \in 1 .. Len(order) \/ i = Len(order) + 1 \/ \E k \in 2 .. Len(todo) : i = Len(order) + k
    BY <2>1, ReadsMatch
  <2> QED BY <2>2, <2>4, Zenon DEF Sits
<1>2. /\ DOMAIN new = 1 .. Len(order) + Len(todo)
      /\ \A i \in 1 .. Len(order) : new[i].under = Append(u, Last(order[i])) /\ new[i].info = Info[KindIn(f, order[i])]
      /\ new[Len(order) + 1].under = u /\ new[Len(order) + 1].info = FTS_DP
      /\ \A i \in 2 .. Len(todo) : new[Len(order) + i] = todo[i]
  BY DEF Reads
<1>3. /\ \A i \in 1 .. Len(order) : i \in DOMAIN new
      /\ \A i \in 2 .. Len(todo) : Len(order) + i \in DOMAIN new /\ i \in DOMAIN todo
  BY <1>1, <1>2, TailIs
<1>4. todo[1].info = 1 /\ FTS_DP = 6 /\ FTS_D = 1 /\ FTS_F = 8
  BY InfoIs
<1>5. \A infos : FTS_DP \notin infos => \A x : x \in Pending(new, infos) <=>
          \/ \E i \in 1 .. Len(order) : new[i].under = x /\ Len(x) = 1 /\ new[i].info \in infos
          \/ \E i \in 2 .. Len(todo) : todo[i].under = x /\ Len(x) = 1 /\ todo[i].info \in infos
  <2> SUFFICES ASSUME NEW infos, FTS_DP \notin infos, NEW x
               PROVE  x \in Pending(new, infos) <=>
          \/ \E i \in 1 .. Len(order) : new[i].under = x /\ Len(x) = 1 /\ new[i].info \in infos
          \/ \E i \in 2 .. Len(todo) : todo[i].under = x /\ Len(x) = 1 /\ todo[i].info \in infos
    OBVIOUS
  <2>1. x \in Pending(new, infos) <=> \E i \in DOMAIN new : new[i].under = x /\ Len(x) = 1 /\ new[i].info \in infos
    BY PendingIs
  <2>2. ASSUME NEW i \in DOMAIN new, new[i].under = x, Len(x) = 1, new[i].info \in infos
        PROVE  \/ \E k \in 1 .. Len(order) : new[k].under = x /\ Len(x) = 1 /\ new[k].info \in infos
               \/ \E k \in 2 .. Len(todo) : todo[k].under = x /\ Len(x) = 1 /\ todo[k].info \in infos
    <3>1. CASE i \in 1 .. Len(order)
      BY <2>2, <3>1, Zenon
    <3>2. CASE i = Len(order) + 1
      BY <1>2, <2>2, <3>2, Zenon
    <3>3. CASE \E k \in 2 .. Len(todo) : i = Len(order) + k
      BY <1>2, <2>2, <3>3, Zenon
    <3> QED BY <1>1, <2>2, <3>1, <3>2, <3>3, Zenon
  <2>3. ASSUME NEW i \in 1 .. Len(order), new[i].under = x /\ Len(x) = 1 /\ new[i].info \in infos
        PROVE  x \in Pending(new, infos)
    BY <1>3, <2>1, <2>3, Zenon
  <2>4. ASSUME NEW i \in 2 .. Len(todo), todo[i].under = x /\ Len(x) = 1 /\ todo[i].info \in infos
        PROVE  x \in Pending(new, infos)
    <3>1. Len(order) + i \in DOMAIN new /\ new[Len(order) + i] = todo[i]
      BY <1>2, <1>3, <2>4
    <3> QED BY <2>1, <2>4, <3>1, Zenon
  <2> QED BY <2>1, <2>2, <2>3, <2>4, Zenon
<1> HIDE DEF u
<1>6. CASE todo = <<[under |-> <<>>, info |-> FTS_D]>> /\ directories = {} /\ files = {}
  <2>1. Len(todo) = 1 /\ u = <<>> /\ Len(u) = 0 /\ found = {} /\ files = {}
    BY <1>6 DEF u
  <2>2. p \o u = p
    BY <2>1, EmptySeq, ConcatIs
  <2>3. \A i \in 2 .. Len(todo) : FALSE
    BY <2>1
  <2> HIDE <1>6
  <2>4. \A c \in Children(f, p) : Append(u, Last(c)) = <<Last(c)>>
    BY <2>1
  <2>5. /\ \A i \in 1 .. Len(order) : order[i] \in Children(f, p)
        /\ \A c \in Children(f, p) : \E i \in 1 .. Len(order) : order[i] = c
    BY <2>2 DEF u
  <2>6. ASSUME NEW infos, FTS_DP \notin infos, NEW kinds,
               \A c \in Children(f, p) : Info[KindIn(f, c)] \in infos <=> f[c].kind \in kinds
        PROVE  Pending(new, infos) = Named(f, p, kinds)
    <3>1. Named(f, p, kinds) = {<<Last(c)>> : c \in {c \in Children(f, p) : f[c].kind \in kinds}}
      BY NamedIs
    <3>2. ASSUME NEW x PROVE x \in Pending(new, infos) <=> \E i \in 1 .. Len(order) : new[i].under = x /\ Len(x) = 1 /\ new[i].info \in infos
      BY <1>5, <2>3, <2>6, Zenon
    <3>3. \A i \in 1 .. Len(order) : new[i].under = <<Last(order[i])>> /\ Len(new[i].under) = 1 /\ new[i].info = Info[KindIn(f, order[i])]
      <4>1. \A i \in 1 .. Len(order) : Len(new[i].under) = 1
        BY <1>1, <2>1
      <4> QED BY <1>2, <2>4, <2>5, <4>1, Zenon
    <3>4. \A i \in 1 .. Len(order) : new[i].info \in infos <=> f[order[i]].kind \in kinds
      BY <2>5, <2>6, <3>3, Zenon
    <3>5. \A x : x \in Named(f, p, kinds) <=> \E c \in Children(f, p) : x = <<Last(c)>> /\ f[c].kind \in kinds
      BY <3>1
    <3>6. ASSUME NEW x, x \in Pending(new, infos) PROVE x \in Named(f, p, kinds)
      <4>1. PICK i \in 1 .. Len(order) : new[i].under = x /\ new[i].info \in infos
        BY <3>2, <3>6
      <4>2. PICK c : c = order[i]
        OBVIOUS
      <4>3. c \in Children(f, p) /\ x = <<Last(c)>> /\ f[c].kind \in kinds
        BY <2>5, <3>3, <3>4, <4>1, <4>2
      <4> QED BY <3>5, <4>3, Zenon
    <3>7. ASSUME NEW x, x \in Named(f, p, kinds) PROVE x \in Pending(new, infos)
      <4>1. PICK c \in Children(f, p) : x = <<Last(c)>> /\ f[c].kind \in kinds
        BY <3>5, <3>7
      <4>2. PICK i \in 1 .. Len(order) : order[i] = c
        BY <2>5
      <4>3. new[i].under = x /\ Len(x) = 1 /\ new[i].info \in infos
        BY <3>3, <3>4, <4>1, <4>2
      <4> QED BY <3>2, <4>3, Zenon
    <3> QED BY <3>6, <3>7
  <2>7. \A c \in Children(f, p) : KindIn(f, c) = f[c].kind
    BY DEF Children, Below, KindIn
  <2>8. ASSUME NEW c \in Children(f, p)
        PROVE  /\ Info[KindIn(f, c)] \in {FTS_D, 3} <=> f[c].kind \in {"directory", "fifo"}
               /\ Info[KindIn(f, c)] \in {FTS_F, 10, 12} <=> f[c].kind \in {"file", "link"}
    <3>1. f[c].kind = KindIn(f, c) /\ KindIn(f, c) # "none" /\ KindIn(f, c) \in {"directory", "fifo", "file", "none", "link"}
      <4>1. c \in DOMAIN f
        BY DEF Children, Below
      <4> QED BY <2>7, <4>1, KindIs
    <3>2. PICK k : k = KindIn(f, c)
      OBVIOUS
    <3>3. k \in {"directory", "fifo", "file", "link"}
      BY <3>1, <3>2
    <3> HIDE <3>2
    <3>4. /\ Info[k] \in {FTS_D, 3} <=> k \in {"directory", "fifo"}
          /\ Info[k] \in {FTS_F, 10, 12} <=> k \in {"file", "link"}
      BY <3>3, InfoIs
    <3> QED BY <3>1, <3>2, <3>4
  <2>9. FTS_DP \notin {FTS_D, 3} /\ FTS_DP \notin {FTS_F, 10, 12}
    BY <1>4
  <2>10. /\ Pending(new, {FTS_D, 3}) = Named(f, p, {"directory", "fifo"})
         /\ Pending(new, {FTS_F, 10, 12}) = Named(f, p, {"file", "link"})
    BY <2>6, <2>8, <2>9
  <2>11. ASSUME NEW i \in DOMAIN new, new[i].under = <<>> PROVE new[i].info = FTS_DP
    <3>1. i \notin 1 .. Len(order)
      BY <1>1, <2>1, <2>11
    <3> QED BY <1>1, <1>2, <2>3, <2>11, <3>1, Zenon
  <2> QED BY <1>1, <2>1, <2>10, <2>11 DEF Listing
<1>7. CASE /\ \A i \in DOMAIN todo : todo[i].under = <<>> => todo[i].info = FTS_DP
           /\ directories \cup Pending(todo, {FTS_D, 3}) = Named(f, p, {"directory", "fifo"})
           /\ files \cup Pending(todo, {FTS_F, 10, 12}) = Named(f, p, {"file", "link"})
  <2>1. u # <<>> /\ Len(u) > 0
    <3>1. 1 \in DOMAIN todo /\ u \in Seq(Names)
      <4>1. todo[1] \in Visits /\ 1 \in DOMAIN todo
        BY <1>1
      <4> QED BY <4>1 DEF Visits, u
    <3>2. u # <<>>
      BY <1>4, <1>7, <3>1 DEF u
    <3> QED BY <3>1, <3>2, EmptySeq
  <2>2. ASSUME NEW infos, FTS_DP \notin infos PROVE Pending(new, infos) = Pending(Tail(todo), infos)
    <3>1. \A i \in 1 .. Len(order) : Len(new[i].under) # 1
      <4>1. \A i \in 1 .. Len(order) : Len(new[i].under) = Len(u) + 1
        BY <1>1
      <4>2. Len(u) \in Nat
        BY <1>1
      <4>3. PICK m : m = Len(u)
        OBVIOUS
      <4>4. m \in Nat /\ m > 0 /\ m + 1 # 1
        BY <2>1, <4>2, <4>3
      <4> QED BY <4>1, <4>3, <4>4, Zenon
    <3>2. \A x : x \in Pending(Tail(todo), infos) <=>
                  \E i \in 2 .. Len(todo) : todo[i].under = x /\ Len(x) = 1 /\ todo[i].info \in infos
      BY PendingSplit
    <3>3. ASSUME NEW x PROVE x \in Pending(new, infos) <=> x \in Pending(Tail(todo), infos)
      <4>1. x \in Pending(new, infos) <=>
               \/ \E i \in 1 .. Len(order) : new[i].under = x /\ Len(x) = 1 /\ new[i].info \in infos
               \/ \E i \in 2 .. Len(todo) : todo[i].under = x /\ Len(x) = 1 /\ todo[i].info \in infos
        BY <1>5, <2>2, Zenon
      <4>2. ~ \E i \in 1 .. Len(order) : new[i].under = x /\ Len(x) = 1 /\ new[i].info \in infos
        BY <3>1, Zenon
      <4> QED BY <3>2, <4>1, <4>2, Zenon
    <3> QED BY <3>3
  <2>3. FTS_DP \notin {FTS_D, 3} /\ FTS_DP \notin {FTS_F, 10, 12}
    BY <1>4
  <2>4. /\ Pending(todo, {FTS_D, 3}) = Pending(Tail(todo), {FTS_D, 3}) \cup (IF Len(u) = 1 THEN {u} ELSE {})
        /\ Pending(todo, {FTS_F, 10, 12}) = Pending(Tail(todo), {FTS_F, 10, 12})
    <3>1. todo[1].info \in {FTS_D, 3} /\ todo[1].info \notin {FTS_F, 10, 12}
      BY <1>4
    <3>2. \A infos : Pending(todo, infos) =
                  Pending(Tail(todo), infos)
                      \cup (IF Len(todo[1].under) = 1 /\ todo[1].info \in infos THEN {todo[1].under} ELSE {})
      BY PendingSplit
    <3> QED BY <3>1, <3>2 DEF u
  <2>5. found \cup Pending(new, {FTS_D, 3}) = directories \cup Pending(todo, {FTS_D, 3})
    BY <2>2, <2>3, <2>4 DEF u
  <2>6. files \cup Pending(new, {FTS_F, 10, 12}) = files \cup Pending(todo, {FTS_F, 10, 12})
    BY <2>2, <2>3, <2>4
  <2>7. ASSUME NEW i \in DOMAIN new, new[i].under = <<>> PROVE new[i].info = FTS_DP
    <3>1. i \notin 1 .. Len(order)
      BY <1>1, <2>7, EmptySeq
    <3>2. CASE i = Len(order) + 1
      BY <1>2, <3>2, Zenon
    <3>3. ASSUME NEW k \in 2 .. Len(todo), i = Len(order) + k PROVE new[i].info = FTS_DP
      <4>1. new[i] = todo[k] /\ k \in DOMAIN todo
        BY <1>2, <1>3, <3>3, Zenon
      <4> QED BY <1>7, <2>7, <4>1, Zenon
    <3> QED BY <1>1, <2>7, <3>1, <3>2, <3>3, Zenon
  <2> QED BY <1>1, <1>7, <2>5, <2>6, <2>7 DEF Listing
<1> QED BY <1>6, <1>7, Zenon DEF Listing

LEMMA ListingGoesOn ==
    ASSUME NEW f, NEW n, Rooted(f, n), NEW p \in Seq(Names), NEW todo \in Seq(Visits), todo # <<>>,
           NEW e, e = todo[1], e.info # FTS_D,
           NEW directories, NEW files, Listing(todo, directories, files, f, p), NEW a, NEW b,
           a = IF Len(e.under) = 1 /\ Has(e.info, FTS_D) THEN directories \cup {e.under} ELSE directories,
           b = IF Len(e.under) = 1 /\ ~Has(e.info, FTS_D) /\ Has(e.info, FTS_F) THEN files \cup {e.under} ELSE files
    PROVE  Listing(Tail(todo), a, b, f, p)
<1> DEFINE rest == Tail(todo)
<1>1. /\ Len(todo) \in Nat /\ Len(todo) >= 1 /\ DOMAIN todo = 1 .. Len(todo)
      /\ DOMAIN rest = 1 .. Len(todo) - 1 /\ \A i \in 1 .. Len(todo) - 1 : rest[i] = todo[i + 1]
  BY TailIs
<1> HIDE DEF rest
<1>2. \A i \in DOMAIN rest : i + 1 \in DOMAIN todo /\ rest[i] = todo[i + 1]
  BY <1>1
<1>3. e.info \in Infos
  <2>1. todo[1] \in Visits
    BY <1>1
  <2> QED BY <2>1 DEF Visits
<1>4. /\ Has(e.info, FTS_D) <=> e.info \in {FTS_D, 3}
      /\ ~Has(e.info, FTS_D) /\ Has(e.info, FTS_F) <=> e.info \in {FTS_F, 10, 12}
  BY <1>3, BitsOf, InfoIs
<1>5. /\ \A i \in DOMAIN todo : todo[i].under = <<>> => todo[i].info = FTS_DP
      /\ directories \cup Pending(todo, {FTS_D, 3}) = Named(f, p, {"directory", "fifo"})
      /\ files \cup Pending(todo, {FTS_F, 10, 12}) = Named(f, p, {"file", "link"})
  <2>1. todo # <<[under |-> <<>>, info |-> FTS_D]>>
    <3>1. todo = <<[under |-> <<>>, info |-> FTS_D]>> => todo[1].info = FTS_D
      OBVIOUS
    <3> QED BY <3>1
  <2> QED BY <2>1, Zenon DEF Listing
<1>6. \A infos : Pending(todo, infos) =
                  Pending(rest, infos) \cup (IF Len(e.under) = 1 /\ e.info \in infos THEN {e.under} ELSE {})
  BY PendingSplit DEF rest
<1>7. a \cup Pending(rest, {FTS_D, 3}) = directories \cup Pending(todo, {FTS_D, 3})
  <2>1. Pending(todo, {FTS_D, 3}) = Pending(rest, {FTS_D, 3}) \cup (IF Len(e.under) = 1 /\ e.info \in {FTS_D, 3} THEN {e.under} ELSE {})
    BY <1>6
  <2> QED BY <1>4, <2>1
<1>8. b \cup Pending(rest, {FTS_F, 10, 12}) = files \cup Pending(todo, {FTS_F, 10, 12})
  <2>1. Pending(todo, {FTS_F, 10, 12}) = Pending(rest, {FTS_F, 10, 12}) \cup (IF Len(e.under) = 1 /\ e.info \in {FTS_F, 10, 12} THEN {e.under} ELSE {})
    BY <1>6
  <2> QED BY <1>4, <2>1
<1>9. \A i \in DOMAIN rest : Matches(f, rest[i], p \o rest[i].under) /\ (rest[i].under = <<>> => rest[i].info = FTS_DP)
  <2>1. \A i \in DOMAIN todo : Matches(f, todo[i], p \o todo[i].under)
    BY DEF Listing
  <2> QED BY <1>2, <1>5, <2>1, Zenon
<1>10. Listing(rest, a, b, f, p)
  BY <1>5, <1>7, <1>8, <1>9 DEF Listing
<1> QED BY <1>10 DEF rest

-----------------------------------------------------------------------------
(* delete_directory *)

\* Where the entries left to visit are
LEMMA VisitsAre ==
    ASSUME NEW p \in Seq(Names), NEW todo \in Seq(Visits), todo # <<>>
    PROVE  /\ Len(todo) \in Nat /\ Len(todo) >= 1 /\ DOMAIN todo = 1 .. Len(todo)
           /\ \A i \in DOMAIN todo : todo[i].under \in Seq(Names) /\ p \o todo[i].under \in Seq(Names) /\ todo[i].info \in Infos
<1>1. Len(todo) \in Nat /\ Len(todo) >= 1 /\ DOMAIN todo = 1 .. Len(todo)
  BY TailIs
<1>2. ASSUME NEW i \in DOMAIN todo
      PROVE  todo[i].under \in Seq(Names) /\ p \o todo[i].under \in Seq(Names) /\ todo[i].info \in Infos
  <2>1. todo[i] \in Visits
    BY <1>1, <1>2, ElementOfSeq
  <2>2. todo[i].under \in Seq(Names) /\ todo[i].info \in Infos
    BY <2>1 DEF Visits
  <2> QED BY <2>2, ConcatIs
<1> QED BY <1>1, <1>2

LEMMA ClearingDescends ==
    ASSUME NEW f, NEW n, Rooted(f, n), NEW p \in Seq(Names), NEW todo \in Seq(Visits), todo # <<>>,
           Clearing(todo, f, p), KindIn(f, p \o todo[1].under) = "directory",
           NEW order, Len(order) \in Nat, \A i \in 1 .. Len(order) : order[i] \in Children(f, p \o todo[1].under),
           \A i, k \in 1 .. Len(order) : order[i] = order[k] => i = k,
           \A c \in Children(f, p \o todo[1].under) : \E i \in 1 .. Len(order) : order[i] = c,
           NEW new, Reads(todo, new, order, f)
    PROVE  Clearing(new, f, p)
<1>0. \A i \in DOMAIN todo : Matches(f, todo[i], p \o todo[i].under)
  BY Zenon DEF Clearing
<1> DEFINE n1 == Len(order)
           w(i) == p \o todo[i].under
           z(i) == p \o new[i].under
<1>1. /\ \A i \in DOMAIN new : Matches(f, new[i], p \o new[i].under)
      /\ \A i \in 1 .. n1 : z(i) = order[i] /\ new[i].info # FTS_DP
  <2>1. \A i \in DOMAIN new : Matches(f, new[i], p \o new[i].under)
    BY <1>0, ReadsMatch
  <2>2. Sits(p, todo[1].under, new, order)
    BY <1>0, ReadsMatch
  <2> QED BY <2>1, <2>2, Zenon DEF Sits
<1>2. /\ Len(todo) \in Nat /\ Len(todo) >= 1 /\ DOMAIN todo = 1 .. Len(todo)
      /\ \A i \in DOMAIN todo : w(i) \in Seq(Names)
  BY VisitsAre
<1>3. DOMAIN new = 1 .. n1 + Len(todo) /\ n1 \in Nat
  BY DEF Reads
<1>4. \A i \in DOMAIN new : i \in 1 .. n1 \/ i = n1 + 1 \/ \E k \in 2 .. Len(todo) : i = n1 + k
  <2> SUFFICES ASSUME NEW i \in DOMAIN new, i \notin 1 .. n1, i # n1 + 1 PROVE \E k \in 2 .. Len(todo) : i = n1 + k
    OBVIOUS
  <2>1. i - n1 \in 2 .. Len(todo) /\ i = n1 + (i - n1)
    BY <1>2, <1>3
  <2> QED BY <2>1
<1>5. new[n1 + 1].under = todo[1].under /\ z(n1 + 1) = w(1) /\ new[n1 + 1].info = FTS_DP
  BY DEF Reads
<1>6. \A k \in 2 .. Len(todo) : new[n1 + k] = todo[k] /\ z(n1 + k) = w(k) /\ k \in DOMAIN todo
  <2>1. \A k \in 2 .. Len(todo) : k \in DOMAIN todo
    BY <1>2
  <2>2. \A k \in 2 .. Len(todo) : new[n1 + k] = todo[k]
    BY Zenon DEF Reads
  <2> QED BY <2>1, <2>2, Zenon
<1>7. /\ 1 \in DOMAIN todo /\ n1 + 1 \in DOMAIN new
      /\ \A i \in 1 .. n1 : i \in DOMAIN new
      /\ \A k \in 2 .. Len(todo) : n1 + k \in DOMAIN new
      /\ \A k \in 2 .. Len(todo) : 1 < k
      /\ \A k \in DOMAIN todo : k = 1 \/ k \in 2 .. Len(todo)
  BY <1>2, <1>3
<1>8. \A c \in Children(f, w(1)) : c \in DOMAIN f /\ c \in Seq(Names) /\ IsPrefix(w(1), c) /\ Len(c) = Len(w(1)) + 1
  BY RootedIs DEF Children, Below, IsStrictPrefix
<1>9. \A i \in 1 .. n1 : order[i] \in Children(f, w(1))
  OBVIOUS
<1>10. /\ \A i \in DOMAIN todo : todo[i].under = <<>> \/ w(i) \in DOMAIN f
       /\ \A i, k \in DOMAIN todo : i < k => ~IsPrefix(w(i), w(k))
       /\ \A s \in DOMAIN f : IsPrefix(p, s) => \E i \in DOMAIN todo : IsPrefix(w(i), s)
       /\ \A i \in DOMAIN todo : todo[i].info = FTS_DP =>
              \A s \in DOMAIN f : IsStrictPrefix(w(i), s) => \E k \in DOMAIN todo : k < i /\ IsPrefix(w(k), s)
  BY DEF Clearing
<1>11. \A s \in DOMAIN f : IsStrictPrefix(w(1), s) => \E c \in Children(f, w(1)) : IsPrefix(c, s)
  BY <1>2, <1>7, ChildOf
<1>12. \A c \in Children(f, w(1)) : \E i \in 1 .. n1 : order[i] = c
  OBVIOUS
<1>13. \A i, k \in 1 .. n1 : order[i] = order[k] => i = k
  OBVIOUS
<1>14. Len(w(1)) \in Nat
  BY <1>2, <1>7
<1> HIDE DEF n1, w, z
\* The places of the entries
<1>15. ASSUME NEW i \in DOMAIN new
       PROVE  new[i].under = <<>> \/ z(i) \in DOMAIN f
  <2>1. CASE i \in 1 .. n1
    BY <1>1, <1>8, <1>9, <2>1
  <2>2. CASE i = n1 + 1
    BY <1>5, <1>7, <1>10, <2>2
  <2>3. ASSUME NEW k \in 2 .. Len(todo), i = n1 + k PROVE new[i].under = <<>> \/ z(i) \in DOMAIN f
    BY <1>6, <1>10, <2>3
  <2> QED BY <1>4, <2>1, <2>2, <2>3
\* Nothing twice
<1>16. ASSUME NEW i \in DOMAIN new, NEW k \in DOMAIN new, i < k
       PROVE  ~IsPrefix(z(i), z(k))
  <2>1. CASE i \in 1 .. n1
    <3>1. z(i) = order[i] /\ order[i] \in Children(f, w(1)) /\ order[i] \in Seq(Names)
      BY <1>1, <1>8, <1>9, <2>1
    <3>2. IsPrefix(w(1), order[i]) /\ Len(order[i]) = Len(w(1)) + 1
      BY <1>8, <3>1
    <3>3. CASE k \in 1 .. n1
      <4>1. z(k) = order[k] /\ order[k] \in Seq(Names) /\ Len(order[k]) = Len(w(1)) + 1
        BY <1>1, <1>8, <1>9, <3>3
      <4>2. order[i] # order[k]
        BY <1>3, <1>13, <1>16, <2>1, <3>3
      <4>3. Len(order[k]) <= Len(order[i])
        BY <1>14, <3>2, <4>1
      <4> QED BY <3>1, <4>1, <4>2, <4>3, PrefixSame
    <3>4. CASE k = n1 + 1
      <4>1. z(k) = w(1) /\ w(1) \in Seq(Names)
        BY <1>2, <1>5, <1>7, <3>4
      <4>2. ~(Len(order[i]) <= Len(w(1)))
        BY <1>14, <3>2
      <4> QED BY <3>1, <4>1, <4>2, PrefixIs
    <3>5. ASSUME NEW m \in 2 .. Len(todo), k = n1 + m PROVE ~IsPrefix(z(i), z(k))
      <4>1. z(k) = w(m) /\ m \in DOMAIN todo /\ 1 < m /\ w(m) \in Seq(Names) /\ w(1) \in Seq(Names) /\ 1 \in DOMAIN todo
        BY <1>2, <1>6, <1>7, <3>5
      <4>2. ~IsPrefix(w(1), w(m))
        BY <1>10, <4>1
      <4> QED BY <3>1, <3>2, <4>1, <4>2, PrefixTrans
    <3> QED BY <1>4, <3>3, <3>4, <3>5
  <2>2. CASE i = n1 + 1
    <3>1. PICK m \in 2 .. Len(todo) : k = n1 + m
      <4>1. k \notin 1 .. n1 /\ k # n1 + 1
        BY <1>3, <1>16, <2>2
      <4> QED BY <1>4, <4>1
    <3>2. z(i) = w(1) /\ z(k) = w(m) /\ m \in DOMAIN todo /\ 1 < m /\ 1 \in DOMAIN todo
      BY <1>5, <1>6, <1>7, <2>2, <3>1
    <3> QED BY <1>10, <3>2
  <2>3. ASSUME NEW l \in 2 .. Len(todo), i = n1 + l PROVE ~IsPrefix(z(i), z(k))
    <3>1. PICK m \in 2 .. Len(todo) : k = n1 + m
      <4>1. k \notin 1 .. n1 /\ k # n1 + 1
        BY <1>3, <1>16, <2>3
      <4> QED BY <1>4, <4>1
    <3>2. z(i) = w(l) /\ z(k) = w(m) /\ m \in DOMAIN todo /\ l \in DOMAIN todo
      BY <1>6, <2>3, <3>1
    <3>3. l < m
      BY <1>3, <1>16, <2>3, <3>1
    <3> QED BY <1>10, <3>2, <3>3
  <2> QED BY <1>4, <2>1, <2>2, <2>3
\* All that is below the directory
<1>17. ASSUME NEW s \in DOMAIN f, IsPrefix(p, s)
       PROVE  \E i \in DOMAIN new : IsPrefix(z(i), s)
  <2>1. PICK k \in DOMAIN todo : IsPrefix(w(k), s)
    BY <1>10, <1>17
  <2>2. CASE k = 1
    BY <1>5, <1>7, <2>1, <2>2
  <2>3. CASE k \in 2 .. Len(todo)
    BY <1>6, <1>7, <2>1, <2>3
  <2> QED BY <1>7, <2>2, <2>3
\* What is below a directory that was read
<1>18. ASSUME NEW i \in DOMAIN new, new[i].info = FTS_DP, NEW s \in DOMAIN f, IsStrictPrefix(z(i), s)
       PROVE  \E k \in DOMAIN new : k < i /\ IsPrefix(z(k), s)
  <2>1. i \notin 1 .. n1
    BY <1>1, <1>18
  <2>2. CASE i = n1 + 1
    <3>1. PICK c \in Children(f, w(1)) : IsPrefix(c, s)
      BY <1>5, <1>11, <1>18, <2>2
    <3>2. PICK k \in 1 .. n1 : order[k] = c
      BY <1>12
    <3>3. k \in DOMAIN new /\ z(k) = c /\ k < i
      BY <1>1, <1>3, <1>7, <2>2, <3>2
    <3> QED BY <3>1, <3>3
  <2>3. ASSUME NEW m \in 2 .. Len(todo), i = n1 + m PROVE \E k \in DOMAIN new : k < i /\ IsPrefix(z(k), s)
    <3>1. m \in DOMAIN todo /\ todo[m].info = FTS_DP /\ IsStrictPrefix(w(m), s)
      BY <1>6, <1>18, <2>3
    <3>2. PICK l \in DOMAIN todo : l < m /\ IsPrefix(w(l), s)
      BY <1>10, <3>1
    <3>3. CASE l = 1
      <4>1. n1 + 1 < i /\ z(n1 + 1) = w(1) /\ n1 + 1 \in DOMAIN new
        BY <1>3, <1>5, <1>7, <2>3
      <4> QED BY <3>2, <3>3, <4>1
    <3>4. CASE l \in 2 .. Len(todo)
      <4>1. n1 + l < i /\ z(n1 + l) = w(l) /\ n1 + l \in DOMAIN new
        BY <1>3, <1>6, <1>7, <2>3, <3>2, <3>4
      <4> QED BY <3>2, <4>1
    <3> QED BY <1>7, <3>3, <3>4
  <2> QED BY <1>4, <2>1, <2>2, <2>3
<1> QED BY <1>1, <1>15, <1>16, <1>17, <1>18, Zenon DEF Clearing, z

\* What is taken away had nothing below it.
LEMMA UnlinkIs ==
    ASSUME NEW n, Rooted(tree, n), NEW p \in Seq(Names), Unlink(p)
    PROVE  /\ p \in DOMAIN tree /\ p # <<>>
           /\ \A s \in DOMAIN tree : ~IsStrictPrefix(p, s)
           /\ DOMAIN Removed(p) = DOMAIN tree \ {p}
           /\ \A s : s # p => KindIn(Removed(p), s) = KindIn(tree, s)
           /\ \A s \in DOMAIN tree \ {p} : Removed(p)[s] = tree[s]
<1>1. p \in DOMAIN tree
  BY DEF Unlink, Rmdir, Directory, Kind, KindIn
<1>2. ASSUME NEW s \in DOMAIN tree, IsStrictPrefix(p, s) PROVE FALSE
  <2>1. tree[p].kind = "directory"
    BY <1>2, Ancestors
  <2>2. s \in Below(tree, p)
    BY <1>2 DEF Below
  <2> QED BY <1>1, <2>1, <2>2 DEF Unlink, Rmdir, Kind, KindIn
<1>3. p # <<>>
  <2>1. p = <<>> => tree[p].kind = "directory"
    BY <1>1, RootedIs
  <2> QED BY <1>1, <2>1 DEF Unlink, Rmdir, Kind, KindIn
<1>4. /\ DOMAIN Removed(p) = DOMAIN tree \ {p}
      /\ \A s \in DOMAIN tree \ {p} : Removed(p)[s] = tree[s]
  BY DEF Removed
<1>5. \A s : s # p => KindIn(Removed(p), s) = KindIn(tree, s)
  BY <1>4 DEF KindIn
<1> QED BY <1>1, <1>2, <1>3, <1>4, <1>5

LEMMA ClearingErases ==
    ASSUME NEW n, Rooted(tree, n), NEW p \in Seq(Names), NEW todo \in Seq(Visits), todo # <<>>,
           Clearing(todo, tree, p), Unlink(p \o todo[1].under)
    PROVE  Clearing(Tail(todo), Removed(p \o todo[1].under), p)
<1> DEFINE w(i) == p \o todo[i].under
           g == Removed(w(1))
           rest == Tail(todo)
<1>1. /\ Len(todo) \in Nat /\ Len(todo) >= 1 /\ DOMAIN todo = 1 .. Len(todo)
      /\ \A i \in DOMAIN todo : w(i) \in Seq(Names)
  BY VisitsAre
<1>2. DOMAIN rest = 1 .. Len(todo) - 1 /\ \A i \in 1 .. Len(todo) - 1 : rest[i] = todo[i + 1]
  BY TailIs
<1>3. 1 \in DOMAIN todo /\ w(1) \in Seq(Names)
  BY <1>1
<1>4. /\ \A s \in DOMAIN tree : ~IsStrictPrefix(w(1), s)
      /\ DOMAIN g = DOMAIN tree \ {w(1)}
      /\ \A s : s # w(1) => KindIn(g, s) = KindIn(tree, s)
  BY <1>3, UnlinkIs
<1>5. /\ \A i \in DOMAIN todo : Matches(tree, todo[i], w(i))
      /\ \A i \in DOMAIN todo : todo[i].under = <<>> \/ w(i) \in DOMAIN tree
      /\ \A i, k \in DOMAIN todo : i < k => ~IsPrefix(w(i), w(k))
      /\ \A s \in DOMAIN tree : IsPrefix(p, s) => \E i \in DOMAIN todo : IsPrefix(w(i), s)
      /\ \A i \in DOMAIN todo : todo[i].info = FTS_DP =>
             \A s \in DOMAIN tree : IsStrictPrefix(w(i), s) => \E k \in DOMAIN todo : k < i /\ IsPrefix(w(k), s)
  BY DEF Clearing
<1>6. \A i \in DOMAIN rest : i + 1 \in DOMAIN todo /\ rest[i] = todo[i + 1] /\ p \o rest[i].under = w(i + 1) /\ 1 < i + 1
  BY <1>1, <1>2
<1> HIDE DEF w, g, rest
<1>7. \A i \in DOMAIN todo : 1 < i => w(i) # w(1)
  BY <1>3, <1>5, PrefixOfItself
\* What is at or below the first is gone.
<1>8. ASSUME NEW s \in DOMAIN g, NEW k \in DOMAIN todo, IsPrefix(w(k), s)
      PROVE  k - 1 \in DOMAIN rest /\ IsPrefix(p \o rest[k - 1].under, s)
  <2>1. s \in DOMAIN tree /\ s # w(1)
    BY <1>4
  <2>2. k # 1
    BY <1>4, <1>8, <2>1 DEF IsStrictPrefix
  <2>3. k - 1 \in DOMAIN rest /\ (k - 1) + 1 = k
    BY <1>1, <1>2, <2>2
  <2>4. p \o rest[k - 1].under = w(k)
    BY <1>6, <2>3
  <2> QED BY <1>8, <2>3, <2>4
<1>9. ASSUME NEW i \in DOMAIN rest
      PROVE  /\ Matches(g, rest[i], p \o rest[i].under)
             /\ rest[i].under = <<>> \/ p \o rest[i].under \in DOMAIN g
  <2>1. i + 1 \in DOMAIN todo /\ rest[i] = todo[i + 1] /\ p \o rest[i].under = w(i + 1) /\ w(i + 1) # w(1)
    BY <1>6, <1>7
  <2>2. KindIn(g, w(i + 1)) = KindIn(tree, w(i + 1))
    BY <1>4, <2>1
  <2>3. Matches(tree, todo[i + 1], w(i + 1))
    BY <1>5, <2>1
  <2>4. todo[i + 1].under = <<>> \/ w(i + 1) \in DOMAIN g
    BY <1>4, <1>5, <2>1
  <2> QED BY <2>1, <2>2, <2>3, <2>4, Zenon DEF Matches
<1>10. ASSUME NEW i \in DOMAIN rest, NEW k \in DOMAIN rest, i < k
       PROVE  ~IsPrefix(p \o rest[i].under, p \o rest[k].under)
  <2>1. i + 1 < k + 1
    BY <1>1, <1>2, <1>10
  <2> QED BY <1>5, <1>6, <2>1
<1>11. ASSUME NEW s \in DOMAIN g, IsPrefix(p, s) PROVE \E i \in DOMAIN rest : IsPrefix(p \o rest[i].under, s)
  <2>1. PICK k \in DOMAIN todo : IsPrefix(w(k), s)
    BY <1>4, <1>5, <1>11
  <2> QED BY <1>8, <2>1
<1>12. ASSUME NEW i \in DOMAIN rest, rest[i].info = FTS_DP, NEW s \in DOMAIN g, IsStrictPrefix(p \o rest[i].under, s)
       PROVE  \E k \in DOMAIN rest : k < i /\ IsPrefix(p \o rest[k].under, s)
  <2>1. i + 1 \in DOMAIN todo /\ todo[i + 1].info = FTS_DP /\ IsStrictPrefix(w(i + 1), s) /\ s \in DOMAIN tree
    BY <1>4, <1>6, <1>12
  <2>2. PICK k \in DOMAIN todo : k < i + 1 /\ IsPrefix(w(k), s)
    BY <1>5, <2>1
  <2>3. k - 1 \in DOMAIN rest /\ IsPrefix(p \o rest[k - 1].under, s)
    BY <1>8, <2>2
  <2>4. k - 1 < i
    BY <1>1, <1>2, <2>2
  <2> QED BY <2>3, <2>4
<1>13. Clearing(rest, g, p)
  BY <1>9, <1>10, <1>11, <1>12, Zenon DEF Clearing
<1> QED BY <1>13, Zenon DEF rest, g, w

\* What is left when the first cannot be taken away
LEMMA ClearingFails ==
    ASSUME NEW n, Rooted(tree, n), NEW p \in Seq(Names), p # <<>>, NEW todo \in Seq(Visits), todo # <<>>,
           Clearing(todo, tree, p), NEW e, e = todo[1], e.info # FTS_D, NEW q, q = p \o e.under, ~Erases(e, q)
    PROVE  p \notin DOMAIN tree \/ \E s \in DOMAIN tree : IsPrefix(p, s) /\ tree[s].kind \in {"link", "fifo"}
<1>1. /\ Len(todo) \in Nat /\ Len(todo) >= 1 /\ DOMAIN todo = 1 .. Len(todo)
      /\ e.under \in Seq(Names) /\ e.info \in Infos /\ 1 \in DOMAIN todo
  BY VisitsAre
<1>2. IsPrefix(p, q) /\ q # <<>> /\ q \in Seq(Names) /\ (e.under = <<>> => q = p)
  BY <1>1, ConcatIs
<1>3. Matches(tree, e, q) /\ (e.under = <<>> \/ q \in DOMAIN tree)
  BY <1>1 DEF Clearing
<1>4. CASE q \notin DOMAIN tree
  BY <1>2, <1>3, <1>4
<1>5. CASE q \in DOMAIN tree /\ tree[q].kind \in {"link", "fifo"}
  BY <1>2, <1>5
<1>6. CASE q \in DOMAIN tree /\ tree[q].kind \notin {"link", "fifo"}
  <2>1. KindIn(tree, q) = tree[q].kind /\ KindIn(tree, q) \in {"file", "directory"}
    BY <1>6, RootedIs DEF KindIn
  <2>2. CASE e.info = FTS_DP
    <3>1. KindIn(tree, q) = "directory"
      BY <1>3, <2>2 DEF Matches
    <3>2. ASSUME NEW s \in DOMAIN tree, IsStrictPrefix(q, s) PROVE FALSE
      <4>1. \E k \in DOMAIN todo : k < 1 /\ IsPrefix(p \o todo[k].under, s)
        BY <1>1, <2>2, <3>2 DEF Clearing
      <4> QED BY <1>1, <4>1
    <3>3. Rmdir(q)
      BY <1>2, <3>1, <3>2 DEF Rmdir, Directory, Kind, Below
    <3>4. Has(e.info, FTS_DP)
      BY <1>1, <2>2, BitsOf, InfoIs
    <3> QED BY <3>3, <3>4 DEF Erases
  <2>3. CASE e.info # FTS_DP
    <3>1. e.info = Info[KindIn(tree, q)]
      BY <1>3, <2>3 DEF Matches
    <3>2. KindIn(tree, q) = "file" /\ e.info = 8
      BY <2>1, <3>1, KindIs, InfoIs
    <3>3. Unlink(q)
      BY <3>2 DEF Unlink, Kind
    <3>4. ~Has(e.info, FTS_DP)
      BY <1>1, <3>2, BitsOf, InfoIs
    <3> QED BY <3>3, <3>4 DEF Erases
  <2> QED BY <2>2, <2>3
<1> QED BY <1>4, <1>5, <1>6

-----------------------------------------------------------------------------
(* delete_directory of a relative path *)

LEMMA StrayingDescends ==
    ASSUME NEW f, NEW n, Rooted(f, n), NEW p \in Seq(Names), NEW todo \in Seq(Visits), todo # <<>>,
           NEW c, NEW home, Straying(todo, f, p, c, home), KindIn(f, p \o todo[1].under) = "directory",
           NEW order, Len(order) \in Nat, \A i \in 1 .. Len(order) : order[i] \in Children(f, p \o todo[1].under),
           NEW new, Reads(todo, new, order, f),
           NEW c2, c2 = IF Len(order) = 0 THEN c ELSE p \o todo[1].under
    PROVE  Straying(new, f, p, c2, home)
<1> DEFINE u == todo[1].under
           last == Len(order) + Len(todo)
<1>1. /\ Len(todo) \in Nat /\ Len(todo) >= 1 /\ DOMAIN todo = 1 .. Len(todo)
      /\ u \in Seq(Names) /\ 1 \in DOMAIN todo
  BY VisitsAre
<1>2. DOMAIN new = 1 .. last /\ Len(new) = last
  BY DEF Reads
<1>3. new[Len(order) + 1].under = u /\ new[Len(order) + 1].info = FTS_DP
  BY DEF Reads
<1>4. \A k \in 2 .. Len(todo) : new[Len(order) + k] = todo[k]
  BY DEF Reads
<1>5. /\ \A i \in DOMAIN todo : todo[i].under = <<>> <=> i = Len(todo)
      /\ \A i \in DOMAIN todo : i = Len(todo) => Matches(f, todo[i], p)
      /\ Len(todo) > 1 => todo[Len(todo)].info = FTS_DP /\ IsPrefix(p, c) /\ Below(f, p) # {}
  BY DEF Straying
<1>6. \A i \in 1 .. Len(order) : new[i].under # <<>>
  <2>1. ASSUME NEW i \in 1 .. Len(order) PROVE new[i].under # <<>>
    <3>1. PICK s \in Children(f, p \o u) : s = order[i]
      OBVIOUS
    <3>2. new[i].under = Append(u, Last(s))
      BY <3>1 DEF Reads
    <3>3. Last(s) \in Names
      BY <1>1, ChildIs
    <3> HIDE <3>1
    <3>4. PICK v : v = Append(u, Last(s))
      OBVIOUS
    <3>5. v \in Seq(Names) /\ Len(v) = Len(u) + 1 /\ Len(u) \in Nat
      BY <1>1, <3>3, <3>4, AppendProperties
    <3> HIDE <3>4
    <3>6. v # <<>>
      <4>1. Len(v) > 0
        BY <3>5
      <4> QED BY <4>1
    <3> QED BY <3>2, <3>4, <3>6
  <2> QED BY <2>1
<1>7. p \o u \in Seq(Names) /\ IsPrefix(p, p \o u) /\ (u = <<>> => p \o u = p)
  BY <1>1, ConcatIs
<1>8. new # <<>>
  BY <1>1, <1>2
<1> HIDE DEF u, last
<1>9. last \in Nat /\ last >= Len(order) + 1 /\ last >= 1
  BY <1>1 DEF last
\* A directory in which something was found
<1>10. Len(order) # 0 => c2 = p \o u /\ Len(order) >= 1 /\ Below(f, p) # {}
  <2> SUFFICES ASSUME Len(order) # 0 PROVE c2 = p \o u /\ Len(order) >= 1 /\ Below(f, p) # {}
    OBVIOUS
  <2>1. c2 = p \o u /\ Len(order) >= 1
    BY DEF u
  <2>2. order[1] \in Children(f, p \o u) /\ 1 \in 1 .. Len(order)
    BY <2>1 DEF u
  <2>3. order[1] \in DOMAIN f /\ IsStrictPrefix(p \o u, order[1]) /\ order[1] \in Seq(Names)
    BY <2>2, RootedIs DEF Children, Below
  <2>4. IsStrictPrefix(p, order[1])
    <3>1. IsPrefix(p, order[1])
      BY <1>7, <2>3, PrefixTrans DEF IsStrictPrefix
    <3>2. Len(p \o u) >= Len(p) /\ Len(p \o u) \in Nat /\ Len(p) \in Nat
      BY <1>7, PrefixIs
    <3>3. p # order[1]
      <4>1. SUFFICES ASSUME p = order[1] PROVE FALSE
        OBVIOUS
      <4>2. IsPrefix(p \o u, p) /\ p \o u # p
        BY <2>3, <4>1 DEF IsStrictPrefix
      <4> QED BY <1>7, <3>2, <4>2, PrefixSame
    <3> QED BY <3>1, <3>3 DEF IsStrictPrefix
  <2> QED BY <2>1, <2>3, <2>4 DEF Below
<1>11. CASE Len(todo) = 1
  <2>1. u = <<>> /\ last = Len(order) + 1 /\ p \o u = p
    BY <1>1, <1>5, <1>7, <1>11 DEF u, last
  <2>2. KindIn(f, p) = "directory"
    BY <2>1 DEF u
  <2>3. \A i \in DOMAIN new : i \in 1 .. Len(order) \/ i = last
    BY <1>2, <2>1
  <2>4. \A i \in DOMAIN new : new[i].under = <<>> <=> i = last
    <3>1. last \notin 1 .. Len(order)
      BY <2>1
    <3> QED BY <1>3, <1>6, <2>1, <2>3, <3>1
  <2>5. Matches(f, new[last], p) /\ new[last].info = FTS_DP
    BY <1>3, <2>1, <2>2 DEF Matches
  <2>6. last > 1 => IsPrefix(p, c2) /\ Below(f, p) # {}
    <3>1. last > 1 => Len(order) # 0
      BY <2>1
    <3>2. IsPrefix(p, p)
      BY PrefixOfItself
    <3> QED BY <1>10, <2>1, <3>1, <3>2
  <2>7. last = 1 => new[1].info = FTS_DP
    BY <2>5
  <2> QED BY <1>2, <1>8, <2>4, <2>5, <2>6, <2>7, Zenon DEF Straying
<1>12. CASE Len(todo) > 1
  <2>1. u # <<>> /\ last \notin 1 .. Len(order) /\ last # Len(order) + 1 /\ last > 1 /\ last # 1
    BY <1>1, <1>5, <1>12 DEF u, last
  <2>2. new[last] = todo[Len(todo)] /\ Len(todo) \in DOMAIN todo /\ Len(todo) \in 2 .. Len(todo)
    BY <1>1, <1>4, <1>12 DEF last
  <2>3. new[last].under = <<>> /\ Matches(f, new[last], p) /\ new[last].info = FTS_DP /\ Below(f, p) # {} /\ IsPrefix(p, c)
    BY <1>5, <1>12, <2>2
  <2>4. ASSUME NEW i \in DOMAIN new, i # last PROVE new[i].under # <<>>
    <3>1. CASE i \in 1 .. Len(order)
      BY <1>6, <3>1
    <3>2. CASE i = Len(order) + 1
      BY <1>3, <2>1, <3>2
    <3>3. CASE i \notin 1 .. Len(order) /\ i # Len(order) + 1
      <4>1. PICK k : k = i - Len(order)
        OBVIOUS
      <4>2. k \in 2 .. Len(todo) /\ i = Len(order) + k /\ k # Len(todo) /\ k \in DOMAIN todo
        <5>1. \A m, l \in Nat : l >= 1 => \A j \in 1 .. m + l : j \notin 1 .. m /\ j # m + 1 /\ j # m + l =>
                  j - m \in 2 .. l /\ j = m + (j - m) /\ j - m # l /\ j - m \in 1 .. l
          OBVIOUS
        <5>2. i \in 1 .. Len(order) + Len(todo) /\ i # Len(order) + Len(todo)
          BY <1>2, <2>4 DEF last
        <5>3. i - Len(order) \in 2 .. Len(todo) /\ i = Len(order) + (i - Len(order)) /\ i - Len(order) # Len(todo)
              /\ i - Len(order) \in 1 .. Len(todo)
          BY <1>1, <3>3, <5>1, <5>2
        <5> QED BY <1>1, <4>1, <5>3
      <4>3. new[i] = todo[k] /\ todo[k].under # <<>>
        BY <1>4, <1>5, <4>2
      <4> QED BY <4>3
    <3> QED BY <3>1, <3>2, <3>3
  <2>5. IsPrefix(p, c2)
    BY <1>7, <1>10, <2>3
  <2> QED BY <1>2, <1>8, <2>1, <2>3, <2>4, <2>5, Zenon DEF Straying
<1>13. Len(todo) = 1 \/ Len(todo) > 1
  BY <1>1
<1> QED BY <1>11, <1>12, <1>13

\* What a relative path leads to once the walk stands in the directory: below it.
LEMMA StrayIs ==
    ASSUME NEW p \in Seq(Names), NEW back \in Seq(Names), IsPrefix(p, back),
           NEW names \in Seq(Names), names # <<>>, NEW under \in Seq(Names), under # <<>>,
           NEW w, w = (back \o names) \o under
    PROVE  /\ w \in Seq(Names) /\ w # <<>> /\ IsStrictPrefix(p, Front(w)) /\ w # p /\ w # back
           /\ Front(w) \in Seq(Names) /\ Front(w) # w
<1>1. PICK v : v = back \o names
  OBVIOUS
<1>2. v \in Seq(Names) /\ IsStrictPrefix(back, v)
  BY <1>1, ConcatIs
<1>3. w = v \o under
  BY <1>1
<1> HIDE <1>1
<1>4. w \in Seq(Names) /\ w # <<>> /\ IsStrictPrefix(v, w)
  BY <1>2, <1>3, ConcatIs
<1> HIDE <1>3
<1>5. Front(w) \in Seq(Names) /\ IsPrefix(v, Front(w)) /\ Len(w) > 0 /\ Len(Front(w)) = Len(w) - 1
  BY <1>2, <1>4, AboveFront, FrontIs
<1>6. Len(p) <= Len(back) /\ Len(p) \in Nat /\ Len(back) \in Nat /\ Len(v) \in Nat /\ Len(w) \in Nat
  BY <1>2, <1>4, PrefixIs
<1>7. Len(back) < Len(v)
  <2>1. Len(back) <= Len(v) /\ (Len(v) <= Len(back) => back = v)
    BY <1>2, PrefixIs, PrefixSame DEF IsStrictPrefix
  <2> QED BY <1>2, <1>6, <2>1 DEF IsStrictPrefix
<1>8. Len(v) <= Len(Front(w))
  BY <1>2, <1>5, PrefixIs
<1>9. IsPrefix(p, v)
  BY <1>2, PrefixTrans DEF IsStrictPrefix
<1>10. IsPrefix(p, Front(w))
  BY <1>2, <1>5, <1>9, PrefixTrans
<1>11. Len(p) < Len(Front(w)) /\ Len(p) < Len(w) /\ Len(back) < Len(w)
  BY <1>5, <1>6, <1>7, <1>8
<1>12. p # Front(w) /\ w # p /\ w # back /\ Front(w) # w
  BY <1>5, <1>6, <1>11
<1> QED BY <1>4, <1>5, <1>10, <1>12 DEF IsStrictPrefix

\* What is removed from below a directory leaves something in it.
LEMMA StrayLeaves ==
    ASSUME NEW n, Rooted(tree, n), NEW p \in Seq(Names), NEW w \in Seq(Names), w # <<>>, Unlink(w),
           IsStrictPrefix(p, Front(w))
    PROVE  Below(Removed(w), p) # {}
<1>1. w \in DOMAIN tree /\ DOMAIN Removed(w) = DOMAIN tree \ {w}
  BY UnlinkIs
<1>2. Front(w) \in DOMAIN tree
  BY <1>1, RootedIs
<1>3. Front(w) # w
  BY FrontIs
<1> QED BY <1>1, <1>2, <1>3 DEF Below

LEMMA FileBits ==
    ASSUME NEW info, info = 8
    PROVE  ~Has(info, FTS_DP)
<1>1. 8 \in Infos /\ 8 # FTS_D
  BY InfosAre, InfoIs
<1> QED BY <1>1, BitsOf

LEMMA StrayingErases ==
    ASSUME NEW n, Rooted(tree, n), NEW p \in Seq(Names), p # <<>>, NEW todo \in Seq(Visits), todo # <<>>,
           NEW home \in Seq(Names), NEW c, Straying(todo, tree, p, c, home),
           NEW e, e = todo[1], e.info # FTS_D, NEW back, NEW w \in Seq(Names),
           e.info # FTS_DP => back = c,
           e.info = FTS_DP => IF e.under = <<>> THEN back = home ELSE IsPrefix(p, back),
           e.under = <<>> /\ back = home => w = p,
           e.under # <<>> /\ IsPrefix(p, back) => w # <<>> /\ IsStrictPrefix(p, Front(w)) /\ w # p /\ w # back
    PROVE  /\ Erases(e, w) => Straying(Tail(todo), Removed(w), p, StandingIn(back, w), home)
           /\ ~Erases(e, w) => \/ p \notin DOMAIN tree \/ Below(tree, p) # {}
                               \/ \E s \in DOMAIN tree : IsPrefix(p, s) /\ tree[s].kind \in {"link", "fifo"}
<1> DEFINE rest == Tail(todo)
<1>1. /\ Len(todo) \in Nat /\ Len(todo) >= 1 /\ DOMAIN todo = 1 .. Len(todo)
      /\ e.under \in Seq(Names) /\ e.info \in Infos /\ 1 \in DOMAIN todo
  BY VisitsAre
<1>2. /\ rest \in Seq(Visits) /\ Len(rest) = Len(todo) - 1 /\ DOMAIN rest = 1 .. Len(todo) - 1
      /\ \A i \in 1 .. Len(todo) - 1 : rest[i] = todo[i + 1]
  BY TailIs
<1>3. /\ \A i \in DOMAIN todo : todo[i].under = <<>> <=> i = Len(todo)
      /\ \A i \in DOMAIN todo : i = Len(todo) => Matches(tree, todo[i], p)
      /\ Len(todo) > 1 => todo[Len(todo)].info = FTS_DP /\ IsPrefix(p, c) /\ Below(tree, p) # {}
      /\ Len(todo) = 1 /\ todo[1].info # FTS_DP => c = home
  BY DEF Straying
<1> HIDE DEF rest
<1>4. CASE Len(todo) = 1
  <2>1. e.under = <<>> /\ Matches(tree, e, p) /\ (e.info # FTS_DP => c = home)
    BY <1>1, <1>3, <1>4
  <2>2. back = home
    BY <2>1
  <2>3. w = p
    BY <2>1, <2>2
  <2>4. ASSUME Erases(e, w) PROVE Straying(rest, Removed(w), p, StandingIn(back, w), home)
    <3>1. Unlink(p)
      BY <1>1, <2>3, <2>4, ErasesIs
    <3>2. \A s \in DOMAIN Removed(p) : ~IsPrefix(p, s)
      BY <3>1, UnlinkIs DEF IsStrictPrefix
    <3>3. Len(rest) = 0 /\ DOMAIN rest = {}
      BY <1>2, <1>4
    <3>4. Cleared(Removed(w), p)
      BY <2>3, <3>2 DEF Cleared
    <3>5. ~(Len(rest) > 1) /\ Len(rest) # 1
      BY <3>3
    <3> HIDE <2>3, <2>4
    <3> QED BY <3>3, <3>4, <3>5, Zenon DEF Straying
  <2>5. ASSUME ~Erases(e, w), p \in DOMAIN tree, Below(tree, p) = {}
        PROVE  tree[p].kind \in {"link", "fifo"}
    <3>1. tree[p].kind = KindIn(tree, p)
      BY <2>5 DEF KindIn
    <3>2. CASE e.info = FTS_DP
      <4>1. KindIn(tree, p) = "directory" /\ Has(e.info, FTS_DP)
        BY <1>1, <2>1, <3>2, BitsOf, InfoIs DEF Matches
      <4>2. Rmdir(p)
        BY <2>5, <4>1 DEF Rmdir, Directory, Kind
      <4> QED BY <2>3, <2>5, <4>1, <4>2 DEF Erases
    <3>3. CASE e.info # FTS_DP
      <4>1. e.info = Info[KindIn(tree, p)]
        BY <2>1, <3>3 DEF Matches
      <4>2. CASE e.info = 8
        <5>1. KindIn(tree, p) = "file" /\ ~Has(e.info, FTS_DP)
          <6>1. KindIn(tree, p) = "file"
            BY <4>1, <4>2, KindIs, InfoIs
          <6>2. ~Has(e.info, FTS_DP)
            BY <4>2, FileBits, Zenon
          <6> QED BY <6>1, <6>2
        <5>2. Unlink(p)
          BY <5>1 DEF Unlink, Kind
        <5> QED BY <2>3, <2>5, <5>1, <5>2 DEF Erases
      <4>3. CASE e.info # 8
        <5>1. KindIn(tree, p) \notin {"file", "directory", "none"}
          BY <2>5, <4>1, <4>3, KindIs, InfoIs
        <5>2. KindIn(tree, p) \in {"directory", "fifo", "file", "none", "link"}
          BY KindIs
        <5> QED BY <3>1, <5>1, <5>2
      <4> QED BY <4>2, <4>3
    <3> QED BY <3>2, <3>3
  <2>6. IsPrefix(p, p)
    BY PrefixOfItself
  <2> QED BY <2>4, <2>5, <2>6 DEF rest
<1>5. CASE Len(todo) > 1
  <2>1. e.under # <<>>
    <3>1. todo[1].under = <<>> <=> 1 = Len(todo)
      BY <1>1, <1>3
    <3>2. 1 # Len(todo)
      <4>1. \A m \in Nat : m > 1 => 1 # m
        OBVIOUS
      <4> QED BY <1>1, <1>5, <4>1, Zenon
    <3> QED BY <3>1, <3>2
  <2>2. IsPrefix(p, back)
    BY <1>3, <1>5, <2>1
  <2>3. /\ w \in Seq(Names) /\ w # <<>> /\ IsStrictPrefix(p, Front(w)) /\ w # p /\ w # back
    BY <2>1, <2>2
  <2>4. ASSUME Erases(e, w) PROVE Straying(rest, Removed(w), p, StandingIn(back, w), home)
    <3>1. Unlink(w)
      BY <1>1, <2>4, ErasesIs
    <3>2. Below(Removed(w), p) # {}
      BY <2>3, <3>1, StrayLeaves
    <3>3. StandingIn(back, w) = back
      BY <2>3 DEF StandingIn
    <3>4. KindIn(Removed(w), p) = KindIn(tree, p)
      BY <2>3, <3>1, UnlinkIs
    <3>5. Len(rest) >= 1 /\ rest # <<>> /\ Len(rest) \in Nat /\ Len(rest) \in DOMAIN rest
      BY <1>1, <1>2, <1>5
    <3>6. \A i \in DOMAIN rest : i + 1 \in DOMAIN todo /\ rest[i] = todo[i + 1] /\ (i + 1 = Len(todo) <=> i = Len(rest))
      <4> SUFFICES ASSUME NEW i \in DOMAIN rest
                   PROVE  i + 1 \in DOMAIN todo /\ rest[i] = todo[i + 1] /\ (i + 1 = Len(todo) <=> i = Len(rest))
        OBVIOUS
      <4>1. i \in 1 .. Len(todo) - 1
        BY <1>2
      <4>2. rest[i] = todo[i + 1]
        BY <1>2, <4>1
      <4>3. i + 1 \in 1 .. Len(todo) /\ (i + 1 = Len(todo) <=> i = Len(todo) - 1)
        BY <1>1, <4>1
      <4> QED BY <1>1, <1>2, <4>2, <4>3
    <3>7. \A i \in DOMAIN rest : rest[i].under = <<>> <=> i = Len(rest)
      BY <1>3, <3>6
    <3>8. rest[Len(rest)] = todo[Len(todo)] /\ rest[Len(rest)].info = FTS_DP /\ Matches(tree, rest[Len(rest)], p)
      BY <1>1, <1>3, <1>5, <3>5, <3>6
    <3>9. Matches(Removed(w), rest[Len(rest)], p)
      BY <3>4, <3>8 DEF Matches
    <3>10. Len(rest) = 1 => rest[1].info = FTS_DP
      BY <3>8
    <3> HIDE <2>4
    <3> QED BY <2>2, <3>2, <3>3, <3>5, <3>7, <3>8, <3>9, <3>10, Zenon DEF Straying
  <2>5. Below(tree, p) # {}
    BY <1>3, <1>5
  <2> QED BY <2>4, <2>5 DEF rest
<1>6. Len(todo) = 1 \/ Len(todo) > 1
  BY <1>1
<1> QED BY <1>4, <1>5, <1>6

\* A directory that is not there any more
LEMMA StrayingUnread ==
    ASSUME NEW f, NEW n, Rooted(f, n), NEW p \in Seq(Names), NEW todo \in Seq(Visits), todo # <<>>,
           NEW c, NEW home, Straying(todo, f, p, c, home), todo[1].info = FTS_D,
           KindIn(f, p \o todo[1].under) # "directory",
           NEW new, DOMAIN new = DOMAIN todo, Len(new) = Len(todo), new[1].under = todo[1].under,
           \A i \in 2 .. Len(todo) : new[i] = todo[i]
    PROVE  Straying(new, f, p, c, home)
<1>1. Len(todo) \in Nat /\ Len(todo) >= 1 /\ DOMAIN todo = 1 .. Len(todo)
  BY VisitsAre
<1>2. /\ \A i \in DOMAIN todo : todo[i].under = <<>> <=> i = Len(todo)
      /\ \A i \in DOMAIN todo : i = Len(todo) => Matches(f, todo[i], p)
      /\ Len(todo) > 1 => todo[Len(todo)].info = FTS_DP /\ IsPrefix(p, c) /\ Below(f, p) # {}
  BY DEF Straying
<1>3. Len(todo) > 1
  <2>1. SUFFICES ASSUME Len(todo) = 1 PROVE FALSE
    BY <1>1
  <2>2. todo[1].under = <<>> /\ Matches(f, todo[1], p) /\ todo[1].under \in Seq(Names)
    BY <1>1, <1>2, <2>1, VisitsAre
  <2>3. p \o todo[1].under = p
    BY <2>2, ConcatIs
  <2>4. FTS_D # FTS_DP /\ Info[KindIn(f, p)] = FTS_D
    BY <2>2, InfoIs DEF Matches
  <2>5. KindIn(f, p) = "directory"
    BY <2>4, KindIs
  <2> QED BY <2>3, <2>5
<1>4. \A i \in DOMAIN todo : i = 1 \/ i \in 2 .. Len(todo)
  BY <1>1
<1>5. \A i \in DOMAIN new : new[i].under = <<>> <=> i = Len(new)
  BY <1>2, <1>4
<1>6. Len(todo) \in 2 .. Len(todo) /\ Len(todo) \in DOMAIN todo /\ Len(todo) # 1 /\ 1 \in DOMAIN todo
  BY <1>1, <1>3
<1>7. new[Len(new)] = todo[Len(todo)] /\ Matches(f, todo[Len(todo)], p)
  BY <1>2, <1>6
<1>8. new # <<>>
  BY <1>6
<1> QED BY <1>2, <1>3, <1>5, <1>6, <1>7, <1>8, Zenon DEF Straying

-----------------------------------------------------------------------------
(* A walk *)

LEMMA WalkIs ==
    ASSUME FInv, TInv, NEW t \in Threads, job[t].at = "walk"
    PROVE  /\ job[t].request.op \in {"delete_directory", "list"} /\ job[t].todo \in Seq(Visits)
           /\ Here(job[t]) \in Seq(Names) \ {<<>>} /\ Rooted(tree, Len(data)) /\ job[t].home \in Seq(Names)
           /\ job[t].request.path \in Paths /\ job[t].request.path.names \in Seq(Names) \ {<<>>}
<1>1. job[t].request.path \in Paths /\ job[t].request.path.names \in Seq(Names) \ {<<>>}
  BY JobIs
<1>2. job[t].request.op \in {"delete_directory", "list"}
  BY WalkersWalk DEF Walks
<1>3. job[t].home \in Seq(Names) /\ job[t].todo \in Seq(Visits) /\ Rooted(tree, Len(data))
  BY DEF TInv, TreeTyped, JobTyped
<1>4. \A base \in Seq(Names) : base \o job[t].request.path.names \in Seq(Names) \ {<<>>}
  BY <1>1, ConcatIs
<1>5. Here(job[t]) \in Seq(Names) \ {<<>>}
  BY <1>3, <1>4, EmptySeq DEF Here, From
<1> QED BY <1>1, <1>2, <1>3, <1>5

LEMMA WalkDoing ==
    ASSUME NEW k, NEW f, NEW d, NEW c, k.at = "walk", k.request.op \in {"delete_directory", "list"},
           k.request.op = "list" => Listing(k.todo, k.directories, k.files, f, Here(k)),
           k.request.op = "delete_directory" /\ ~k.request.path.relative => Clearing(k.todo, f, Here(k)),
           k.request.op = "delete_directory" /\ k.request.path.relative => Straying(k.todo, f, Here(k), c, k.home)
    PROVE  Doing(k, f, d, c)
BY DEF Doing

LEMMA DoingWalk ==
    ASSUME NEW k, NEW f, NEW d, NEW c, k.at = "walk", k.request.op \in {"delete_directory", "list"}, Doing(k, f, d, c)
    PROVE  /\ k.request.op = "list" => Listing(k.todo, k.directories, k.files, f, Here(k))
           /\ k.request.op = "delete_directory" /\ ~k.request.path.relative => Clearing(k.todo, f, Here(k))
           /\ k.request.op = "delete_directory" /\ k.request.path.relative => Straying(k.todo, f, Here(k), c, k.home)
BY DEF Doing

\* What a list or an absolute delete_directory takes for a directory is one.
LEMMA MatchesDirectory ==
    ASSUME NEW f, NEW n, Rooted(f, n), NEW e, NEW s, Matches(f, e, s), e.info = FTS_D
    PROVE  KindIn(f, s) = "directory"
<1>1. FTS_D # FTS_DP
  BY InfoIs
<1>2. Info[KindIn(f, s)] = FTS_D
  BY <1>1 DEF Matches
<1> QED BY <1>2, KindIs

LEMMA OrderAll ==
    ASSUME NEW n, Rooted(tree, n), NEW p \in Seq(Names), NEW order \in SetToSeqs(Children(tree, p))
    PROVE  \A c \in Children(tree, p) : \E i \in 1 .. Len(order) : order[i] = c
BY OrderOnce, Zenon

LEMMA DescendAnswers ==
    ASSUME FInv, TInv, NEW t \in Threads, Doing(job[t], tree, data, cwd), job[t].at = "walk",
           job[t].todo # <<>>, NEW e, e = Head(job[t].todo), Descend(t, e)
    PROVE  Answers(t)
<1> DEFINE todo == job[t].todo
           new == job'[t].todo
           p == Here(job[t])
           q == Place(job[t], e)
           n == Len(data)
<1>1. /\ job[t].request.op \in {"delete_directory", "list"} /\ todo \in Seq(Visits) /\ todo # <<>>
      /\ p \in Seq(Names) /\ Rooted(tree, n)
  BY WalkIs
<1>2. e = todo[1] /\ Len(todo) \in Nat /\ Len(todo) >= 1 /\ 1 \in DOMAIN todo
  BY <1>1, TailIs
<1>3. q = p \o todo[1].under /\ q \in Seq(Names)
  BY <1>2, VisitIs DEF Place, Here
<1>4. /\ UNCHANGED tree /\ e.info = FTS_D
      /\ job'[t].at = job[t].at /\ job'[t].request = job[t].request /\ job'[t].home = job[t].home
      /\ job'[t].files = job[t].files
      /\ \/ /\ Directory(q)
            /\ \E order \in SetToSeqs(Children(tree, q)) : Reads(todo, new, order, tree) /\ cwd' = IF order = <<>> THEN cwd ELSE q
            /\ job'[t].directories = IF Len(e.under) = 1 THEN job[t].directories \cup {e.under} ELSE job[t].directories
         \/ /\ ~Directory(q) /\ UNCHANGED cwd
            /\ DOMAIN new = DOMAIN todo /\ Len(new) = Len(todo)
            /\ new[1].under = e.under /\ \A i \in 2 .. Len(todo) : new[i] = todo[i]
  BY DescendIs
<1>5. /\ job[t].request.op = "list" => Listing(todo, job[t].directories, job[t].files, tree, p)
      /\ job[t].request.op = "delete_directory" /\ ~job[t].request.path.relative => Clearing(todo, tree, p)
      /\ job[t].request.op = "delete_directory" /\ job[t].request.path.relative => Straying(todo, tree, p, cwd, job[t].home)
  BY <1>1, DoingWalk
<1>6. Here(job'[t]) = p
  BY <1>4 DEF Here
<1> HIDE DEF todo, new, p, q, n
<1>7. CASE /\ Directory(q)
           /\ \E order \in SetToSeqs(Children(tree, q)) : Reads(todo, new, order, tree) /\ cwd' = IF order = <<>> THEN cwd ELSE q
           /\ job'[t].directories = IF Len(e.under) = 1 THEN job[t].directories \cup {e.under} ELSE job[t].directories
  <2>1. PICK order \in SetToSeqs(Children(tree, q)) : Reads(todo, new, order, tree) /\ cwd' = IF order = <<>> THEN cwd ELSE q
    BY <1>7
  <2>2. /\ Len(order) \in Nat /\ (order = <<>> <=> Len(order) = 0)
        /\ \A i \in 1 .. Len(order) : order[i] \in Children(tree, q)
        /\ \A i, k \in 1 .. Len(order) : order[i] = order[k] => i = k
        /\ \A c \in Children(tree, q) : \E i \in 1 .. Len(order) : order[i] = c
    <3>1. Len(order) \in Nat /\ (order = <<>> <=> Len(order) = 0)
      BY <1>1, <1>3, OrderOnce, Zenon
    <3>2. \A i \in 1 .. Len(order) : order[i] \in Children(tree, q)
      BY <1>1, <1>3, OrderOnce, Zenon
    <3>3. \A i, k \in 1 .. Len(order) : order[i] = order[k] => i = k
      BY <1>1, <1>3, OrderOnce, Zenon
    <3>4. \A c \in Children(tree, q) : \E i \in 1 .. Len(order) : order[i] = c
      BY <1>1, <1>3, OrderAll
    <3> QED BY <3>1, <3>2, <3>3, <3>4
  <2>3. KindIn(tree, p \o todo[1].under) = "directory"
    BY <1>3, <1>7 DEF Directory, Kind
  <2>4. PICK found : found = job'[t].directories
    OBVIOUS
  <2>5. found = IF Len(todo[1].under) = 1 THEN job[t].directories \cup {todo[1].under} ELSE job[t].directories
    BY <1>2, <1>7, <2>4
  <2>6. /\ Len(order) \in Nat
        /\ \A i \in 1 .. Len(order) : order[i] \in Children(tree, p \o todo[1].under)
        /\ \A i, k \in 1 .. Len(order) : order[i] = order[k] => i = k
        /\ \A c \in Children(tree, p \o todo[1].under) : \E i \in 1 .. Len(order) : order[i] = c
        /\ Reads(todo, new, order, tree)
    BY <1>3, <2>1, <2>2, Zenon
  <2>7. PICK c2 : c2 = cwd'
    OBVIOUS
  <2>8. c2 = IF Len(order) = 0 THEN cwd ELSE p \o todo[1].under
    BY <1>3, <2>1, <2>2, <2>7
  <2> HIDE <2>1, <2>4, <2>7
  <2>9. job[t].request.op = "list" => Listing(new, found, job[t].files, tree, p)
    BY <1>1, <1>2, <1>4, <1>5, <2>3, <2>5, <2>6, ListingDescends
  <2>10. job[t].request.op = "delete_directory" /\ ~job[t].request.path.relative => Clearing(new, tree, p)
    BY <1>1, <1>5, <2>3, <2>6, ClearingDescends
  <2>11. job[t].request.op = "delete_directory" /\ job[t].request.path.relative => Straying(new, tree, p, c2, job[t].home)
    <3> SUFFICES ASSUME job[t].request.op = "delete_directory" /\ job[t].request.path.relative
                 PROVE  Straying(new, tree, p, c2, job[t].home)
      OBVIOUS
    <3>1. PICK home : home = job[t].home
      OBVIOUS
    <3>2. PICK c : c = cwd
      OBVIOUS
    <3>3. Straying(todo, tree, p, c, home) /\ c2 = IF Len(order) = 0 THEN c ELSE p \o todo[1].under
      BY <1>5, <2>8, <3>1, <3>2
    <3>4. Straying(new, tree, p, c2, home)
      <4>1. todo \in Seq(Visits) /\ todo # <<>> /\ p \in Seq(Names) /\ Rooted(tree, n)
        BY <1>1
      <4>2. Len(order) \in Nat /\ (\A i \in 1 .. Len(order) : order[i] \in Children(tree, p \o todo[1].under)) /\ Reads(todo, new, order, tree)
        BY <2>6
      <4> HIDE <1>5, <1>4, <3>1, <3>2, <2>2, <2>6
      <4> QED BY <2>3, <3>3, <4>1, <4>2, StrayingDescends
    <3> QED BY <3>1, <3>4
  <2>12. /\ job[t].request.op = "list" => Listing(new, job'[t].directories, job'[t].files, tree', p)
         /\ job[t].request.op = "delete_directory" /\ ~job[t].request.path.relative => Clearing(new, tree', p)
         /\ job[t].request.op = "delete_directory" /\ job[t].request.path.relative => Straying(new, tree', p, cwd', job'[t].home)
    BY <1>4, <2>4, <2>7, <2>9, <2>10, <2>11
  <2>13. Doing(job'[t], tree', data', cwd')
    BY <1>1, <1>4, <1>6, <2>12, WalkDoing DEF new
  <2> QED BY <1>4, <2>13 DEF Answers
<1>8. CASE /\ ~Directory(q) /\ UNCHANGED cwd
           /\ DOMAIN new = DOMAIN todo /\ Len(new) = Len(todo)
           /\ new[1].under = e.under /\ \A i \in 2 .. Len(todo) : new[i] = todo[i]
  <2>1. KindIn(tree, q) # "directory"
    BY <1>8 DEF Directory, Kind
  <2>2. ~Matches(tree, todo[1], p \o todo[1].under)
    BY <1>1, <1>2, <1>3, <1>4, <2>1, MatchesDirectory
  <2>3. job[t].request.op # "list"
    BY <1>2, <1>5, <2>2, Zenon DEF Listing
  <2>4. ~(job[t].request.op = "delete_directory" /\ ~job[t].request.path.relative)
    BY <1>2, <1>5, <2>2, Zenon DEF Clearing
  <2>5. Straying(todo, tree, p, cwd, job[t].home)
    BY <1>1, <1>5, <2>3, <2>4
  <2>6. KindIn(tree, p \o todo[1].under) # "directory" /\ todo[1].info = FTS_D /\ new[1].under = todo[1].under
    BY <1>2, <1>3, <1>4, <1>8, <2>1
  <2>7. Straying(new, tree, p, cwd, job[t].home)
    BY <1>1, <1>8, <2>5, <2>6, StrayingUnread
  <2>8. Doing(job'[t], tree', data', cwd')
    BY <1>1, <1>4, <1>6, <1>8, <2>3, <2>4, <2>7, WalkDoing DEF new
  <2> QED BY <1>4, <2>8 DEF Answers
<1> QED BY <1>4, <1>7, <1>8

LEMMA ListAnswers ==
    ASSUME FInv, TInv, NEW t \in Threads, Doing(job[t], tree, data, cwd), job[t].at = "walk",
           job[t].todo # <<>>, NEW e, e = Head(job[t].todo), List(t, e)
    PROVE  Answers(t)
<1> DEFINE todo == job[t].todo
           p == Here(job[t])
           n == Len(data)
<1>1. /\ job[t].request.op = "list" /\ todo \in Seq(Visits) /\ todo # <<>>
      /\ p \in Seq(Names) /\ Rooted(tree, n)
  BY WalkIs DEF List
<1>2. e = todo[1] /\ e.info # FTS_D /\ UNCHANGED tree
  BY <1>1, TailIs DEF List
<1>3. Listing(todo, job[t].directories, job[t].files, tree, p)
  BY <1>1, DoingWalk
<1>4. PICK rest : rest = Tail(todo)
  OBVIOUS
<1>5. PICK a : a = IF Len(e.under) = 1 /\ Has(e.info, FTS_D) THEN job[t].directories \cup {e.under} ELSE job[t].directories
  OBVIOUS
<1>6. PICK b : b = IF Len(e.under) = 1 /\ ~Has(e.info, FTS_D) /\ Has(e.info, FTS_F) THEN job[t].files \cup {e.under} ELSE job[t].files
  OBVIOUS
<1>7. job' = [job EXCEPT ![t].todo = rest, ![t].directories = a, ![t].files = b]
  BY <1>4, <1>5, <1>6, Zenon DEF List, Listed
<1>8. /\ job'[t].todo = rest /\ job'[t].directories = a /\ job'[t].files = b
      /\ job'[t].at = job[t].at /\ job'[t].request = job[t].request /\ job'[t].home = job[t].home
  BY <1>7, WalkSets, Zenon
<1>9. Here(job'[t]) = p
  BY <1>8 DEF Here
<1> HIDE DEF todo, p, n
<1> HIDE <1>7
<1>10. Listing(Tail(todo), a, b, tree, p)
  BY <1>1, <1>2, <1>3, <1>5, <1>6, ListingGoesOn
<1>11. Listing(rest, a, b, tree', p)
  BY <1>2, <1>4, <1>10
<1> HIDE <1>4, <1>5, <1>6
<1>12. Doing(job'[t], tree', data', cwd')
  BY <1>1, <1>8, <1>9, <1>11, WalkDoing
<1> QED BY <1>8, <1>12 DEF Answers

\* Where delete_directory looks for what it has visited
LEMMA ErasePlace ==
    ASSUME FInv, TInv, NEW t \in Threads, job[t].at = "walk", job[t].todo # <<>>,
           NEW e, e = Head(job[t].todo), NEW w, w = From(Back(job[t], e), job[t].request.path) \o e.under
    PROVE  /\ w \in Seq(Names)
           /\ ~job[t].request.path.relative => w = Here(job[t]) \o e.under
           /\ job[t].request.path.relative =>
                 /\ e.info # FTS_DP => Back(job[t], e) = cwd
                 /\ e.info = FTS_DP => IF e.under = <<>> THEN Back(job[t], e) = job[t].home ELSE IsPrefix(Here(job[t]), Back(job[t], e))
                 /\ e.under = <<>> /\ Back(job[t], e) = job[t].home => w = Here(job[t])
                 /\ e.under # <<>> /\ IsPrefix(Here(job[t]), Back(job[t], e)) =>
                       w # <<>> /\ IsStrictPrefix(Here(job[t]), Front(w)) /\ w # Here(job[t]) /\ w # Back(job[t], e)
<1> DEFINE back == Back(job[t], e)
           p == Here(job[t])
           names == job[t].request.path.names
<1>1. /\ e.under \in Seq(Names) /\ job[t].home \in Seq(Names) /\ back \in Seq(Names)
      /\ p \in Seq(Names) /\ names \in Seq(Names) /\ names # <<>>
  BY VisitIs, WalkIs
<1>2. From(back, job[t].request.path) \in Seq(Names)
  BY <1>1, WalkIs, FromTyped
<1>3. w \in Seq(Names)
  BY <1>1, <1>2, ConcatIs
<1>4. ~job[t].request.path.relative => w = p \o e.under
  BY DEF Here, From
<1>5. job[t].request.path.relative => w = (back \o names) \o e.under
  BY DEF From
<1>6. e.info # FTS_DP => back = cwd
  BY DEF Back
<1>7. e.info = FTS_DP /\ e.under = <<>> => back = job[t].home
  BY DEF Back
<1>8. ASSUME e.info = FTS_DP, e.under # <<>> PROVE IsPrefix(p, back)
  <2>1. PICK v : v = p \o e.under
    OBVIOUS
  <2>2. back = Front(v)
    BY <1>8, <2>1, Zenon DEF Back, Place, Here
  <2>3. v \in Seq(Names) /\ v # <<>> /\ IsStrictPrefix(p, v)
    BY <1>1, <1>8, <2>1, ConcatIs
  <2> HIDE <2>1 DEF p, back
  <2> QED BY <1>1, <2>2, <2>3, AboveFront
<1>9. ASSUME e.under = <<>>, back = job[t].home PROVE w = p
  <2>1. From(back, job[t].request.path) = p
    BY <1>9 DEF Here
  <2> HIDE DEF p, back
  <2> QED BY <1>1, <1>9, <2>1, ConcatIs DEF back
<1>10. ASSUME job[t].request.path.relative, e.under # <<>>, IsPrefix(p, back)
       PROVE  w # <<>> /\ IsStrictPrefix(p, Front(w)) /\ w # p /\ w # back
  <2>1. PICK b : b = back
    OBVIOUS
  <2>2. PICK ns : ns = names
    OBVIOUS
  <2>3. PICK u : u = e.under
    OBVIOUS
  <2>4. PICK d : d = p
    OBVIOUS
  <2>5. /\ d \in Seq(Names) /\ b \in Seq(Names) /\ IsPrefix(d, b) /\ ns \in Seq(Names) /\ ns # <<>> /\ u \in Seq(Names) /\ u # <<>>
    BY <1>1, <1>10, <2>1, <2>2, <2>3, <2>4
  <2>6. w = (b \o ns) \o u
    BY <1>5, <1>10, <2>1, <2>2, <2>3
  <2> HIDE <1>10, <2>1, <2>2, <2>3, <2>4 DEF p, back, names
  <2>7. w # <<>> /\ IsStrictPrefix(d, Front(w)) /\ w # d /\ w # b
    <3>1. ASSUME NEW x, x = (b \o ns) \o u PROVE x # <<>> /\ IsStrictPrefix(d, Front(x)) /\ x # d /\ x # b
      BY <2>5, <3>1, StrayIs
    <3> HIDE <2>5
    <3>2. \A x : x = (b \o ns) \o u => x # <<>> /\ IsStrictPrefix(d, Front(x)) /\ x # d /\ x # b
      BY <3>1, Zenon
    <3> QED BY <2>6, <3>2, Zenon
  <2> QED BY <2>1, <2>4, <2>7
<1> HIDE DEF p, back
<1> QED BY <1>3, <1>4, <1>6, <1>7, <1>8, <1>9, <1>10, Zenon DEF p, back

LEMMA EraseAnswers ==
    ASSUME FInv, TInv, NEW t \in Threads, Doing(job[t], tree, data, cwd), job[t].at = "walk",
           job[t].todo # <<>>, NEW e, e = Head(job[t].todo), Erase(t, e)
    PROVE  Answers(t)
<1> DEFINE todo == job[t].todo
           p == Here(job[t])
           n == Len(data)
           back == Back(job[t], e)
           home == job[t].home
           relative == job[t].request.path.relative
<1>1. /\ job[t].request.op = "delete_directory" /\ todo \in Seq(Visits) /\ todo # <<>>
      /\ p \in Seq(Names) /\ p # <<>> /\ Rooted(tree, n) /\ home \in Seq(Names) /\ e.info # FTS_D
  BY WalkIs DEF Erase
<1>2. e = todo[1] /\ e.info \in Infos
  BY <1>1, TailIs, VisitIs
<1>3. /\ ~relative => Clearing(todo, tree, p)
      /\ relative => Straying(todo, tree, p, cwd, home)
  BY <1>1, DoingWalk
<1>4. PICK w : w = From(back, job[t].request.path) \o e.under
  OBVIOUS
<1>5. /\ w \in Seq(Names)
      /\ ~relative => w = p \o e.under
      /\ relative =>
            /\ e.info # FTS_DP => back = cwd
            /\ e.info = FTS_DP => IF e.under = <<>> THEN back = home ELSE IsPrefix(p, back)
            /\ e.under = <<>> /\ back = home => w = p
            /\ e.under # <<>> /\ IsPrefix(p, back) => w # <<>> /\ IsStrictPrefix(p, Front(w)) /\ w # p /\ w # back
  BY <1>4, ErasePlace, Zenon
<1>6. \/ /\ Erases(e, w) /\ tree' = Removed(w) /\ cwd' = StandingIn(back, w)
         /\ job' = [job EXCEPT ![t].todo = Tail(todo)]
      \/ ~Erases(e, w) /\ Return(t, FALSE) /\ UNCHANGED tree
  BY <1>4, Zenon DEF Erase
<1> HIDE <1>4
<1>7. CASE /\ Erases(e, w) /\ tree' = Removed(w) /\ cwd' = StandingIn(back, w)
           /\ job' = [job EXCEPT ![t].todo = Tail(todo)]
  <2>1. PICK rest : rest = Tail(todo)
    OBVIOUS
  <2>2. job' = [job EXCEPT ![t].todo = rest]
    BY <1>7, <2>1
  <2>3. job'[t].todo = rest /\ job'[t].at = job[t].at /\ job'[t].request = job[t].request /\ job'[t].home = job[t].home
    BY <2>2, WalkSets, Zenon
  <2>4. Here(job'[t]) = p
    BY <2>3 DEF Here
  <2>5. Unlink(w)
    BY <1>1, <1>2, <1>7, ErasesIs
  <2> HIDE <2>2 DEF todo, p, n, back, home
  <2>6. ASSUME ~relative PROVE Clearing(rest, tree', p)
    <3>1. w = p \o todo[1].under
      BY <1>2, <1>5, <2>6
    <3>2. Unlink(p \o todo[1].under) /\ Clearing(todo, tree, p)
      BY <1>3, <2>5, <2>6, <3>1
    <3> HIDE <3>1
    <3>3. Clearing(Tail(todo), Removed(p \o todo[1].under), p)
      BY <1>1, <3>2, ClearingErases
    <3> QED BY <1>7, <2>1, <3>1, <3>3
  <2>7. ASSUME relative PROVE Straying(rest, tree', p, cwd', home)
    <3>1. PICK c : c = cwd
      OBVIOUS
    <3>2. PICK b : b = back
      OBVIOUS
    <3>3. Straying(todo, tree, p, c, home)
      BY <1>3, <2>7, <3>1
    <3>4. /\ e.info # FTS_DP => b = c
          /\ e.info = FTS_DP => IF e.under = <<>> THEN b = home ELSE IsPrefix(p, b)
          /\ e.under = <<>> /\ b = home => w = p
          /\ e.under # <<>> /\ IsPrefix(p, b) => w # <<>> /\ IsStrictPrefix(p, Front(w)) /\ w # p /\ w # b
      BY <1>5, <2>7, <3>1, <3>2
    <3>5. Erases(e, w) /\ w \in Seq(Names)
      BY <1>5, <1>7
    <3> HIDE <1>7, <1>3, <1>5, <3>1, <3>2
    <3>6. Straying(Tail(todo), Removed(w), p, StandingIn(b, w), home)
      BY <1>1, <1>2, <3>3, <3>4, <3>5, StrayingErases
    <3> QED BY <1>7, <2>1, <3>2, <3>6
  <2>8. job'[t].request.op = "delete_directory" /\ job'[t].at = "walk"
    BY <1>1, <2>3
  <2>9. /\ ~job'[t].request.path.relative => Clearing(job'[t].todo, tree', Here(job'[t]))
        /\ job'[t].request.path.relative => Straying(job'[t].todo, tree', Here(job'[t]), cwd', job'[t].home)
    BY <2>3, <2>4, <2>6, <2>7 DEF home
  <2> HIDE <2>1, <2>3, <2>4
  <2>10. Doing(job'[t], tree', data', cwd')
    BY <2>8, <2>9, WalkDoing
  <2> QED BY <2>8, <2>10 DEF Answers
<1>8. CASE ~Erases(e, w) /\ Return(t, FALSE) /\ UNCHANGED tree
  <2>1. job'[t].at = "returned" /\ job'[t].result = FALSE
    BY <1>8, ReturnIs
  <2>2. ~Erases(e, w) /\ tree' = tree
    BY <1>8
  <2> HIDE <1>6, <1>8 DEF todo, p, n, back, home
  <2>3. ASSUME ~relative
        PROVE  p \notin DOMAIN tree \/ \E s \in DOMAIN tree : IsPrefix(p, s) /\ tree[s].kind \in {"link", "fifo"}
    <3>1. Clearing(todo, tree, p) /\ w = p \o e.under
      BY <1>3, <1>5, <2>3
    <3> HIDE <1>3, <1>5
    <3> QED BY <1>1, <1>2, <2>2, <3>1, ClearingFails
  <2>4. ASSUME relative
        PROVE  \/ p \notin DOMAIN tree \/ Below(tree, p) # {}
               \/ \E s \in DOMAIN tree : IsPrefix(p, s) /\ tree[s].kind \in {"link", "fifo"}
    <3>1. PICK c : c = cwd
      OBVIOUS
    <3>2. PICK b : b = back
      OBVIOUS
    <3>3. Straying(todo, tree, p, c, home)
      BY <1>3, <2>4, <3>1
    <3>4. /\ e.info # FTS_DP => b = c
          /\ e.info = FTS_DP => IF e.under = <<>> THEN b = home ELSE IsPrefix(p, b)
          /\ e.under = <<>> /\ b = home => w = p
          /\ e.under # <<>> /\ IsPrefix(p, b) => w # <<>> /\ IsStrictPrefix(p, Front(w)) /\ w # p /\ w # b
      BY <1>5, <2>4, <3>1, <3>2
    <3>5. ~Erases(e, w) /\ w \in Seq(Names)
      BY <1>5, <2>2
    <3> HIDE <1>3, <1>5, <3>1, <3>2
    <3> QED BY <1>1, <1>2, <3>3, <3>4, <3>5, StrayingErases
  <2>5. \/ p \notin DOMAIN tree'
        \/ \E s \in DOMAIN tree' : IsPrefix(p, s) /\ tree'[s].kind \in {"link", "fifo"}
        \/ job[t].request.path.relative /\ Below(tree', p) # {}
    BY <2>2, <2>3, <2>4
  <2> QED BY <1>1, <2>1, <2>5, Zenon DEF Answers, Answer, p
<1> QED BY <1>6, <1>7, <1>8

LEMMA WalkAnswers ==
    ASSUME FInv, TInv, NEW t \in Threads, Doing(job[t], tree, data, cwd), Walk(t)
    PROVE  Answers(t)
<1>1. PICK e : e = Head(job[t].todo) /\ (Descend(t, e) \/ Erase(t, e) \/ List(t, e))
  BY Zenon DEF Walk
<1>2. job[t].at = "walk" /\ job[t].todo # <<>>
  BY DEF Walk
<1> QED BY <1>1, <1>2, DescendAnswers, EraseAnswers, ListAnswers

\* With nothing left to visit, a list has found every entry and a
\* delete_directory has left nothing.
LEMMA EndWalkAnswers ==
    ASSUME FInv, TInv, NEW t \in Threads, Doing(job[t], tree, data, cwd), EndWalk(t)
    PROVE  Answers(t)
<1> DEFINE p == Here(job[t])
           r == job[t].request
<1>1. job[t].at = "walk" /\ job[t].todo = <<>> /\ Return(t, TRUE) /\ tree' = tree
  BY DEF EndWalk
<1>2. /\ job'[t].at = "returned" /\ job'[t].result = TRUE
      /\ job'[t].directories = job[t].directories /\ job'[t].files = job[t].files
  BY <1>1, ReturnIs, ReturnFinds
<1>3. r.op \in {"delete_directory", "list"}
  BY <1>1, WalkIs
<1>4. DOMAIN job[t].todo = {} /\ job[t].todo # <<[under |-> <<>>, info |-> FTS_D]>>
  BY <1>1
<1>5. /\ r.op = "list" => Listing(job[t].todo, job[t].directories, job[t].files, tree, p)
      /\ r.op = "delete_directory" /\ ~r.path.relative => Clearing(job[t].todo, tree, p)
      /\ r.op = "delete_directory" /\ r.path.relative => Straying(job[t].todo, tree, p, cwd, job[t].home)
  BY <1>1, <1>3, DoingWalk
<1> HIDE DEF p
<1>6. CASE r.op = "list"
  <2>1. \A infos : Pending(job[t].todo, infos) = {}
    BY <1>4 DEF Pending
  <2>2. /\ job[t].directories \cup Pending(job[t].todo, {FTS_D, 3}) = Named(tree, p, {"directory", "fifo"})
        /\ job[t].files \cup Pending(job[t].todo, {FTS_F, 10, 12}) = Named(tree, p, {"file", "link"})
    BY <1>4, <1>5, <1>6, Zenon DEF Listing
  <2>3. /\ job'[t].directories = Named(tree', p, {"directory", "fifo"})
        /\ job'[t].files = Named(tree', p, {"file", "link"})
    BY <1>1, <1>2, <2>1, <2>2
  <2> QED BY <1>2, <1>6, <2>3, Zenon DEF Answers, Answer, Named, p
<1>7. CASE r.op = "delete_directory"
  <2>1. \A s \in DOMAIN tree : ~IsPrefix(p, s)
    <3>1. CASE r.path.relative
      BY <1>1, <1>5, <1>7, <3>1, Zenon DEF Straying, Cleared
    <3>2. CASE ~r.path.relative
      BY <1>4, <1>5, <1>7, <3>2 DEF Clearing
    <3> QED BY <3>1, <3>2
  <2>2. \A s \in DOMAIN tree' : ~IsPrefix(p, s)
    BY <1>1, <2>1
  <2> QED BY <1>2, <1>7, <2>2, Zenon DEF Answers, Answer, p
<1> QED BY <1>3, <1>6, <1>7

LEMMA StepAnswers ==
    ASSUME FInv, TInv, NEW t \in Threads, disturbed[t] = {}, Doing(job[t], tree, data, cwd), Step(t)
    PROVE  Answers(t)
BY CheckPrefixAnswers, MakeDirectoryAnswers, CheckTargetAnswers, OpenAnswers, OpenSourceAnswers,
   ReadSourceAnswers, WriteTargetAnswers, DeleteFileAnswers, MoveAnswers, CheckListedAnswers, WalkAnswers,
   EndWalkAnswers DEF Step

\* Only a call takes a step.
LEMMA StepsCall ==
    ASSUME NEW t \in Threads, Step(t)
    PROVE  job[t].at # "returned"
BY Zenon DEF Step, CheckPrefix, MakeDirectory, CheckTarget, Open, OpenSource, ReadSource, WriteTarget, DeleteFile,
   Move, CheckListed, Walk, EndWalk

\* A thread that saw no change serves the tree it served before.
LEMMA Unseen ==
    ASSUME TInv, NEW s \in Threads, NEW t \in Threads, s # t, Disturbs(t), job'[s] = job[s],
           job[s].at # "returned", disturbed'[s] = {}
    PROVE  /\ disturbed[s] = {} /\ data' = data /\ cwd' = cwd
           /\ DOMAIN tree' = DOMAIN tree /\ \A p \in DOMAIN tree : tree'[p] = tree[p]
<1>1. disturbed'[s] = disturbed[s] \cup Changes
  BY DEF Disturbs
<1>2. disturbed[s] = {} /\ Changes = {}
  BY <1>1
<1>3. "removed" \notin Changes /\ "made" \notin Changes /\ "written" \notin Changes /\ "moved" \notin Changes
  BY <1>2
<1>4. ~\E p \in DOMAIN tree : p \notin DOMAIN tree' \/ tree'[p] # tree[p]
  BY <1>3, Zenon DEF Changes
<1>5. DOMAIN tree' \subseteq DOMAIN tree
  BY <1>3, Zenon DEF Changes
<1>6. data' = data /\ cwd' = cwd
  BY <1>3, Zenon DEF Changes
<1> QED BY <1>2, <1>4, <1>5, <1>6

LEMMA NextAnswers ==
    ASSUME FInv, TInv, AInv, NEW t \in Threads, Begin(t) \/ CloseFile(t) \/ Step(t), Disturbs(t)
    PROVE  AInv'
<1> SUFFICES ASSUME NEW s \in Threads, job'[s].at # "returned", disturbed'[s] = {}
             PROVE  Doing(job'[s], tree', data', cwd')
  BY DEF AInv
<1>1. CASE s = t
  <2>1. disturbed[t] = {}
    BY <1>1 DEF Disturbs
  <2>2. CASE Begin(t)
    BY <1>1, <2>2, BeginAnswers DEF Answers
  <2>3. CASE CloseFile(t)
    BY <1>1, <2>3 DEF CloseFile
  <2>4. CASE Step(t)
    <3>1. Doing(job[t], tree, data, cwd)
      BY <2>1, <2>4, StepsCall DEF AInv
    <3> QED BY <1>1, <2>1, <2>4, <3>1, StepAnswers DEF Answers
  <2> QED BY <2>2, <2>3, <2>4
<1>2. CASE s # t
  <2>1. job'[s] = job[s] /\ job[s].at # "returned"
    BY <1>2, OthersStay
  <2>2. /\ disturbed[s] = {} /\ data' = data /\ cwd' = cwd
        /\ DOMAIN tree' = DOMAIN tree /\ \A p \in DOMAIN tree : tree'[p] = tree[p]
    BY <1>2, <2>1, Unseen
  <2>3. Doing(job[s], tree, data, cwd)
    BY <2>1, <2>2 DEF AInv
  <2>4. Rooted(tree, Len(data)) /\ Here(job[s]) \in Seq(Names)
    <3>1. job[s].home \in Seq(Names) /\ job[s].request.path \in Paths
      BY <2>1, JobIs DEF TInv, JobTyped
    <3> QED BY <3>1, FromTyped DEF Here, TInv, TreeTyped
  <2>5. Doing(job[s], tree', data, cwd)
    BY <2>2, <2>3, <2>4, SameDoing
  <2> QED BY <2>1, <2>2, <2>5
<1> QED BY <1>1, <1>2

\* For any trees, requests and threads, after any calls: a call of FileSystem that
\* no other thread came between answers for the tree and the contents it leaves.
THEOREM CallsAreAnswered == Spec => CallsAnswer
<1>1. Init => AInv
  BY DEF Init, AInv, NoJob
<1>2. FInv /\ TInv /\ AInv /\ [Next]_vars => AInv'
  <2>1. CASE Next
    BY <2>1, NextAnswers DEF Next
  <2>2. CASE UNCHANGED vars
    BY <2>2 DEF vars, AInv
  <2> QED BY <2>1, <2>2
<1>3. FInv /\ TInv /\ AInv /\ [Next]_vars =>
          [\A t \in Threads :
              Returns(t) /\ disturbed[t] = {} =>
                  Answer(job[t].request, job'[t], tree', data',
                         From(job[t].home, job[t].request.path), From(job[t].home, job[t].request.other))]_vars
  <2> SUFFICES ASSUME FInv, TInv, AInv, Next, NEW t \in Threads, Returns(t), disturbed[t] = {}
               PROVE  Answer(job[t].request, job'[t], tree', data', Here(job[t]), There(job[t]))
    BY DEF Here, There
  <2>1. PICK u \in Threads : Begin(u) \/ CloseFile(u) \/ Step(u)
    BY DEF Next
  <2>2. job[t].at # "returned" /\ job'[t].at = "returned"
    BY DEF Returns
  <2>3. u = t
    BY <2>1, <2>2, OthersStay
  <2>4. Step(t)
    BY <2>1, <2>2, <2>3, Zenon DEF Begin, CloseFile
  <2>5. Doing(job[t], tree, data, cwd)
    BY <2>2 DEF AInv
  <2>6. Answers(t)
    BY <2>4, <2>5, StepAnswers
  <2> QED BY <2>2, <2>6 DEF Answers
<1>4. Spec => []AInv
  BY <1>1, <1>2, TreeTyping, FileSystemInvariant, PTL DEF Spec
<1> QED BY <1>3, <1>4, TreeTyping, FileSystemInvariant, PTL DEF Spec, CallsAnswer

=============================================================================
