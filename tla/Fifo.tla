-------------------------------- MODULE Fifo --------------------------------
(***************************************************************************)
(* What BufferQueue and CommandQueue promise to their caller: every queue  *)
(* is a sequence of records, a record leaves at the front, and clear, swap *)
(* and assignment act on whole sequences.                                  *)
(***************************************************************************)
EXTENDS Sequences

CONSTANTS Queues,      \* the queue objects of the caller
          Records,     \* what may be pushed
          Nothing      \* what pop returns on an empty queue

VARIABLES contents,    \* contents[q]: the records of q, oldest first
          output       \* what the latest pop returned

vars == <<contents, output>>

TypeOK ==
    /\ contents \in [Queues -> Seq(Records)]
    /\ output \in Records \cup {Nothing}

Init ==
    /\ contents = [q \in Queues |-> <<>>]
    /\ output = Nothing

Push(q, rec) ==
    /\ contents' = [contents EXCEPT ![q] = Append(@, rec)]
    /\ UNCHANGED output

Pop(q) ==
    /\ contents[q] # <<>>
    /\ contents' = [contents EXCEPT ![q] = Tail(@)]
    /\ output' = Head(contents[q])

PopEmpty(q) ==
    /\ contents[q] = <<>>
    /\ output' = Nothing
    /\ UNCHANGED contents

Clear(q) ==
    /\ contents' = [contents EXCEPT ![q] = <<>>]
    /\ UNCHANGED output

Swap(q, r) ==
    /\ contents' = [contents EXCEPT ![q] = contents[r], ![r] = contents[q]]
    /\ UNCHANGED output

Assign(q, r) ==
    /\ contents' = [contents EXCEPT ![q] = contents[r]]
    /\ UNCHANGED output

Move(q, r) ==
    /\ contents' = [contents EXCEPT ![q] = contents[r], ![r] = <<>>]
    /\ UNCHANGED output

Next ==
    \E q \in Queues :
        \/ \E rec \in Records : Push(q, rec)
        \/ Pop(q)
        \/ PopEmpty(q)
        \/ Clear(q)
        \/ \E r \in Queues : Swap(q, r) \/ Assign(q, r) \/ Move(q, r)

Spec == Init /\ [][Next]_vars
=============================================================================
