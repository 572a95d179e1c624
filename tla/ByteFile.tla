------------------------------- MODULE ByteFile -------------------------------
(***************************************************************************)
(* What FileWriter promises to whoever writes through it: a file of bytes  *)
(* and a position in it.  A call of write that returns true stored all its *)
(* bytes at the position; one that returns false, because the system       *)
(* refused, stored the first few of them.  Nothing is promised any more    *)
(* once the system took a part of a buffer ("damaged").                    *)
(***************************************************************************)
EXTENDS FileBytes

CONSTANTS Sizes,      \* sizes of calls of write
          Positions   \* arguments of calls of seek

VARIABLES content, position, isOpen,
          result,     \* what the latest call returned
          writes,     \* calls of write so far
          damaged

vars == <<content, position, isOpen, result, writes, damaged>>

Init ==
    /\ content = Empty
    /\ position = 0
    /\ isOpen = FALSE
    /\ result = FALSE
    /\ writes = 0
    /\ damaged = FALSE

\* A call with "size" bytes of which the first n are stored.
Write(size, n) ==
    /\ isOpen
    /\ content' = Overlay(content, position, Data(writes + 1, size), n)
    /\ position' = position + n
    /\ result' = (n = size)
    /\ writes' = writes + 1
    /\ UNCHANGED <<isOpen, damaged>>

Seek(p) ==
    /\ isOpen
    /\ position' = p
    /\ result' = TRUE
    /\ UNCHANGED <<content, isOpen, writes, damaged>>

\* flush, and any call the system refused from the start.
NoEffect ==
    /\ result' \in BOOLEAN
    /\ UNCHANGED <<content, position, isOpen, writes, damaged>>

Open ==
    /\ content' = Empty
    /\ position' = 0
    /\ isOpen' = TRUE
    /\ result' = TRUE
    /\ UNCHANGED <<writes, damaged>>

\* close, and open when the system refuses.
Close ==
    /\ position' = 0
    /\ isOpen' = FALSE
    /\ result' \in BOOLEAN
    /\ UNCHANGED <<content, writes, damaged>>

Damage == damaged'

Next ==
    \/ \E size \in Sizes : \E n \in 0 .. size : Write(size, n)
    \/ \E p \in Positions : Seek(p)
    \/ NoEffect \/ Open \/ Close \/ Damage

Spec == Init /\ [][Next]_vars
=============================================================================
