------------------------------ MODULE FileBytes ------------------------------
(***************************************************************************)
(* A file as the system keeps it (src/src/file_system/file_unix.cpp): a    *)
(* size and the bytes below it.  A byte is named by the call of write it   *)
(* came with and its place among the bytes of that call.                   *)
(***************************************************************************)
EXTENDS Integers

Bytes == [write : Nat, at : Nat]
Hole  == [write |-> 0, at |-> 0]    \* where nothing was written: a zero byte

Empty == [size |-> 0, byte |-> [i \in {} |-> Hole]]
IsFile(f) ==
    /\ f = [size |-> f.size, byte |-> f.byte]
    /\ f.size \in Nat
    /\ f.byte \in [0 .. f.size - 1 -> Bytes]

\* The bytes of the k-th call of write, which stores n of them.
Data(k, n) == [i \in 0 .. n - 1 |-> [write |-> k, at |-> i]]

Larger(m, n) == IF m > n THEN m ELSE n

\* File f after the first n bytes of data were stored at "at".
Overlay(f, at, data, n) ==
    IF n = 0 THEN f
    ELSE LET size == Larger(f.size, at + n)
         IN  [size |-> size,
              byte |-> [i \in 0 .. size - 1 |->
                           IF i \in at .. at + n - 1 THEN data[i - at]
                           ELSE IF i < f.size THEN f.byte[i]
                           ELSE Hole]]
=============================================================================
