---------------------------- MODULE CommandQueue ----------------------------
(***************************************************************************)
(* src/src/container/command_queue.{hpp,cpp}: deferred calls kept as       *)
(* records of a BufferQueue.  pop() reads the format of the oldest command *)
(* and runs its callback; a callback that takes data gets a pointer INTO   *)
(* the block of the queue, and may itself push, pop, clear, reserve or     *)
(* swap before it returns.  "calls" is the stack of running callbacks.     *)
(***************************************************************************)
EXTENDS BufferQueue

CONSTANTS MaxDepth     \* bound: callbacks nested in one another

VARIABLE calls         \* the running callbacks, outermost first

commandVars == <<vars, calls>>

Formats == {"CALLBACK", "CALLBACK_DATA", "METHOD", "METHOD_DATA"}

ASSUME CommandsOK ==
    /\ \A p \in Payloads : p.format \in Formats
    /\ MaxDepth \in Nat

\* The formats whose callback is given the address of data in the block.
TakesData(rec) == rec.payload.format \in {"CALLBACK_DATA", "METHOD_DATA"}

\* A running callback.  "argument" is where its data is.  Ghost "promised":
\* nothing was done since its start that the implementation of push and
\* reserve turns into an overwrite or a free of that place.
Call(pointer) ==
    [rec      |-> pointer.rec,
     argument |-> IF TakesData(pointer.rec) THEN pointer ELSE NoPointer,
     promised |-> TRUE]

\* The callbacks with data in block b have lost the promise.
Revoked(b) ==
    [i \in DOMAIN calls |->
        [calls[i] EXCEPT !.promised = @ /\ calls[i].argument.block # b]]

-----------------------------------------------------------------------------
CommandInit == Init /\ calls = <<>>

\* The six push functions: a record of one of the formats.  A push that finds
\* the queue drained starts again at offset 0; one that outgrows the block
\* moves to a new one.
PushCommand(q, payload) ==
    /\ Push(q, payload)
    /\ calls' = IF m_start[q] = m_end[q] \/ m_buffer'[q] # m_buffer[q]
                THEN Revoked(m_buffer[q]) ELSE calls

\* pop(): take the oldest record and enter its callback.
PopCommand(q) ==
    /\ Len(calls) < MaxDepth
    /\ Pop(q)
    /\ calls' = Append(calls, Call(popped'))

\* pop() of an empty queue runs nothing and returns 0.
PopNothing(q) == PopEmpty(q) /\ UNCHANGED calls

\* The innermost callback returns, and pop with it.
Return ==
    /\ ~crashed
    /\ calls # <<>>
    /\ calls' = SubSeq(calls, 1, Len(calls) - 1)
    /\ UNCHANGED vars

ClearCommands(q) == Clear(q) /\ UNCHANGED calls

ReserveCommands(q, capacity) ==
    /\ Reserve(q, capacity)
    /\ calls' = IF m_buffer'[q] # m_buffer[q] THEN Revoked(m_buffer[q]) ELSE calls

SwapCommands(q, r) == Swap(q, r) /\ UNCHANGED calls

\* Both operator= of CommandQueue, and both its constructors from another
\* queue, end in the copying operator= of BufferQueue.
AssignCommands(q, r) == CopyAssign(q, r) /\ UNCHANGED calls

CommandNext ==
    \/ Return
    \/ \E q \in Queues :
        \/ \E payload \in Payloads : PushCommand(q, payload)
        \/ PopCommand(q)
        \/ PopNothing(q)
        \/ ClearCommands(q)
        \/ \E capacity \in Capacities : ReserveCommands(q, capacity)
        \/ \E r \in Queues : SwapCommands(q, r) \/ AssignCommands(q, r)

CommandSpec == CommandInit /\ [][CommandNext]_commandVars

-----------------------------------------------------------------------------
Calls == [rec : Records, argument : Pointers \cup {NoPointer}, promised : BOOLEAN]

\* Every variable has its type.
CallsOK == TypeOK /\ calls \in Seq(Calls)

\* A callback may use its data until it has pushed to a queue it found drained
\* or made a queue grow: whatever else runs meanwhile, nested callbacks, other
\* pushes, clears and swaps included, its bytes stay where pop found them.
ArgumentStable ==
    crashed \/ \A i \in DOMAIN calls :
        LET arg == calls[i].argument
        IN  calls[i].promised /\ arg # NoPointer =>
                Holds(heap[arg.block], arg.index, calls[i].rec)
=============================================================================
