-------------------------------- MODULE Signal --------------------------------
(***************************************************************************)
(* src/src/signal.hpp: a signal calls a member function of every object    *)
(* that is connected to it.  send walks the vector of receivers with the   *)
(* size it had at the start, and a callback may connect, disconnect and    *)
(* send itself before it returns.  One thread uses the signal; "sends" is  *)
(* the stack of running sends.                                             *)
(*                                                                         *)
(* A slot of the vector is a Receiver: the address of the bridge, the      *)
(* object and one word for the member function.  A pointer to member       *)
(* function takes FunctionWords words.  Where that is two, the second, by  *)
(* which the object's address is adjusted, is the first of the next slot.  *)
(***************************************************************************)
EXTENDS Integers, Sequences, FiniteSets

CONSTANTS Objects,        \* the objects that connect
          FunctionWords,  \* 1 in the Microsoft ABI, 2 in the Itanium ABI
          MaxDepth,       \* bound: sends nested in one another
          Nobody

ASSUME SignalOK ==
    /\ IsFiniteSet(Objects) /\ Nobody \notin Objects
    /\ FunctionWords \in {1, 2}
    /\ MaxDepth \in Nat \ {0}

VARIABLES m_array,      \* the slots of m_receivers, by index
          m_size,
          sends,        \* the running sends, outermost first
          misdirected,  \* a member function ran on an address that is no object
          connected     \* ghost: the objects connected and not disconnected

vars == <<m_array, m_size, sends, misdirected, connected>>

Capacity == Cardinality(DOMAIN m_array)

\* A slot: its object, and whether its first word is a bridge or zero.
Slot(object) == [object |-> object, bridge |-> TRUE]
Garbage      == [object |-> Nobody, bridge |-> FALSE]

\* A send: the number of slots it will visit, the one it is at, and whether it
\* is in the callback of that one.  The rest are ghosts: the objects connected
\* when it began and ever since, those connected at any time since, the objects
\* it has called, and whether anything was connected or disconnected.
NewSend ==
    [count |-> m_size, index |-> 0, calling |-> FALSE,
     present |-> connected, seen |-> connected, called |-> <<>>,
     added |-> FALSE, removed |-> FALSE]

Top == sends[Len(sends)]
SetTop(frame) == [sends EXCEPT ![Len(sends)] = frame]

\* The loop of a send has receivers left.
Remaining_Now(s) == s.index < m_size
Remaining(s)     == s.index < s.count

\* The owner's code runs: outside every send, or in a callback.
Running == IF sends = <<>> THEN TRUE ELSE Top.calling

\* Every running send notes that o was connected, or that gone were not any more.
Noted(o) ==
    [i \in DOMAIN sends |-> [sends[i] EXCEPT !.seen = @ \cup {o}, !.added = TRUE]]
NotedGone(gone) ==
    [i \in DOMAIN sends |-> [sends[i] EXCEPT !.present = @ \ gone, !.removed = TRUE]]

\* get_receiver_index: the slots that hold o.
IndexOf(o) == {i \in 0 .. m_size - 1 : m_array[i].object = o}

-----------------------------------------------------------------------------
Init ==
    /\ m_array = [i \in {} |-> Garbage]
    /\ m_size = 0
    /\ sends = <<>>
    /\ misdirected = FALSE
    /\ connected = {}

\* Vector::add doubles the array when it is full.
Grown_Empty ==
    IF m_size + 1 > Capacity
    THEN [i \in 0 .. 2 * (m_size + 1) - 1 |-> Garbage]
    ELSE m_array

Grown ==
    IF m_size + 1 > Capacity
    THEN [i \in 0 .. 2 * (m_size + 1) - 1 |-> IF i < m_size THEN m_array[i] ELSE Garbage]
    ELSE m_array

\* The slots after object o was stored at the end.  With two words the zero
\* behind the function goes to the next slot, or past the array.
Stored(o) ==
    [i \in DOMAIN Grown |->
        IF i = m_size THEN Slot(o)
        ELSE IF FunctionWords = 2 /\ i = m_size + 1 THEN [Grown[i] EXCEPT !.bridge = FALSE]
        ELSE Grown[i]]

Connect(o) ==
    /\ ~misdirected
    /\ Running
    /\ IF IndexOf(o) = {}
       THEN /\ m_array' = Stored(o)
            /\ m_size' = m_size + 1
            /\ sends' = Noted(o)
       ELSE UNCHANGED <<m_array, m_size, sends>>
    /\ connected' = connected \cup {o}
    /\ UNCHANGED misdirected

\* The slots after the one at index i was removed: the last one fills it.
Removed_Last(i)  == m_array
Removed_Shift(i) ==
    [j \in DOMAIN m_array |->
        IF i <= j /\ j < m_size - 1 THEN m_array[j + 1] ELSE m_array[j]]

Removed(i) == [m_array EXCEPT ![i] = m_array[m_size - 1]]

Disconnect(o) ==
    /\ ~misdirected
    /\ Running
    /\ IF IndexOf(o) = {}
       THEN UNCHANGED <<m_array, m_size, sends>>
       ELSE /\ m_array' = Removed(CHOOSE i \in IndexOf(o) : \A j \in IndexOf(o) : i <= j)
            /\ m_size' = m_size - 1
            /\ sends' = NotedGone({o})
    /\ connected' = connected \ {o}
    /\ UNCHANGED misdirected

DisconnectAll_Frees ==
    /\ ~misdirected
    /\ Running
    /\ m_array' = [i \in {} |-> Garbage]
    /\ m_size' = 0
    /\ sends' = NotedGone(connected)
    /\ connected' = {}
    /\ UNCHANGED misdirected

DisconnectAll ==
    /\ ~misdirected
    /\ Running
    /\ m_size' = 0
    /\ sends' = NotedGone(connected)
    /\ connected' = {}
    /\ UNCHANGED <<m_array, misdirected>>

\* send(): the number of receivers is read once.
Send ==
    /\ ~misdirected
    /\ Running
    /\ Len(sends) < MaxDepth
    /\ sends' = Append(sends, NewSend)
    /\ UNCHANGED <<m_array, m_size, misdirected, connected>>

\* The bridge of the slot at i adds the word behind the slot to the address of
\* the object.  Past the array that word has any value.
Adjusted(i) ==
    IF FunctionWords = 1 THEN {FALSE}
    ELSE IF i + 1 \in DOMAIN m_array THEN {m_array[i + 1].bridge}
    ELSE BOOLEAN

\* One round of the loop: the receiver at the index is called.
Call ==
    /\ ~misdirected
    /\ sends # <<>>
    /\ ~Top.calling /\ Remaining(Top)
    /\ sends' = SetTop([Top EXCEPT !.calling = TRUE,
                                   !.called = Append(@, m_array[Top.index].object)])
    /\ misdirected' \in Adjusted(Top.index)
    /\ UNCHANGED <<m_array, m_size, connected>>

\* The callback returns and the loop goes on.
Return ==
    /\ ~misdirected
    /\ sends # <<>>
    /\ Top.calling
    /\ sends' = SetTop([Top EXCEPT !.calling = FALSE, !.index = @ + 1])
    /\ UNCHANGED <<m_array, m_size, misdirected, connected>>

EndSend ==
    /\ ~misdirected
    /\ sends # <<>>
    /\ ~Top.calling /\ ~Remaining(Top)
    /\ sends' = SubSeq(sends, 1, Len(sends) - 1)
    /\ UNCHANGED <<m_array, m_size, misdirected, connected>>

Next ==
    \/ \E o \in Objects : Connect(o) \/ Disconnect(o)
    \/ DisconnectAll \/ Send \/ Call \/ Return \/ EndSend

Spec == Init /\ [][Next]_vars

-----------------------------------------------------------------------------
(* Correctness. *)

Called(s) == {s.called[i] : i \in 1 .. Len(s.called)}

Frames ==
    [count : Nat, index : Nat, calling : BOOLEAN, present : SUBSET Objects,
     seen : SUBSET Objects, called : Seq(Objects), added : BOOLEAN, removed : BOOLEAN]

\* Every variable has its type.
TypeOK ==
    /\ m_size \in Nat /\ Capacity \in Nat
    /\ m_array \in [0 .. Capacity - 1 -> [object : Objects \cup {Nobody}, bridge : BOOLEAN]]
    /\ sends \in Seq(Frames)
    /\ misdirected \in BOOLEAN
    /\ connected \subseteq Objects

\* The vector holds every connected object once and no other, whatever was
\* connected and disconnected from whichever callback.
ReceiversExact ==
    /\ m_size <= Capacity
    /\ {m_array[i].object : i \in 0 .. m_size - 1} = connected
    /\ m_size = Cardinality(connected)

\* A running send only visits slots inside the array, although its callbacks may
\* have made the vector shorter, or moved it; and what it calls is an object
\* that was connected at some time since it began.
CalledWereConnected ==
    \A i \in DOMAIN sends :
        /\ sends[i].count <= Capacity
        /\ Called(sends[i]) \subseteq sends[i].seen

\* An object that stays connected while the signal is sent is called, whatever
\* the callbacks disconnect and however that moves the receivers under the
\* loop, as long as none connects another object.
NobodyMissed ==
    \A i \in DOMAIN sends :
        LET s == sends[i]
        IN  ~s.added /\ s.index = s.count => s.present \subseteq Called(s)

\* If nothing is disconnected meanwhile, a send calls exactly the objects that
\* were connected when it began, each once: objects its callbacks connect have
\* to wait for the next one.
SentOnce ==
    \A i \in DOMAIN sends :
        LET s == sends[i]
        IN  ~s.removed /\ s.index = s.count =>
               Called(s) = s.present /\ Len(s.called) = Cardinality(s.present)

-----------------------------------------------------------------------------
(* What the comments of the class say. *)

\* signal.hpp:82: send sends the signal to connected objects: whoever it starts
\* to call is connected.
OnlyToConnected ==
    [][\A i \in DOMAIN sends :
          i \in DOMAIN sends' /\ Len(sends'[i].called) > Len(sends[i].called) =>
              sends'[i].called[Len(sends'[i].called)] \in connected]_vars

\* signal.hpp:50-51: what is called when the signal is sent is the member
\* function on the object that was connected.
CalledOnObject == ~misdirected
=============================================================================
