--------------------------- MODULE PingPongProofs ---------------------------
(***************************************************************************)
(* The safety of the two threads of test_thread, for every even limit,     *)
(* both ways of signalling and any number of spurious wake-ups.            *)
(***************************************************************************)
EXTENDS PingPong, TLAPS

FooEnding == {"end_time", "done", "last_signal", "last_notify", "last_unlock", "exit"}
FooDone   == {"last_signal", "last_notify", "last_unlock", "exit"}

\* Who holds each mutex and who sleeps follows from the program counters.
Locks ==
    /\ owner["foo"] = "foo" <=> pc["foo"] \in {"predicate", "sleep", "wait_unlock"}
    /\ owner["foo"] = "bar" <=> pc["bar"] \in {"notify", "signal_unlock"}
    /\ owner["bar"] = "bar" <=>
          pc["bar"] \in {"predicate", "predicate_value", "sleep", "wait_unlock"}
    /\ owner["bar"] = "foo" <=>
          pc["foo"] \in {"notify", "signal_unlock", "last_notify", "last_unlock"}
    /\ "bar" \notin asleep["foo"] /\ "foo" \notin asleep["bar"]
    /\ "foo" \in asleep["foo"] => pc["foo"] = "woken"
    /\ "bar" \in asleep["bar"] => pc["bar"] = "woken"

\* Where foo may be for a given value: it holds the turn from the moment its
\* predicate was true until its store.
FooTurn ==
    /\ pc["foo"] \notin {"while_done", "predicate_value"}
    /\ pc["foo"] \in {"start", "while", "test", "load", "store", "wait_unlock"}
          => value % 2 = 0
    /\ pc["foo"] \in {"test", "load", "store"} => value < Limit
    /\ pc["foo"] = "store" => loaded["foo"] = value
    /\ pc["foo"] \in FooEnding => value = Limit
    /\ foo_done => pc["foo"] \in FooDone \cup {"start"}
    /\ pc["foo"] \in FooDone => foo_done
    /\ pc["foo"] = "start" => value = 0

BarTurn ==
    /\ pc["bar"] \notin {"start", "done", "last_signal", "last_notify", "last_unlock"}
    /\ pc["bar"] \in {"load", "store"} => value % 2 = 1
    /\ pc["bar"] = "store" => loaded["bar"] = value
    /\ pc["bar"] = "while_done" => value = Limit
    /\ pc["bar"] \in {"end_time", "exit"} => pc["foo"] \in FooDone

\* A thread about to sleep or asleep has nothing to do, or will be signalled.
Wakeups ==
    /\ pc["foo"] = "sleep" /\ value % 2 = 0 => pc["bar"] = "signal"
    /\ pc["bar"] = "sleep" /\ (foo_done \/ value % 2 = 1) =>
          pc["foo"] \in {"signal", "last_signal"}
    /\ pc["bar"] = "predicate_value" /\ foo_done => pc["foo"] = "last_signal"
    /\ NoLostWakeup

Ends ==
    /\ ended = IF pc["bar"] = "exit" THEN <<"foo", "bar">>
               ELSE IF pc["foo"] \in FooEnding \ {"end_time"} THEN <<"foo">>
               ELSE <<>>
    /\ main \in {"join_bar", "joined"} => pc["foo"] = "exit"
    /\ main = "joined" => pc["bar"] = "exit"

Inv ==
    /\ TypeOK /\ value <= Limit
    /\ Locks /\ FooTurn /\ BarTurn /\ Wakeups /\ Ends

-----------------------------------------------------------------------------
USE SyncOK, LimitOK, ThreadsOK

\* The invariant holds when the threads start.
LEMMA InitInv == Init => Inv
<1> SUFFICES ASSUME Init PROVE Inv
  OBVIOUS
<1> USE DEF Init, SyncInit
<1>1. TypeOK BY DEF TypeOK, SyncTypeOK, ProgramCounters
<1>2. Locks BY DEF Locks
<1>3. FooTurn BY DEF FooTurn, FooEnding, FooDone
<1>4. BarTurn BY DEF BarTurn
<1>5. Wakeups BY DEF Wakeups, NoLostWakeup
<1>6. Ends BY DEF Ends, FooEnding
<1> QED BY <1>1, <1>2, <1>3, <1>4, <1>5, <1>6 DEF Inv

\* The first load of the loop condition keeps the invariant,
LEMMA WhileInv ==
    ASSUME Inv, NEW t \in Threads, While(t)
    PROVE  Inv'
<1> USE DEF Inv, While, Goto, sharedVars, syncVars
<1>1. TypeOK' BY DEF TypeOK, SyncTypeOK, ProgramCounters
<1>2. Locks' BY DEF TypeOK, SyncTypeOK, Locks
<1>3. FooTurn' /\ (value <= Limit)' BY DEF TypeOK, FooTurn, BarTurn, FooEnding, FooDone
<1>4. BarTurn' BY DEF TypeOK, FooTurn, BarTurn, FooEnding, FooDone
<1>5. Wakeups' BY DEF TypeOK, SyncTypeOK, Locks, FooTurn, BarTurn, Wakeups, NoLostWakeup, FooDone
<1>6. Ends' BY DEF TypeOK, BarTurn, Ends, FooEnding, FooDone
<1> QED BY <1>1, <1>2, <1>3, <1>4, <1>5, <1>6

\* and so do the test of the parity,
LEMMA TestInv ==
    ASSUME Inv, NEW t \in Threads, Test(t)
    PROVE  Inv'
<1> USE DEF Inv, Test, Goto, sharedVars, syncVars, Turn
<1>1. TypeOK' BY DEF TypeOK, SyncTypeOK, ProgramCounters
<1>2. Locks' BY DEF TypeOK, SyncTypeOK, Locks
<1>3. FooTurn' /\ (value <= Limit)' BY DEF TypeOK, FooTurn, BarTurn, FooEnding, FooDone
<1>4. BarTurn' BY DEF TypeOK, FooTurn, BarTurn, FooEnding, FooDone
<1>5. Wakeups' BY DEF TypeOK, SyncTypeOK, Locks, FooTurn, BarTurn, Wakeups, NoLostWakeup, FooDone
<1>6. Ends' BY DEF TypeOK, BarTurn, Ends, FooEnding, FooDone
<1> QED BY <1>1, <1>2, <1>3, <1>4, <1>5, <1>6

\* the load of an increment,
LEMMA LoadInv ==
    ASSUME Inv, NEW t \in Threads, Load(t)
    PROVE  Inv'
<1> USE DEF Inv, Load, Goto, sharedVars, syncVars
<1>1. TypeOK' BY DEF TypeOK, SyncTypeOK, ProgramCounters
<1>2. Locks' BY DEF TypeOK, SyncTypeOK, Locks
<1>3. FooTurn' /\ (value <= Limit)' BY DEF TypeOK, FooTurn, BarTurn, FooEnding, FooDone
<1>4. BarTurn' BY DEF TypeOK, FooTurn, BarTurn, FooEnding, FooDone
<1>5. Wakeups' BY DEF TypeOK, SyncTypeOK, Locks, FooTurn, BarTurn, Wakeups, NoLostWakeup, FooDone
<1>6. Ends' BY DEF TypeOK, BarTurn, Ends, FooEnding, FooDone
<1> QED BY <1>1, <1>2, <1>3, <1>4, <1>5, <1>6

\* the store of an increment, which gives the turn to the other thread,
LEMMA StoreInv ==
    ASSUME Inv, NEW t \in Threads, Store(t)
    PROVE  Inv'
<1> USE DEF Inv, Store, Goto, syncVars
<1>1. TypeOK' BY DEF TypeOK, SyncTypeOK, ProgramCounters
<1>2. Locks' BY DEF TypeOK, SyncTypeOK, Locks
<1>3. FooTurn' /\ (value <= Limit)' BY DEF TypeOK, FooTurn, BarTurn, FooEnding, FooDone
<1>4. BarTurn' BY DEF TypeOK, FooTurn, BarTurn, FooEnding, FooDone
<1>5. Wakeups' BY DEF TypeOK, SyncTypeOK, Locks, FooTurn, BarTurn, Wakeups, NoLostWakeup, FooDone
<1>6. Ends' BY DEF TypeOK, BarTurn, Ends, FooEnding, FooDone
<1> QED BY <1>1, <1>2, <1>3, <1>4, <1>5, <1>6

\* the lock taken by signal,
LEMMA SignalLockInv ==
    ASSUME Inv, NEW t \in Threads, SignalLock(t)
    PROVE  Inv'
<1> USE DEF Inv, SignalLock, Goto, sharedVars, Lock, Peer
<1>1. TypeOK' BY DEF TypeOK, SyncTypeOK, ProgramCounters
<1>2. Locks'
  <2>1. CASE t = "foo" BY <2>1 DEF TypeOK, SyncTypeOK, Locks
  <2>2. CASE t = "bar" BY <2>2 DEF TypeOK, SyncTypeOK, Locks, BarTurn
  <2> QED BY <2>1, <2>2
<1>3. FooTurn' /\ (value <= Limit)' BY DEF TypeOK, FooTurn, BarTurn, FooEnding, FooDone
<1>4. BarTurn' BY DEF TypeOK, FooTurn, BarTurn, FooEnding, FooDone
<1>5. Wakeups' BY DEF TypeOK, SyncTypeOK, Locks, FooTurn, BarTurn, Wakeups, NoLostWakeup, FooDone
<1>6. Ends' BY DEF TypeOK, BarTurn, Ends, FooEnding, FooDone
<1> QED BY <1>1, <1>2, <1>3, <1>4, <1>5, <1>6

\* the wake-up sent by signal,
LEMMA SignalNotifyInv ==
    ASSUME Inv, NEW t \in Threads, SignalNotify(t)
    PROVE  Inv'
<1> USE DEF Inv, SignalNotify, Goto, sharedVars, Notify, Peer
<1>1. TypeOK' BY DEF TypeOK, SyncTypeOK, ProgramCounters
<1>2. Locks' BY DEF TypeOK, SyncTypeOK, Locks
<1>3. FooTurn' /\ (value <= Limit)' BY DEF TypeOK, FooTurn, BarTurn, FooEnding, FooDone
<1>4. BarTurn' BY DEF TypeOK, FooTurn, BarTurn, FooEnding, FooDone
<1>5. Wakeups' BY DEF TypeOK, SyncTypeOK, Locks, FooTurn, BarTurn, Wakeups, NoLostWakeup, FooDone
<1>6. Ends' BY DEF TypeOK, BarTurn, Ends, FooEnding, FooDone
<1> QED BY <1>1, <1>2, <1>3, <1>4, <1>5, <1>6

\* the unlock of signal,
LEMMA SignalUnlockInv ==
    ASSUME Inv, NEW t \in Threads, SignalUnlock(t)
    PROVE  Inv'
<1> USE DEF Inv, SignalUnlock, Goto, sharedVars, Unlock, Peer
<1>1. TypeOK' BY DEF TypeOK, SyncTypeOK, ProgramCounters
<1>2. Locks' BY DEF TypeOK, SyncTypeOK, Locks
<1>3. FooTurn' /\ (value <= Limit)' BY DEF TypeOK, FooTurn, BarTurn, FooEnding, FooDone
<1>4. BarTurn' BY DEF TypeOK, FooTurn, BarTurn, FooEnding, FooDone
<1>5. Wakeups' BY DEF TypeOK, SyncTypeOK, Locks, FooTurn, BarTurn, Wakeups, NoLostWakeup, FooDone
<1>6. Ends' BY DEF TypeOK, BarTurn, Ends, FooEnding, FooDone
<1> QED BY <1>1, <1>2, <1>3, <1>4, <1>5, <1>6

\* the lock taken by wait,
LEMMA WaitLockInv ==
    ASSUME Inv, NEW t \in Threads, WaitLock(t)
    PROVE  Inv'
<1> USE DEF Inv, WaitLock, Goto, sharedVars, Lock
<1>1. TypeOK' BY DEF TypeOK, SyncTypeOK, ProgramCounters
<1>2. Locks' BY DEF TypeOK, SyncTypeOK, Locks
<1>3. FooTurn' /\ (value <= Limit)' BY DEF TypeOK, FooTurn, BarTurn, FooEnding, FooDone
<1>4. BarTurn' BY DEF TypeOK, FooTurn, BarTurn, FooEnding, FooDone
<1>5. Wakeups' BY DEF TypeOK, SyncTypeOK, Locks, FooTurn, BarTurn, Wakeups, NoLostWakeup, FooDone
<1>6. Ends' BY DEF TypeOK, BarTurn, Ends, FooEnding, FooDone
<1> QED BY <1>1, <1>2, <1>3, <1>4, <1>5, <1>6

\* falling asleep, after the predicate was false,
LEMMA WaitSleepInv ==
    ASSUME Inv, NEW t \in Threads, WaitSleep(t)
    PROVE  Inv'
<1> USE DEF Inv, WaitSleep, Goto, sharedVars, Sleep
<1>1. TypeOK' BY DEF TypeOK, SyncTypeOK, ProgramCounters
<1>2. Locks' BY DEF TypeOK, SyncTypeOK, Locks
<1>3. FooTurn' /\ (value <= Limit)' BY DEF TypeOK, FooTurn, BarTurn, FooEnding, FooDone
<1>4. BarTurn' BY DEF TypeOK, FooTurn, BarTurn, FooEnding, FooDone
<1>5. Wakeups' BY DEF TypeOK, SyncTypeOK, Locks, FooTurn, BarTurn, Wakeups, NoLostWakeup, FooDone
<1>6. Ends' BY DEF TypeOK, BarTurn, Ends, FooEnding, FooDone
<1> QED BY <1>1, <1>2, <1>3, <1>4, <1>5, <1>6

\* taking the mutex back,
LEMMA WaitWokenInv ==
    ASSUME Inv, NEW t \in Threads, WaitWoken(t)
    PROVE  Inv'
<1> USE DEF Inv, WaitWoken, Goto, sharedVars, Lock
<1>1. TypeOK' BY DEF TypeOK, SyncTypeOK, ProgramCounters
<1>2. Locks' BY DEF TypeOK, SyncTypeOK, Locks
<1>3. FooTurn' /\ (value <= Limit)' BY DEF TypeOK, FooTurn, BarTurn, FooEnding, FooDone
<1>4. BarTurn' BY DEF TypeOK, FooTurn, BarTurn, FooEnding, FooDone
<1>5. Wakeups' BY DEF TypeOK, SyncTypeOK, Locks, FooTurn, BarTurn, Wakeups, NoLostWakeup, FooDone
<1>6. Ends' BY DEF TypeOK, BarTurn, Ends, FooEnding, FooDone
<1> QED BY <1>1, <1>2, <1>3, <1>4, <1>5, <1>6

\* the unlock of wait,
LEMMA WaitUnlockInv ==
    ASSUME Inv, NEW t \in Threads, WaitUnlock(t)
    PROVE  Inv'
<1> USE DEF Inv, WaitUnlock, Goto, sharedVars, Unlock
<1>1. TypeOK' BY DEF TypeOK, SyncTypeOK, ProgramCounters
<1>2. Locks' BY DEF TypeOK, SyncTypeOK, Locks
<1>3. FooTurn' /\ (value <= Limit)' BY DEF TypeOK, FooTurn, BarTurn, FooEnding, FooDone
<1>4. BarTurn' BY DEF TypeOK, FooTurn, BarTurn, FooEnding, FooDone
<1>5. Wakeups' BY DEF TypeOK, SyncTypeOK, Locks, FooTurn, BarTurn, Wakeups, NoLostWakeup, FooDone
<1>6. Ends' BY DEF TypeOK, BarTurn, Ends, FooEnding, FooDone
<1> QED BY <1>1, <1>2, <1>3, <1>4, <1>5, <1>6

\* the time stamp,
LEMMA EndTimeInv ==
    ASSUME Inv, NEW t \in Threads, EndTime(t)
    PROVE  Inv'
<1> USE DEF Inv, EndTime, Goto, sharedVars, syncVars
<1>1. TypeOK' BY DEF TypeOK, SyncTypeOK, ProgramCounters
<1>2. Locks' BY DEF TypeOK, SyncTypeOK, Locks
<1>3. FooTurn' /\ (value <= Limit)' BY DEF TypeOK, FooTurn, BarTurn, FooEnding, FooDone
<1>4. BarTurn' BY DEF TypeOK, FooTurn, BarTurn, FooEnding, FooDone
<1>5. Wakeups' BY DEF TypeOK, SyncTypeOK, Locks, FooTurn, BarTurn, Wakeups, NoLostWakeup, FooDone
<1>6. Ends' BY DEF TypeOK, BarTurn, Ends, FooEnding, FooDone
<1> QED BY <1>1, <1>2, <1>3, <1>4, <1>5, <1>6

\* the start of foo's thread,
LEMMA StartInv ==
    ASSUME Inv, Start
    PROVE  Inv'
<1> USE DEF Inv, Start, Goto, syncVars
<1>1. TypeOK' BY DEF TypeOK, SyncTypeOK, ProgramCounters
<1>2. Locks' BY DEF TypeOK, SyncTypeOK, Locks
<1>3. FooTurn' /\ (value <= Limit)' BY DEF TypeOK, FooTurn, BarTurn, FooEnding, FooDone
<1>4. BarTurn' BY DEF TypeOK, FooTurn, BarTurn, FooEnding, FooDone
<1>5. Wakeups' BY DEF TypeOK, SyncTypeOK, Locks, FooTurn, BarTurn, Wakeups, NoLostWakeup, FooDone
<1>6. Ends' BY DEF TypeOK, BarTurn, Ends, FooEnding, FooDone
<1> QED BY <1>1, <1>2, <1>3, <1>4, <1>5, <1>6

\* the load of foo_done by bar,
LEMMA WhileDoneInv ==
    ASSUME Inv, WhileDone
    PROVE  Inv'
<1> USE DEF Inv, WhileDone, Goto, sharedVars, syncVars
<1>1. TypeOK' BY DEF TypeOK, SyncTypeOK, ProgramCounters
<1>2. Locks' BY DEF TypeOK, SyncTypeOK, Locks
<1>3. FooTurn' /\ (value <= Limit)' BY DEF TypeOK, FooTurn, BarTurn, FooEnding, FooDone
<1>4. BarTurn' BY DEF TypeOK, FooTurn, BarTurn, FooEnding, FooDone
<1>5. Wakeups' BY DEF TypeOK, SyncTypeOK, Locks, FooTurn, BarTurn, Wakeups, NoLostWakeup, FooDone
<1>6. Ends' BY DEF TypeOK, BarTurn, Ends, FooEnding, FooDone
<1> QED BY <1>1, <1>2, <1>3, <1>4, <1>5, <1>6

\* foo's predicate,
LEMMA FooPredicateInv ==
    ASSUME Inv, FooPredicate
    PROVE  Inv'
<1> USE DEF Inv, FooPredicate, Goto, sharedVars, syncVars
<1>1. TypeOK' BY DEF TypeOK, SyncTypeOK, ProgramCounters
<1>2. Locks' BY DEF TypeOK, SyncTypeOK, Locks
<1>3. FooTurn' /\ (value <= Limit)' BY DEF TypeOK, FooTurn, BarTurn, FooEnding, FooDone
<1>4. BarTurn' BY DEF TypeOK, FooTurn, BarTurn, FooEnding, FooDone
<1>5. Wakeups' BY DEF TypeOK, SyncTypeOK, Locks, FooTurn, BarTurn, Wakeups, NoLostWakeup, FooDone
<1>6. Ends' BY DEF TypeOK, BarTurn, Ends, FooEnding, FooDone
<1> QED BY <1>1, <1>2, <1>3, <1>4, <1>5, <1>6

\* bar's predicate,
LEMMA BarPredicateInv ==
    ASSUME Inv, BarPredicate
    PROVE  Inv'
<1> USE DEF Inv, BarPredicate, Goto, sharedVars, syncVars
<1>1. TypeOK' BY DEF TypeOK, SyncTypeOK, ProgramCounters
<1>2. Locks' BY DEF TypeOK, SyncTypeOK, Locks
<1>3. FooTurn' /\ (value <= Limit)' BY DEF TypeOK, FooTurn, BarTurn, FooEnding, FooDone
<1>4. BarTurn' BY DEF TypeOK, FooTurn, BarTurn, FooEnding, FooDone
<1>5. Wakeups' BY DEF TypeOK, SyncTypeOK, Locks, FooTurn, BarTurn, Wakeups, NoLostWakeup, FooDone
<1>6. Ends' BY DEF TypeOK, BarTurn, Ends, FooEnding, FooDone
<1> QED BY <1>1, <1>2, <1>3, <1>4, <1>5, <1>6

\* the store of foo_done,
LEMMA DoneInv ==
    ASSUME Inv, Done
    PROVE  Inv'
<1> USE DEF Inv, Done, Goto, syncVars
<1>1. TypeOK' BY DEF TypeOK, SyncTypeOK, ProgramCounters
<1>2. Locks' BY DEF TypeOK, SyncTypeOK, Locks
<1>3. FooTurn' /\ (value <= Limit)' BY DEF TypeOK, FooTurn, BarTurn, FooEnding, FooDone
<1>4. BarTurn' BY DEF TypeOK, FooTurn, BarTurn, FooEnding, FooDone
<1>5. Wakeups' BY DEF TypeOK, SyncTypeOK, Locks, FooTurn, BarTurn, Wakeups, NoLostWakeup, FooDone
<1>6. Ends' BY DEF TypeOK, BarTurn, Ends, FooEnding, FooDone
<1> QED BY <1>1, <1>2, <1>3, <1>4, <1>5, <1>6

\* a join of the main thread,
LEMMA JoinInv ==
    ASSUME Inv, Join
    PROVE  Inv'
<1> USE DEF Inv, Join, sharedVars, syncVars
<1>1. TypeOK' BY DEF TypeOK, SyncTypeOK, ProgramCounters
<1>2. Locks' BY DEF TypeOK, SyncTypeOK, Locks
<1>3. FooTurn' /\ (value <= Limit)' BY DEF TypeOK, FooTurn, BarTurn, FooEnding, FooDone
<1>4. BarTurn' BY DEF TypeOK, FooTurn, BarTurn, FooEnding, FooDone
<1>5. Wakeups' BY DEF TypeOK, SyncTypeOK, Locks, FooTurn, BarTurn, Wakeups, NoLostWakeup, FooDone
<1>6. Ends' BY DEF TypeOK, BarTurn, Ends, FooEnding, FooDone
<1> QED BY <1>1, <1>2, <1>3, <1>4, <1>5, <1>6

\* and a wake-up nobody asked for.
LEMMA WakeupInv ==
    ASSUME Inv, Wakeup
    PROVE  Inv'
<1> USE DEF Inv, Wakeup, SpuriousWakeup, sharedVars
<1>1. TypeOK' BY DEF TypeOK, SyncTypeOK, ProgramCounters
<1>2. Locks' BY DEF TypeOK, SyncTypeOK, Locks
<1>3. FooTurn' /\ (value <= Limit)' BY DEF TypeOK, FooTurn, BarTurn, FooEnding, FooDone
<1>4. BarTurn' BY DEF TypeOK, FooTurn, BarTurn, FooEnding, FooDone
<1>5. Wakeups' BY DEF TypeOK, SyncTypeOK, Locks, FooTurn, BarTurn, Wakeups, NoLostWakeup, FooDone
<1>6. Ends' BY DEF TypeOK, BarTurn, Ends, FooEnding, FooDone
<1> QED BY <1>1, <1>2, <1>3, <1>4, <1>5, <1>6

\* Every step keeps the invariant.
LEMMA NextInv ==
    ASSUME Inv, [Next]_vars
    PROVE  Inv'
<1>1. CASE UNCHANGED vars
  BY <1>1 DEF vars, sharedVars, syncVars, Inv, TypeOK, SyncTypeOK, Locks, FooTurn,
              BarTurn, Wakeups, NoLostWakeup, Ends
<1>2. ASSUME NEW t \in Threads, Thread(t) PROVE Inv'
  BY <1>2, WhileInv, TestInv, LoadInv, StoreInv, EndTimeInv, SignalLockInv,
     SignalNotifyInv, SignalUnlockInv, WaitLockInv, WaitSleepInv, WaitWokenInv,
     WaitUnlockInv
     DEF Thread, Signal, Wait
<1>3. CASE Foo BY <1>2, <1>3, StartInv, FooPredicateInv, DoneInv DEF Foo
<1>4. CASE Bar BY <1>2, <1>4, WhileDoneInv, BarPredicateInv DEF Bar
<1>5. CASE Join BY <1>5, JoinInv
<1>6. CASE Wakeup BY <1>6, WakeupInv
<1>7. CASE Terminated BY <1>1, <1>7 DEF Terminated
<1> QED BY <1>1, <1>3, <1>4, <1>5, <1>6, <1>7 DEF Next

-----------------------------------------------------------------------------
(* The theorems. *)

\* The inductive invariant holds of every behaviour of the threads.
THEOREM Invariance == Spec => []Inv
<1>1. Init => Inv BY InitInv
<1>2. Inv /\ [Next]_vars => Inv' BY NextInv
<1> QED BY <1>1, <1>2, PTL DEF Spec

\* Every variable keeps its type.
THEOREM TypeCorrect == Spec => []TypeOK
<1>1. Inv => TypeOK BY DEF Inv
<1> QED BY <1>1, Invariance, PTL

\* What test_thread asserts after the joins always holds.
THEOREM OutcomeHolds == Spec => []Outcome
<1>1. Inv => Outcome
  <2> SUFFICES ASSUME Inv, main = "joined" PROVE value = Limit /\ ended = <<"foo", "bar">>
    BY DEF Outcome
  <2>1. pc["foo"] = "exit" /\ pc["bar"] = "exit" BY DEF Inv, Ends
  <2> QED BY <2>1 DEF Inv, FooTurn, FooEnding, Ends
<1> QED BY <1>1, Invariance, PTL

\* No thread sleeps through the signal it waits for.
THEOREM WakeupsArrive == Spec => []NoLostWakeup
<1>1. Inv => NoLostWakeup BY DEF Inv, Wakeups
<1> QED BY <1>1, Invariance, PTL

\* The unprotected increments are never lost and respect the turns.
THEOREM IncrementsAreKept == Spec => NoLostIncrement
<1> DEFINE A == /\ value' = value + 1
                /\ value' <= Limit
                /\ \E t \in Threads : pc[t] = "store" /\ value % 2 = Turn(t)
<1>1. Inv /\ [Next]_vars => [A]_value
  <2> SUFFICES ASSUME Inv, Next, value' # value PROVE A
    BY DEF vars, sharedVars
  <2>1. PICK t \in Threads : Store(t)
    BY DEF Next, Foo, Bar, Thread, Signal, Wait, Join, Wakeup, Terminated,
           While, Test, Load, SignalLock, SignalNotify, SignalUnlock, WaitLock,
           WaitSleep, WaitWoken, WaitUnlock, EndTime, Start, WhileDone,
           FooPredicate, BarPredicate, Done, sharedVars, vars
  <2>2. pc[t] = "store" /\ value' = loaded[t] + 1 BY <2>1 DEF Store, Goto
  <2>3. loaded[t] = value /\ value % 2 = Turn(t) /\ value < Limit /\ value \in Nat
    BY <2>2 DEF Inv, TypeOK, FooTurn, BarTurn, Turn
  <2> QED BY <2>2, <2>3
<1>2. [][A]_value => NoLostIncrement BY DEF NoLostIncrement
<1> QED BY <1>1, <1>2, Invariance, PTL DEF Spec
====
