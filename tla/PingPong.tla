------------------------------ MODULE PingPong ------------------------------
(***************************************************************************)
(* The threads of test_thread (src/tests/unit-tests.cpp), the client code  *)
(* of Thread and ConditionVariable: foo makes an even value odd, bar an    *)
(* odd value even, each waits on a condition variable of its own, and the  *)
(* main thread joins both and checks the outcome.  "value" and "foo_done"  *)
(* are plain fields that both threads read and write outside every mutex,  *)
(* so each load and each store of them is a step of its own.               *)
(***************************************************************************)
EXTENDS ConditionVariable, Sequences

CONSTANT Limit          \* 100 in the code

ASSUME LimitOK == Limit \in Nat \ {0} /\ Limit % 2 = 0
ASSUME ThreadsOK == Threads = {"foo", "bar"} /\ Conditions = Threads

VARIABLES value, foo_done,
          ended,        \* the order of the foo_end_time and bar_end_time stamps
          pc,           \* pc[t]: where thread t is
          loaded,       \* loaded[t]: the value ++value has read
          main          \* where the main thread is

sharedVars == <<value, foo_done>>
vars == <<sharedVars, ended, pc, loaded, main, syncVars>>

Peer(t) == IF t = "foo" THEN "bar" ELSE "foo"

\* The parity at which t may increment.
Turn(t) == IF t = "foo" THEN 0 ELSE 1

Goto(t, from, to) == pc[t] = from /\ pc' = [pc EXCEPT ![t] = to]

-----------------------------------------------------------------------------
\* foo_done is not initialised before foo's thread stores it.
Init ==
    /\ SyncInit
    /\ value = 0
    /\ foo_done \in BOOLEAN
    /\ ended = <<>>
    /\ pc = [t \in Threads |-> IF t = "foo" THEN "start" ELSE "while"]
    /\ loaded = [t \in Threads |-> 0]
    /\ main = "join_foo"

\* product->foo_done = false
Start ==
    /\ Goto("foo", "start", "while")
    /\ foo_done' = FALSE
    /\ UNCHANGED <<value, ended, loaded, main, syncVars>>

\* while (value < 100 ...): the first load of the condition.
While(t) ==
    /\ Goto(t, "while", IF value < Limit THEN "test"
                        ELSE IF t = "foo" THEN "end_time" ELSE "while_done")
    /\ UNCHANGED <<sharedVars, ended, loaded, main, syncVars>>

\* Slip: the loop tests a copy of foo_done taken before it.
WhileDone_StaleFlag ==
    /\ Goto("bar", "while_done", "test")
    /\ UNCHANGED <<sharedVars, ended, loaded, main, syncVars>>

\* while (... || !foo_done): the second load, in bar only.
WhileDone ==
    /\ Goto("bar", "while_done", IF foo_done THEN "end_time" ELSE "test")
    /\ UNCHANGED <<sharedVars, ended, loaded, main, syncVars>>

\* Slip: the thread increments without looking at the parity.
Test_AnyTurn(t) ==
    /\ Goto(t, "test", "load")
    /\ UNCHANGED <<sharedVars, ended, loaded, main, syncVars>>

\* if (value % 2 == ...)
Test(t) ==
    /\ Goto(t, "test", IF value % 2 = Turn(t) THEN "load" ELSE "wait")
    /\ UNCHANGED <<sharedVars, ended, loaded, main, syncVars>>

\* ++value, which is a load and a store.
Load(t) ==
    /\ Goto(t, "load", "store")
    /\ loaded' = [loaded EXCEPT ![t] = value]
    /\ UNCHANGED <<sharedVars, ended, main, syncVars>>

\* Slip: the value is decremented.
Store_Decrement(t) ==
    /\ Goto(t, "store", "signal")
    /\ value' = loaded[t] - 1
    /\ UNCHANGED <<foo_done, ended, loaded, main, syncVars>>

Store(t) ==
    /\ Goto(t, "store", "signal")
    /\ value' = loaded[t] + 1
    /\ UNCHANGED <<foo_done, ended, loaded, main, syncVars>>

\* ConditionVariable::signal of the other thread's condition variable, once
\* in the loop and, in foo, once more after foo_done is set.
SignalLock(t) ==
    /\ \/ Goto(t, "signal", "notify")
       \/ Goto(t, "last_signal", "last_notify")
    /\ Lock(t, Peer(t))
    /\ UNCHANGED <<sharedVars, ended, loaded, main>>

SignalNotify(t) ==
    /\ \/ Goto(t, "notify", "signal_unlock")
       \/ Goto(t, "last_notify", "last_unlock")
    /\ Notify(t, Peer(t))
    /\ UNCHANGED <<sharedVars, ended, loaded, main>>

SignalUnlock(t) ==
    /\ \/ Goto(t, "signal_unlock", "wait")
       \/ Goto(t, "last_unlock", "exit")
    /\ Unlock(t, Peer(t))
    /\ UNCHANGED <<sharedVars, ended, loaded, main>>

\* ConditionVariable::wait of the thread's own condition variable.
WaitLock(t) ==
    /\ Goto(t, "wait", "predicate")
    /\ Lock(t, t)
    /\ UNCHANGED <<sharedVars, ended, loaded, main>>

\* foo's predicate loads value; bar's loads foo_done, then value.
FooPredicate ==
    /\ Goto("foo", "predicate", IF value % 2 = 0 THEN "wait_unlock" ELSE "sleep")
    /\ UNCHANGED <<sharedVars, ended, loaded, main, syncVars>>

\* Slip: bar's predicate does not look at foo_done.
BarPredicate_ValueOnly ==
    /\ Goto("bar", "predicate", IF value % 2 = 1 THEN "wait_unlock" ELSE "sleep")
    /\ UNCHANGED <<sharedVars, ended, loaded, main, syncVars>>

BarPredicate ==
    /\ \/ Goto("bar", "predicate", IF foo_done THEN "wait_unlock" ELSE "predicate_value")
       \/ Goto("bar", "predicate_value", IF value % 2 = 1 THEN "wait_unlock" ELSE "sleep")
    /\ UNCHANGED <<sharedVars, ended, loaded, main, syncVars>>

WaitSleep(t) ==
    /\ Goto(t, "sleep", "woken")
    /\ Sleep(t, t)
    /\ UNCHANGED <<sharedVars, ended, loaded, main>>

WaitWoken(t) ==
    /\ Goto(t, "woken", "predicate")
    /\ Lock(t, t)
    /\ UNCHANGED <<sharedVars, ended, loaded, main>>

WaitUnlock(t) ==
    /\ Goto(t, "wait_unlock", "while")
    /\ Unlock(t, t)
    /\ UNCHANGED <<sharedVars, ended, loaded, main>>

\* foo_end_time or bar_end_time is stamped.
EndTime(t) ==
    /\ Goto(t, "end_time", IF t = "foo" THEN "done" ELSE "exit")
    /\ ended' = Append(ended, t)
    /\ UNCHANGED <<sharedVars, loaded, main, syncVars>>

\* product->foo_done = true
Done ==
    /\ Goto("foo", "done", "last_signal")
    /\ foo_done' = TRUE
    /\ UNCHANGED <<value, ended, loaded, main, syncVars>>

\* Slip: the main thread joins foo's thread only.
Join_FooOnly ==
    /\ main = "join_foo" /\ pc["foo"] = "exit" /\ main' = "joined"
    /\ UNCHANGED <<sharedVars, ended, pc, loaded, syncVars>>

\* foo_thread.join(), then bar_thread.join().
Join ==
    /\ \/ main = "join_foo" /\ pc["foo"] = "exit" /\ main' = "join_bar"
       \/ main = "join_bar" /\ pc["bar"] = "exit" /\ main' = "joined"
    /\ UNCHANGED <<sharedVars, ended, pc, loaded, syncVars>>

Wakeup ==
    /\ \E t \in Threads : SpuriousWakeup(t, t)
    /\ UNCHANGED <<sharedVars, ended, pc, loaded, main>>

\* The main thread has checked the outcome and nothing is left to run.
Terminated == main = "joined" /\ UNCHANGED vars

Signal(t) == SignalLock(t) \/ SignalNotify(t) \/ SignalUnlock(t)

Wait(t) == WaitLock(t) \/ WaitSleep(t) \/ WaitWoken(t) \/ WaitUnlock(t)

Thread(t) ==
    \/ While(t) \/ Test(t) \/ Load(t) \/ Store(t) \/ EndTime(t)
    \/ Signal(t) \/ Wait(t)

Foo == Thread("foo") \/ Start \/ FooPredicate \/ Done
Bar == Thread("bar") \/ WhileDone \/ BarPredicate

Next == Foo \/ Bar \/ Join \/ Wakeup \/ Terminated

\* The operating system schedules every thread that can run.
Fairness == WF_vars(Foo) /\ WF_vars(Bar) /\ WF_vars(Join)

Spec == Init /\ [][Next]_vars /\ Fairness

-----------------------------------------------------------------------------
(* Correctness. *)

ProgramCounters ==
    {"start", "while", "while_done", "test", "load", "store",
     "signal", "notify", "signal_unlock",
     "wait", "predicate", "predicate_value", "sleep", "woken", "wait_unlock",
     "end_time", "done", "last_signal", "last_notify", "last_unlock", "exit"}

\* Every variable has its type.
TypeOK ==
    /\ SyncTypeOK
    /\ value \in Nat
    /\ foo_done \in BOOLEAN
    /\ ended \in Seq(Threads)
    /\ pc \in [Threads -> ProgramCounters]
    /\ loaded \in [Threads -> Nat]
    /\ main \in {"join_foo", "join_bar", "joined"}

\* Although value is incremented outside every mutex, no increment is lost and
\* the threads take turns: value only changes by one, by the thread whose turn
\* it is, and never past the limit.
NoLostIncrement ==
    [][/\ value' = value + 1
       /\ value' <= Limit
       /\ \E t \in Threads : pc[t] = "store" /\ value % 2 = Turn(t)]_value

\* What test_thread asserts once both threads are joined: value == 100, and
\* foo_end_time < bar_end_time.
Outcome == main = "joined" => value = Limit /\ ended = <<"foo", "bar">>

\* No wake-up is lost: a thread asleep on its condition variable has nothing
\* to do yet, or the signal that tells it otherwise is still to come.
NoLostWakeup ==
    /\ "foo" \in asleep["foo"] /\ value % 2 = 0 =>
          pc["bar"] \in {"signal", "notify"}
    /\ "bar" \in asleep["bar"] /\ (foo_done \/ value % 2 = 1) =>
          pc["foo"] \in {"signal", "notify", "last_signal", "last_notify"}

\* Both threads finish and the main thread gets past its two joins.
Termination == <>(main = "joined")
=============================================================================
