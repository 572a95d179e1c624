------------------------- MODULE ConditionVariable -------------------------
(***************************************************************************)
(* src/src/thread/condition_variable_{unix,windows}.cpp: the condition     *)
(* variables of a program.  Each owns a mutex that its wait and its signal *)
(* take by themselves; the data of the predicate is not protected by it    *)
(* when the caller changes it.  The steps of pthread_mutex and             *)
(* pthread_cond (CRITICAL_SECTION and CONDITION_VARIABLE on Windows) are   *)
(* one action each; wait and signal are built from them by the program     *)
(* counter of the calling thread.                                          *)
(***************************************************************************)
EXTENDS Integers

CONSTANTS Threads,      \* the threads that call wait and signal
          Conditions,   \* the ConditionVariable objects
          WakeAll,      \* TRUE for WakeAllConditionVariable, FALSE for
                        \* pthread_cond_signal
          MaxSpurious,  \* bound: wake-ups nobody asked for
          Nobody

ASSUME SyncOK ==
    /\ WakeAll \in BOOLEAN
    /\ MaxSpurious \in Nat
    /\ Nobody \notin Threads

VARIABLES owner,        \* owner[c]: the thread that holds the mutex of c
          asleep,       \* asleep[c]: the threads blocked in the wait of c
          spurious      \* wake-ups nobody asked for, so far

syncVars == <<owner, asleep, spurious>>

SyncTypeOK ==
    /\ owner \in [Conditions -> Threads \cup {Nobody}]
    /\ asleep \in [Conditions -> SUBSET Threads]
    /\ spurious \in 0 .. MaxSpurious

SyncInit ==
    /\ owner = [c \in Conditions |-> Nobody]
    /\ asleep = [c \in Conditions |-> {}]
    /\ spurious = 0

\* pthread_mutex_lock, and the return of pthread_cond_wait: the thread has
\* been woken and takes the mutex back.
Lock(t, c) ==
    /\ t \notin asleep[c]
    /\ owner[c] = Nobody
    /\ owner' = [owner EXCEPT ![c] = t]
    /\ UNCHANGED <<asleep, spurious>>

Unlock(t, c) ==
    /\ owner[c] = t
    /\ owner' = [owner EXCEPT ![c] = Nobody]
    /\ UNCHANGED <<asleep, spurious>>

\* The start of pthread_cond_wait: unlock and fall asleep in one step.
Sleep(t, c) ==
    /\ owner[c] = t
    /\ owner' = [owner EXCEPT ![c] = Nobody]
    /\ asleep' = [asleep EXCEPT ![c] = @ \cup {t}]
    /\ UNCHANGED spurious

\* pthread_cond_signal wakes one thread if there is one; the Windows call
\* wakes them all.
Notify(t, c) ==
    /\ owner[c] = t
    /\ \E woken \in SUBSET asleep[c] :
          /\ IF WakeAll THEN woken = asleep[c]
             ELSE \/ asleep[c] = {}
                  \/ \E w \in asleep[c] : woken = {w}
          /\ asleep' = [asleep EXCEPT ![c] = @ \ woken]
    /\ UNCHANGED <<owner, spurious>>

SpuriousWakeup(t, c) ==
    /\ spurious < MaxSpurious
    /\ t \in asleep[c]
    /\ asleep' = [asleep EXCEPT ![c] = @ \ {t}]
    /\ spurious' = spurious + 1
    /\ UNCHANGED owner
=============================================================================
