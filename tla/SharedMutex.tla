----------------------------- MODULE SharedMutex -----------------------------
(***************************************************************************)
(* SharedMutex of the Agent (utils/SharedMutex.hpp) with the two locks     *)
(* over it.  Many threads hold it shared or one holds it exclusively; the  *)
(* one that does may take it shared as well.  A thread that cannot have it *)
(* sleeps on the one condition variable until a notification; a shared     *)
(* lock does not queue behind a thread that wants it exclusively.          *)
(***************************************************************************)
EXTENDS Integers

CONSTANT NoThread       \* the thread id of no thread

VARIABLES
    shared_counter,         \* shared locks held
    exclusively_locked,
    exclusive_thread_id,    \* the last thread that had it exclusively
    asleep                  \* the threads that sleep in cv_.wait

mutexVars == <<shared_counter, exclusively_locked, exclusive_thread_id, asleep>>

MutexInit ==
    /\ shared_counter = 0
    /\ exclusively_locked = FALSE
    /\ exclusive_thread_id = NoThread
    /\ asleep = {}

CanShare(t) == ~exclusively_locked \/ exclusive_thread_id = t

\* Mistake: the exclusive lock is granted over shared ones.
BugCanExclude == ~exclusively_locked

CanExclude == shared_counter = 0 /\ ~exclusively_locked

\* notify_one
WakeOne == IF asleep = {} THEN UNCHANGED asleep ELSE \E t \in asleep : asleep' = asleep \ {t}

\* A shared lock is released and n are left.
Released(n) == IF n = 0 THEN WakeOne ELSE UNCHANGED asleep

\* The predicate is false: the thread sleeps.  Otherwise it has the lock.
SleepShared(t) ==
    /\ t \notin asleep /\ ~CanShare(t)
    /\ asleep' = asleep \cup {t}
    /\ UNCHANGED <<shared_counter, exclusively_locked, exclusive_thread_id>>

SleepExclusive(t) ==
    /\ t \notin asleep /\ ~CanExclude
    /\ asleep' = asleep \cup {t}
    /\ UNCHANGED <<shared_counter, exclusively_locked, exclusive_thread_id>>

LockShared(t) ==
    /\ t \notin asleep /\ CanShare(t)
    /\ shared_counter' = shared_counter + 1
    /\ UNCHANGED <<exclusively_locked, exclusive_thread_id, asleep>>

UnlockShared ==
    /\ shared_counter' = shared_counter - 1
    /\ Released(shared_counter')
    /\ UNCHANGED <<exclusively_locked, exclusive_thread_id>>

\* A shared lock taken and released around something that does not wait.
UseShared(t) ==
    /\ t \notin asleep /\ CanShare(t)
    /\ Released(shared_counter)
    /\ UNCHANGED <<shared_counter, exclusively_locked, exclusive_thread_id>>

LockExclusive(t) ==
    /\ t \notin asleep /\ CanExclude
    /\ exclusively_locked' = TRUE
    /\ exclusive_thread_id' = t
    /\ UNCHANGED <<shared_counter, asleep>>

\* get_reliable_output_stream: the thread that has the lock exclusively takes
\* it shared and releases the exclusive lock, which notifies all.
Downgrade(t) ==
    /\ CanShare(t)
    /\ shared_counter' = shared_counter + 1
    /\ exclusively_locked' = FALSE
    /\ asleep' = {}
    /\ UNCHANGED exclusive_thread_id
=============================================================================
