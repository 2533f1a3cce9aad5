---------------------------- MODULE FCFSScheduler ----------------------------
(***************************************************************************)
(* FCFSScheduler of the Agent: the queue between two of the Server's       *)
(* threads.  Every operation runs under the queue's own mutex and is one   *)
(* step; a consumer that has to wait is an action that is not enabled.     *)
(* (One thread consumes, so that notify_one wakes the one that waits.)     *)
(***************************************************************************)
EXTENDS Naturals, Sequences

CONSTANT max_size       \* SERVER_QUEUE_MAX_SIZE

VARIABLES
    deque,
    running_cond        \* init was called, deinit was not

Created == deque = <<>> /\ running_cond = FALSE

init == running_cond' = TRUE /\ UNCHANGED deque

deinit == running_cond' = FALSE /\ UNCHANGED deque

\* A full queue drops its oldest element.
Pushed(q, e) == Append(IF max_size <= Len(q) THEN Tail(q) ELSE q, e)

push(e) == deque' = Pushed(deque, e) /\ UNCHANGED running_cond

\* Mistake: the element goes behind the ones that came after it.
BugPutBack(e) == deque' = Append(deque, e) /\ UNCHANGED running_cond

push_front(e) == deque' = <<e>> \o deque /\ UNCHANGED running_cond

\* pop returns true, ...
pop(e) ==
    /\ running_cond
    /\ deque # <<>>
    /\ e = Head(deque)
    /\ deque' = Tail(deque)
    /\ UNCHANGED running_cond

\* ... or false: an element that is left stays.
PopFails == ~running_cond /\ UNCHANGED <<deque, running_cond>>
=============================================================================
