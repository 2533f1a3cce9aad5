------------------------------ MODULE Delivery ------------------------------
(***************************************************************************)
(* How samples reach the output streams of one session of the Agent:       *)
(*                                                                         *)
(*   - the reading thread of each DataReader, Requester or Replier         *)
(*     (Reader::read_task) reads a sample, waits for its tokens, pushes it *)
(*     and sends what is new (Processor::read_data_callback);              *)
(*   - the processing thread starts and stops these threads, processes     *)
(*     ACKNACKs, pushes statuses and resets the session;                   *)
(*   - all of them look their stream up under the SharedMutex of the       *)
(*     session, which a push keeps, shared, while it waits for room.       *)
(*                                                                         *)
(* The built-in reliable stream, which the statuses of the creation of the *)
(* readers went through, is modelled in detail; another stream is made by  *)
(* the first push to it, and of its window only the outcomes are left.     *)
(* An operation under the lock that does not wait is one step with it.     *)
(***************************************************************************)
EXTENDS AgentOutputStream, SharedMutex, FiniteSets

CONSTANTS
    Readers,        \* the reading threads
    Processing,     \* the processing thread
    Builtin,        \* STREAMID_BUILTIN_RELIABLE
    Streams,        \* the reliable streams a Client asks for data on
    Limits,         \* max_samples the Clients ask for
    Unlimited,      \* 0xFFFF
    CountModulus    \* values of message_count

ASSUME DeliveryAssumption ==
    /\ Builtin \in Streams
    /\ IsFiniteSet(Readers)
    /\ Processing \notin Readers
    /\ NoThread \notin Readers \cup {Processing}
    /\ CountModulus \in Nat \ {0}
    /\ Limits \subseteq (0 .. CountModulus - 1) \cup {Unlimited}
    /\ Writers = Readers \cup {Processing}
    /\ Submessages = Writers

VARIABLES
    streams,        \* the keys of reliable_ostreams_
    running_cond,   \* of each Reader
    thread,         \* its thread_: where it is, its arguments and variables
    task            \* what the processing thread does

vars == <<streamVars, mutexVars, streams, running_cond, thread, task>>

\* A sample larger than the token bucket never gets its tokens.
TooLarge == MaxFragments + 1

Places == {"read", "tokens", "find", "create", "created", "push", "drain", "ended"}

\* sample: how many messages it takes; 0 once it is pushed.
Threads ==
    [at : Places, stream : Streams, limit : Limits,
     sample : 0 .. TooLarge, message_count : 0 .. CountModulus - 1]

Joined == [at |-> "joined"]

Idle == [op |-> "idle"]

Init ==
    /\ StreamInit
    /\ MutexInit
    /\ streams = {Builtin}
    /\ running_cond = [r \in Readers |-> FALSE]
    /\ thread = [r \in Readers |-> Joined]
    /\ task = Idle

Is(r, place) == thread[r].at = place

\* The thread gets to place with n messages to push and c samples counted.
Move(r, place, n, c) ==
    thread' = [thread EXCEPT ![r] = [at |-> place, stream |-> thread[r].stream,
                                     limit |-> thread[r].limit,
                                     sample |-> n, message_count |-> c]]

Go(r, place) == Move(r, place, thread[r].sample, thread[r].message_count)

----------------------------------------------------------------------------
(* Reader::read_task *)

\* Mistake: every limit is one too high.
BugDone(r, n) == n = thread[r].limit + 1

\* max_samples is reached with n samples.
Done(r, n) == thread[r].limit # Unlimited /\ n = thread[r].limit

\* The end of a turn of the outer loop: the thread ends when it is done, or by
\* the time (every reader is taken for one with a max_elapsed_time).
NextTurn(r, n) ==
    Move(r, "ended", 0, n) \/ (~Done(r, n) /\ Move(r, "read", 0, n))

HasTokens(n) == n # TooLarge

\* read_fn waits at most rw_timeout for a sample; one that fits the token
\* bucket gets its tokens some time.
ReadSample(r) ==
    /\ Is(r, "read") /\ running_cond[r]
    /\ \E n \in 1 .. TooLarge :
          Move(r, IF HasTokens(n) THEN "find" ELSE "tokens", n, thread[r].message_count)
    /\ UNCHANGED <<streamVars, mutexVars, streams, running_cond, task>>

ReadNothing(r) ==
    /\ Is(r, "read") /\ running_cond[r]
    /\ NextTurn(r, thread[r].message_count)
    /\ UNCHANGED <<streamVars, mutexVars, streams, running_cond, task>>

\* The loop for the tokens and the outer one end when the thread is to stop.
Stopped(r) ==
    /\ Is(r, "read") \/ Is(r, "tokens")
    /\ ~running_cond[r]
    /\ Go(r, "ended")
    /\ UNCHANGED <<streamVars, mutexVars, streams, running_cond, task>>

\* Mistake: a sample is tried until it is pushed.
BugTryAgain(r) == TRUE

TryAgain(r) == running_cond[r]

\* write_fn returned.
AfterWrite(r) ==
    \/ /\ thread[r].sample = 0
       /\ NextTurn(r, (thread[r].message_count + 1) % CountModulus)
    \/ thread[r].sample # 0 /\ Go(r, IF TryAgain(r) THEN "find" ELSE "ended")

----------------------------------------------------------------------------
(* Processor::read_data_callback, Session::push_output_submessage *)

\* The client has no endpoint any more.
Unrouted(r) ==
    /\ Is(r, "find") /\ r \notin asleep
    /\ AfterWrite(r)
    /\ UNCHANGED <<streamVars, mutexVars, streams, running_cond, task>>

FindStream(r) ==
    /\ Is(r, "find")
    /\ \/ SleepShared(r) /\ UNCHANGED thread
       \/ thread[r].stream \in streams /\ LockShared(r) /\ Go(r, "push")
       \/ thread[r].stream \notin streams /\ UseShared(r) /\ Go(r, "create")
    /\ UNCHANGED <<streamVars, streams, running_cond, task>>

LockStreams(r) ==
    /\ Is(r, "create")
    /\ LockExclusive(r) /\ Go(r, "created")
    /\ UNCHANGED <<streamVars, streams, running_cond, task>>

WaitForStreams(r) ==
    /\ Is(r, "create")
    /\ SleepExclusive(r)
    /\ UNCHANGED <<streamVars, streams, running_cond, thread, task>>

CreateStream(r) ==
    /\ Is(r, "created")
    /\ streams' = streams \cup {thread[r].stream}
    /\ Downgrade(r)
    /\ Go(r, "push")
    /\ UNCHANGED <<streamVars, running_cond, task>>

Pushed(r) ==
    /\ UnlockShared
    /\ Move(r, "drain", 0, thread[r].message_count)
    /\ UNCHANGED <<streams, running_cond, task>>

NotPushed(r) ==
    /\ UnlockShared
    /\ Go(r, "drain")
    /\ UNCHANGED <<streams, running_cond, task>>

\* The push of the detailed stream: at once, or after a wait, or in vain ...
PushBuiltin(r) ==
    /\ Is(r, "push") /\ thread[r].stream = Builtin
    /\ \/ PushNow(r, r, thread[r].sample) /\ Pushed(r)
       \/ PushResumes(r) /\ Pushed(r)
       \/ PushTimesOut(r) /\ NotPushed(r)

WaitForRoom(r) ==
    /\ Is(r, "push") /\ thread[r].stream = Builtin
    /\ PushBlocks(r, r, thread[r].sample)
    /\ UNCHANGED <<mutexVars, streams, running_cond, thread, task>>

\* ... and of another one.
PushOther(r) ==
    /\ Is(r, "push") /\ thread[r].stream # Builtin
    /\ Pushed(r) \/ NotPushed(r)
    /\ UNCHANGED streamVars

\* Mistake: one message is sent after a push.
BugSendAgain(r) == AfterWrite(r)

\* The loop that sends goes on.
SendAgain(r) == UNCHANGED thread

\* All that is new on the stream is sent, whoever pushed it.
SendNew(r) ==
    /\ Is(r, "drain") /\ thread[r].stream = Builtin
    /\ UseShared(r)
    /\ GetNextMessage
    /\ SendAgain(r)
    /\ UNCHANGED <<streams, running_cond, task>>

SentAll(r) ==
    /\ Is(r, "drain")
    /\ thread[r].stream = Builtin => ~HasNext
    /\ UseShared(r)
    /\ AfterWrite(r)
    /\ UNCHANGED <<streamVars, streams, running_cond, task>>

WaitToSend(r) ==
    /\ Is(r, "drain")
    /\ SleepShared(r)
    /\ UNCHANGED <<streamVars, streams, running_cond, thread, task>>

ReaderNext(r) ==
    \/ ReadSample(r) \/ ReadNothing(r) \/ Stopped(r)
    \/ Unrouted(r) \/ FindStream(r)
    \/ LockStreams(r) \/ WaitForStreams(r) \/ CreateStream(r)
    \/ PushBuiltin(r) \/ WaitForRoom(r) \/ PushOther(r)
    \/ SendNew(r) \/ SentAll(r) \/ WaitToSend(r)

----------------------------------------------------------------------------
(* The processing thread *)

\* stop_reading takes the thread's condition away and joins it, if it has it.
StopReading(r, next) ==
    /\ task = Idle
    /\ running_cond' = [running_cond EXCEPT ![r] = FALSE]
    /\ task' = [op |-> IF running_cond[r] THEN "join" ELSE next, reader |-> r, next |-> next]
    /\ UNCHANGED <<streamVars, mutexVars, streams, thread>>

Join ==
    /\ task.op = "join" /\ Is(task.reader, "ended")
    /\ thread' = [thread EXCEPT ![task.reader] = Joined]
    /\ task' = [task EXCEPT !.op = task.next]
    /\ UNCHANGED <<streamVars, mutexVars, streams, running_cond>>

\* start_reading with what the Client asks for.
StartReading(stream, limit) ==
    /\ task.op = "start" /\ ~running_cond[task.reader]
    /\ running_cond' = [running_cond EXCEPT ![task.reader] = TRUE]
    /\ thread' = [thread EXCEPT ![task.reader] =
                     [at |-> "read", stream |-> stream, limit |-> limit,
                      sample |-> 0, message_count |-> 0]]
    /\ task' = Idle
    /\ UNCHANGED <<streamVars, mutexVars, streams>>

\* The destructor of the entity returns.
Deleted ==
    /\ task.op = "delete"
    /\ task' = Idle
    /\ UNCHANGED <<streamVars, mutexVars, streams, running_cond, thread>>

\* update_from_acknack, of a Client that acknowledges what it got.
Acknack(f) ==
    /\ task = Idle
    /\ UseShared(Processing)
    /\ UpdateFromAcknack(f)
    /\ UNCHANGED <<streams, running_cond, thread, task>>

\* A status is pushed without waiting: it is dropped when there is no room.
PushStatus ==
    /\ task = Idle
    /\ UseShared(Processing)
    /\ \/ PushNow(Processing, Processing, 1)
       \/ ~HasRoom /\ UNCHANGED streamVars
    /\ task' = [op |-> "drain"]
    /\ UNCHANGED <<streams, running_cond, thread>>

SendStatus ==
    /\ task.op = "drain"
    /\ UseShared(Processing)
    /\ IF HasNext THEN GetNextMessage /\ UNCHANGED task
       ELSE task' = Idle /\ UNCHANGED streamVars
    /\ UNCHANGED <<streams, running_cond, thread>>

\* Session::reset, for a CREATE_CLIENT of the client that is there.
ResetSession ==
    /\ task = Idle
    /\ UseShared(Processing)
    /\ Reset
    /\ UNCHANGED <<streams, running_cond, thread, task>>

\* Any of these waits while a stream is being made.
WaitForLock ==
    /\ task.op \in {"idle", "drain"}
    /\ SleepShared(Processing)
    /\ UNCHANGED <<streamVars, streams, running_cond, thread, task>>

ProcessingNext ==
    \/ \E r \in Readers, next \in {"start", "delete"} : StopReading(r, next)
    \/ Join
    \/ \E s \in Streams, limit \in Limits : StartReading(s, limit)
    \/ Deleted
    \/ \E f \in SeqNums : Acknack(f)
    \/ PushStatus \/ SendStatus \/ ResetSession \/ WaitForLock

Next == ProcessingNext \/ \E r \in Readers : ReaderNext(r)

Spec == Init /\ [][Next]_vars

\* The threads run: reads, waits for tokens and pushes end by their timeouts,
\* a notified thread looks again, and of the threads that contend for the lock
\* none finds it free again and again in vain.
Fairness ==
    /\ \A r \in Readers : WF_vars(ReaderNext(r)) /\ SF_vars(LockStreams(r))
    /\ WF_vars(Join)

FairSpec == Spec /\ Fairness

----------------------------------------------------------------------------
(* Properties *)

\* Every thread is somewhere, what it holds fits its place, and a push waits
\* in the stream only for a thread that is at the push.
TypeOK ==
    /\ StreamTypeOK
    /\ streams \subseteq Streams
    /\ running_cond \in [Readers -> BOOLEAN]
    /\ \A r \in Readers :
          /\ thread[r] \in Threads \cup {Joined}
          /\ blocked[r] # NoRequest => Is(r, "push")
          /\ Is(r, "find") \/ Is(r, "push") => thread[r].sample \in 1 .. MaxFragments
    /\ asleep \subseteq Writers

\* The map of streams is changed by one thread, while no other is in it: a
\* push that waits refers to an element of the map.
OneChangesStreams ==
    \A r \in Readers : Is(r, "created") =>
        /\ exclusive_thread_id = r /\ exclusively_locked
        /\ \A q \in Readers \ {r} : ~Is(q, "push") /\ ~Is(q, "created")

\* What was numbered was sent when no thread is about to send: nobody else
\* would send it before the Client misses it.
NothingLeftUnsent ==
    (task.op # "drain" /\ \A r \in Readers : ~Is(r, "drain")) => ~HasNext

\* std::thread is never assigned to while the thread it stands for was not
\* joined (which would end the Agent), also when that ended by itself.
JoinedBeforeStart ==
    task.op = "start" /\ ~running_cond[task.reader] => Is(task.reader, "joined")

\* A Client gets at most the samples it asked for: "The maximum number of
\* topics that the Agent shall send to the Client."
AtMostAsked ==
    \A r \in Readers :
        thread[r] # Joined /\ thread[r].limit # Unlimited =>
            thread[r].message_count <= thread[r].limit

\* The processing thread, which alone could make room for the pushes the
\* others wait in, is never kept by a reading thread it stops.
StopReturns == (task.op = "join") ~> (task.op # "join")
=============================================================================
