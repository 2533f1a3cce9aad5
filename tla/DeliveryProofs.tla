--------------------------- MODULE DeliveryProofs ---------------------------
(***************************************************************************)
(* The safety properties of Delivery hold for any number of reading        *)
(* threads and streams, any depth, fragment count and modulus.             *)
(*                                                                         *)
(* The invariant comes in four parts, each inductive with the first:       *)
(*   ThreadsInv   what a thread holds fits its place, and a thread that is *)
(*                to stop is gone or being joined;                         *)
(*   IInv         the window of the Agent's stream (AgentOutputStreamProofs)*)
(*   LockInv      the shared locks are those of the pushes, the exclusive  *)
(*                one is that of the thread that makes a stream;           *)
(*   UnsentInv    who pushed is about to send.                             *)
(***************************************************************************)
EXTENDS Delivery, AgentOutputStreamProofs, FiniteSetTheorems

Tasks == {Idle, [op |-> "drain"]}
            \cup [op : {"join", "start", "delete"}, reader : Readers, next : {"start", "delete"}]

\* What holds of one reading thread.
ThreadInv(r) ==
    /\ thread[r] \in Threads \cup {Joined}
    /\ blocked[r] # NoRequest => Is(r, "push") /\ thread[r].stream = Builtin
    /\ thread[r].at \in {"find", "create", "created", "push"} =>
          thread[r].sample \in 1 .. MaxFragments
    /\ Is(r, "drain") => thread[r].sample \in 0 .. MaxFragments
    /\ running_cond[r] \/ thread[r] = Joined \/ (task.op = "join" /\ task.reader = r)

ThreadsInv ==
    /\ thread \in [Readers -> Threads \cup {Joined}]
    /\ running_cond \in [Readers -> BOOLEAN]
    /\ streams \subseteq Streams
    /\ asleep \subseteq Writers
    /\ task \in Tasks
    /\ \A r \in Readers : ThreadInv(r)

\* The move of one thread: it is at place now with n messages to push and c
\* counted, and asked for the same as before.
Moved(r, place, n, c) ==
    /\ thread' \in [Readers -> Threads \cup {Joined}]
    /\ thread'[r] \in Threads
    /\ thread'[r].at = place /\ thread'[r].sample = n /\ thread'[r].message_count = c
    /\ thread'[r].stream = thread[r].stream /\ thread'[r].limit = thread[r].limit
    /\ \A q \in Readers \ {r} : thread'[q] = thread[q]

\* A thread that is somewhere has its arguments.
LEMMA Placed ==
    ASSUME ThreadsInv, NEW r \in Readers, thread[r].at # "joined"
    PROVE  /\ thread[r] \in Threads
           /\ thread[r] = [at |-> thread[r].at, stream |-> thread[r].stream,
                           limit |-> thread[r].limit, sample |-> thread[r].sample,
                           message_count |-> thread[r].message_count]
           /\ thread[r].sample \in 0 .. TooLarge
           /\ thread[r].message_count \in 0 .. CountModulus - 1
           /\ thread[r].stream \in Streams /\ thread[r].limit \in Limits
  <1>1. thread[r] \in Threads
    BY DEF ThreadsInv, Joined
  <1>. QED  BY <1>1 DEF Threads

\* What Move says of the other threads and of the types.
LEMMA Moves ==
    ASSUME ThreadsInv, NEW r \in Readers, thread[r].at # "joined",
           NEW place \in Places, NEW n \in 0 .. TooLarge, NEW c \in 0 .. CountModulus - 1,
           Move(r, place, n, c)
    PROVE  Moved(r, place, n, c)
  <1>. DEFINE t == [at |-> place, stream |-> thread[r].stream, limit |-> thread[r].limit,
                    sample |-> n, message_count |-> c]
  <1>1. t \in Threads
    BY Placed DEF Threads
  <1>2. thread \in [Readers -> Threads \cup {Joined}]
    BY DEF ThreadsInv
  <1>3. thread' = [thread EXCEPT ![r] = t]
    BY DEF Move
  <1>. HIDE DEF t
  <1>4. thread' \in [Readers -> Threads \cup {Joined}] /\ thread'[r] = t
    BY <1>1, <1>2, <1>3
  <1>5. \A q \in Readers \ {r} : thread'[q] = thread[q]
    BY <1>2, <1>3
  <1>. QED  BY <1>1, <1>4, <1>5 DEF Moved, t

\* Go keeps the sample and the count.
LEMMA Goes ==
    ASSUME ThreadsInv, NEW r \in Readers, thread[r].at # "joined",
           NEW place \in Places, Go(r, place)
    PROVE  Moved(r, place, thread[r].sample, thread[r].message_count)
  BY Placed, Moves DEF Go

\* A turn ends with no sample, and goes on only below the limit.
LEMMA Turns ==
    ASSUME ThreadsInv, NEW r \in Readers, thread[r].at # "joined",
           NEW c \in 0 .. CountModulus - 1, NextTurn(r, c)
    PROVE  \/ Moved(r, "ended", 0, c)
           \/ ~Done(r, c) /\ Moved(r, "read", 0, c)
  <1>1. 0 \in 0 .. TooLarge /\ "read" \in Places /\ "ended" \in Places
    BY Constants DEF TooLarge, Places
  <1>. QED  BY <1>1, Moves DEF NextTurn

\* What follows a call of write_fn: the next turn, with one sample more
\* counted, or another call for the same sample, or the end.
LEMMA AfterWrites ==
    ASSUME ThreadsInv, NEW r \in Readers, thread[r].at # "joined", AfterWrite(r)
    PROVE  \/ /\ thread[r].sample = 0
              /\ LET c == (thread[r].message_count + 1) % CountModulus
                 IN  /\ c \in 0 .. CountModulus - 1
                     /\ \/ Moved(r, "ended", 0, c)
                        \/ ~Done(r, c) /\ Moved(r, "read", 0, c)
           \/ /\ thread[r].sample # 0
              /\ \E place \in {"find", "ended"} :
                    Moved(r, place, thread[r].sample, thread[r].message_count)
  <1>1. CASE thread[r].sample = 0 /\ NextTurn(r, (thread[r].message_count + 1) % CountModulus)
    <2>1. (thread[r].message_count + 1) % CountModulus \in 0 .. CountModulus - 1
      <3>1. ASSUME NEW a \in Nat, NEW m \in Nat \ {0}  PROVE a % m \in 0 .. m - 1
        OBVIOUS
      <3>2. thread[r].message_count + 1 \in Nat /\ CountModulus \in Nat \ {0}
        <4>1. CountModulus \in Nat \ {0}
          BY DeliveryAssumption
        <4>2. thread[r].message_count \in 0 .. CountModulus - 1
          BY Placed
        <4>. QED  BY <4>1, <4>2
      <3>. QED  BY <3>1, <3>2, Zenon
    <2>. QED  BY <1>1, <2>1, Turns
  <1>2. CASE thread[r].sample # 0 /\ Go(r, IF TryAgain(r) THEN "find" ELSE "ended")
    <2>1. {"find", "ended"} \subseteq Places
      BY DEF Places
    <2>. QED  BY <1>2, <2>1, Goes
  <1>. QED  BY <1>1, <1>2 DEF AfterWrite

----------------------------------------------------------------------------
(* ThreadsInv *)

\* A thread that moves to a place with what belongs there keeps the invariant.
LEMMA MovedKeeps ==
    ASSUME ThreadsInv, NEW r \in Readers, thread[r].at # "joined",
           NEW place \in Places, NEW n \in 0 .. TooLarge, NEW c \in 0 .. CountModulus - 1,
           Moved(r, place, n, c),
           place \in {"find", "create", "created", "push"} => n \in 1 .. MaxFragments,
           place = "drain" => n \in 0 .. MaxFragments,
           blocked'[r] # NoRequest => place = "push" /\ thread[r].stream = Builtin,
           \A q \in Readers \ {r} : blocked'[q] = blocked[q],
           streams' \subseteq Streams, asleep' \subseteq Writers,
           UNCHANGED <<running_cond, task>>
    PROVE  ThreadsInv'
  <1>1. ThreadInv(r)'
    <2>1. running_cond[r] \/ (task.op = "join" /\ task.reader = r)
      BY DEF ThreadsInv, ThreadInv, Joined
    <2>. QED  BY <2>1 DEF Moved, ThreadInv, Is
  <1>2. ASSUME NEW q \in Readers \ {r}  PROVE ThreadInv(q)'
    <2>1. ThreadInv(q) /\ thread'[q] = thread[q] /\ blocked'[q] = blocked[q]
      BY DEF ThreadsInv, Moved
    <2>. QED  BY <2>1 DEF ThreadInv, Is
  <1>. QED  BY <1>1, <1>2 DEF ThreadsInv, Moved

\* So does a step that moves no thread and lets none wait elsewhere.
LEMMA StayedKeeps ==
    ASSUME ThreadsInv, UNCHANGED <<streams, running_cond, thread>>,
           asleep' \subseteq Writers,
           task' \in Tasks, task.op = "join" => task' = task,
           \A q \in Readers : blocked'[q] # NoRequest =>
               blocked[q] # NoRequest \/ (Is(q, "push") /\ thread[q].stream = Builtin)
    PROVE  ThreadsInv'
  <1>1. ASSUME NEW q \in Readers  PROVE ThreadInv(q)'
    <2>1. ThreadInv(q)
      BY DEF ThreadsInv
    <2>. QED  BY <2>1 DEF ThreadInv, Is
  <1>. QED  BY <1>1 DEF ThreadsInv

\* Only threads that use the lock sleep on it.
LEMMA Sleepers ==
    ASSUME asleep \subseteq Writers, NEW t \in Writers,
           \/ SleepShared(t) \/ SleepExclusive(t) \/ LockShared(t) \/ UnlockShared
           \/ UseShared(t) \/ LockExclusive(t) \/ Downgrade(t) \/ UNCHANGED mutexVars
    PROVE  asleep' \subseteq Writers
  BY DEF SleepShared, SleepExclusive, LockShared, UnlockShared, UseShared, LockExclusive,
         Downgrade, mutexVars, Released, WakeOne

\* A step of a reading thread keeps ThreadsInv.
LEMMA ReaderKeepsThreads ==
    ASSUME ThreadsInv, StreamTypeOK, NEW r \in Readers, ReaderNext(r)
    PROVE  ThreadsInv'
  <1>. DEFINE at     == thread[r].at
              sample == thread[r].sample
              count  == thread[r].message_count
  <1>0. /\ r \in Writers /\ asleep \subseteq Writers
        /\ streams \subseteq Streams /\ task \in Tasks
        /\ Places = {"read", "tokens", "find", "create", "created", "push", "drain", "ended"}
        /\ ThreadInv(r)
        /\ blocked \in [Writers -> Requests \cup {NoRequest}]
        /\ \A q \in Readers : q \in Writers
    BY DeliveryAssumption DEF ThreadsInv, Places, StreamTypeOK
  <1>a. /\ 0 \in 0 .. TooLarge /\ 0 \in 0 .. MaxFragments
        /\ \A n \in 1 .. TooLarge : n \in 0 .. TooLarge /\ (HasTokens(n) => n \in 1 .. MaxFragments)
        /\ \A n \in 1 .. MaxFragments : n \in 0 .. MaxFragments
    BY Constants DEF TooLarge, HasTokens
  <1>1. CASE ReadSample(r)
    <2>1. PICK n \in 1 .. TooLarge :
              Move(r, IF HasTokens(n) THEN "find" ELSE "tokens", n, count)
      BY <1>1 DEF ReadSample
    <2>2. at = "read" /\ blocked' = blocked /\ blocked[r] = NoRequest
      BY <1>0, <1>1 DEF ReadSample, Is, ThreadInv, streamVars
    <2>3. CASE HasTokens(n)
      <3>1. n \in 1 .. MaxFragments
        BY <1>a, <2>3
      <3>2. Moved(r, "find", n, count)
        BY <1>0, <2>1, <2>2, <2>3, Placed, Moves, <1>a
      <3>. QED  BY <1>0, <1>1, <2>2, <3>1, <3>2, Placed, MovedKeeps, <1>a
                DEF ReadSample, mutexVars
    <2>4. CASE ~HasTokens(n)
      <3>1. Moved(r, "tokens", n, count)
        BY <1>0, <2>1, <2>2, <2>4, Placed, Moves, <1>a
      <3>. QED  BY <1>0, <1>1, <2>2, <3>1, Placed, MovedKeeps, <1>a
                DEF ReadSample, mutexVars
    <2>. QED  BY <2>3, <2>4
  <1>2. CASE ReadNothing(r)
    <2>1. at = "read" /\ blocked' = blocked /\ blocked[r] = NoRequest
      BY <1>0, <1>2 DEF ReadNothing, Is, ThreadInv, streamVars
    <2>2. \E place \in {"read", "ended"} : Moved(r, place, 0, count)
      BY <1>2, <2>1, Placed, Turns DEF ReadNothing
    <2>. QED  BY <1>0, <1>2, <2>1, <2>2, Placed, MovedKeeps, <1>a
              DEF ReadNothing, mutexVars
  <1>3. CASE Stopped(r)
    <2>1. at \in {"read", "tokens"} /\ blocked' = blocked /\ blocked[r] = NoRequest
      BY <1>0, <1>3 DEF Stopped, Is, ThreadInv, streamVars
    <2>2. Moved(r, "ended", sample, count)
      BY <1>0, <1>3, <2>1, Goes DEF Stopped
    <2>. QED  BY <1>0, <1>3, <2>1, <2>2, Placed, MovedKeeps DEF Stopped, mutexVars
  <1>4. ASSUME AfterWrite(r), at \in {"find", "drain"}, UNCHANGED <<running_cond, task, streams>>,
               asleep' \subseteq Writers, UNCHANGED blocked
        PROVE  ThreadsInv'
    <2>1. blocked[r] = NoRequest
      BY <1>0, <1>4 DEF ThreadInv, Is
    <2>2. \E place \in {"read", "find", "ended"}, c \in 0 .. CountModulus - 1 :
             \E n \in {0, sample} :
                Moved(r, place, n, c) /\ (place = "find" => n = sample /\ sample # 0)
      BY <1>4, Placed, AfterWrites
    <2>3. sample \in 0 .. MaxFragments
      BY <1>0, <1>4 DEF ThreadInv, Is
    <2>4. PICK place \in {"read", "find", "ended"}, c \in 0 .. CountModulus - 1,
               n \in {0, sample} :
              Moved(r, place, n, c) /\ (place = "find" => n = sample /\ sample # 0)
      BY <2>2
    <2>5. place \in Places /\ n \in 0 .. TooLarge
      BY <1>0, <1>4, <1>a, Placed
    <2>6. place = "find" => n \in 1 .. MaxFragments
      BY <2>3, <2>4, Constants
    <2>. QED  BY <1>0, <1>4, <2>1, <2>4, <2>5, <2>6, MovedKeeps
  <1>5. CASE Unrouted(r)
    BY <1>0, <1>4, <1>5 DEF Unrouted, Is, streamVars, mutexVars
  <1>6. ASSUME NEW place \in {"push", "create", "created"},
               at \in {"find", "create", "created"}, Go(r, place),
               UNCHANGED <<streamVars, running_cond, task>>,
               asleep' \subseteq Writers, streams' \subseteq Streams
        PROVE  ThreadsInv'
    <2>1. blocked[r] = NoRequest /\ blocked' = blocked
      BY <1>0, <1>6 DEF ThreadInv, Is, streamVars
    <2>2. Moved(r, place, sample, count)
      BY <1>0, <1>6, Goes
    <2>3. sample \in 1 .. MaxFragments
      BY <1>0, <1>6 DEF ThreadInv, Is
    <2>. QED  BY <1>0, <1>6, <2>1, <2>2, <2>3, Placed, MovedKeeps
  <1>7. ASSUME UNCHANGED <<thread, streams, running_cond, task>>, asleep' \subseteq Writers,
               \A q \in Readers : blocked'[q] # NoRequest =>
                  blocked[q] # NoRequest \/ (Is(q, "push") /\ thread[q].stream = Builtin)
        PROVE  ThreadsInv'
    BY <1>0, <1>7, StayedKeeps
  <1>8. CASE FindStream(r)
    <2>1. asleep' \subseteq Writers
      BY <1>0, <1>8, Sleepers DEF FindStream
    <2>2. at = "find" /\ UNCHANGED <<streamVars, streams, running_cond, task>>
      BY <1>8 DEF FindStream, Is
    <2>3. CASE UNCHANGED thread
      BY <1>7, <2>1, <2>2, <2>3 DEF streamVars
    <2>4. CASE Go(r, "push") \/ Go(r, "create")
      BY <1>0, <1>6, <2>1, <2>2, <2>4
    <2>. QED  BY <1>8, <2>3, <2>4 DEF FindStream
  <1>9. CASE LockStreams(r)
    <2>1. asleep' \subseteq Writers
      BY <1>0, <1>9, Sleepers DEF LockStreams
    <2>. QED  BY <1>0, <1>6, <1>9, <2>1 DEF LockStreams, Is
  <1>10. CASE WaitForStreams(r) \/ WaitToSend(r)
    <2>1. asleep' \subseteq Writers
      BY <1>0, <1>10, Sleepers DEF WaitForStreams, WaitToSend
    <2>. QED  BY <1>7, <1>10, <2>1 DEF WaitForStreams, WaitToSend, streamVars
  <1>11. CASE CreateStream(r)
    <2>1. asleep' \subseteq Writers
      BY <1>0, <1>11, Sleepers DEF CreateStream
    <2>2. streams' \subseteq Streams
      BY <1>0, <1>11, Placed DEF CreateStream, Is
    <2>. QED  BY <1>0, <1>6, <1>11, <2>1, <2>2 DEF CreateStream, Is
  <1>12. ASSUME Pushed(r) \/ NotPushed(r), at = "push", blocked'[r] = NoRequest,
                \A q \in Readers \ {r} : blocked'[q] = blocked[q]
         PROVE  ThreadsInv'
    <2>1. asleep' \subseteq Writers
      BY <1>0, <1>12, Sleepers DEF Pushed, NotPushed
    <2>2. sample \in 1 .. MaxFragments
      BY <1>0, <1>12 DEF ThreadInv
    <2>3. \E n \in {0, sample} : Moved(r, "drain", n, count)
      <3>1. CASE Pushed(r)
        BY <1>0, <1>12, <3>1, Placed, Moves, <1>a DEF Pushed
      <3>2. CASE NotPushed(r)
        BY <1>0, <1>12, <3>2, Goes DEF NotPushed
      <3>. QED  BY <1>12, <3>1, <3>2
    <2>4. UNCHANGED <<streams, running_cond, task>>
      BY <1>12 DEF Pushed, NotPushed
    <2>5. PICK n \in {0, sample} : Moved(r, "drain", n, count)
      BY <2>3
    <2>6. n \in 0 .. MaxFragments /\ n \in 0 .. TooLarge /\ count \in 0 .. CountModulus - 1
      BY <1>a, <1>12, <2>2, Placed
    <2>. QED  BY <1>0, <1>12, <2>1, <2>4, <2>5, <2>6, MovedKeeps
  <1>13. CASE PushBuiltin(r)
    <2>1. blocked'[r] = NoRequest /\ \A q \in Readers \ {r} : blocked'[q] = blocked[q]
      BY <1>0, <1>13 DEF PushBuiltin, PushNow, PushResumes, PushTimesOut
    <2>. QED  BY <1>12, <1>13, <2>1 DEF PushBuiltin, Is
  <1>14. CASE WaitForRoom(r)
    <2>1. \A q \in Readers \ {r} : blocked'[q] = blocked[q]
      BY <1>0, <1>14 DEF WaitForRoom, PushBlocks
    <2>. QED  BY <1>0, <1>7, <1>14, <2>1 DEF WaitForRoom, mutexVars
  <1>15. CASE PushOther(r)
    <2>1. blocked' = blocked /\ blocked[r] = NoRequest
      BY <1>0, <1>15 DEF PushOther, ThreadInv, streamVars
    <2>. QED  BY <1>12, <1>15, <2>1 DEF PushOther, Is
  <1>16. CASE SendNew(r)
    <2>1. asleep' \subseteq Writers
      BY <1>0, <1>16, Sleepers DEF SendNew
    <2>. QED  BY <1>7, <1>16, <2>1 DEF SendNew, SendAgain, GetNextMessage
  <1>17. CASE SentAll(r)
    <2>1. asleep' \subseteq Writers
      BY <1>0, <1>17, Sleepers DEF SentAll
    <2>. QED  BY <1>4, <1>17, <2>1 DEF SentAll, Is, streamVars
  <1>. QED  BY <1>1, <1>2, <1>3, <1>5, <1>8, <1>9, <1>10, <1>11, <1>13, <1>14, <1>15,
               <1>16, <1>17 DEF ReaderNext

\* ... and so does a step of the processing thread.
LEMMA ProcessingKeepsThreads ==
    ASSUME ThreadsInv, StreamTypeOK, ProcessingNext
    PROVE  ThreadsInv'
  <1>0. /\ Processing \in Writers /\ asleep \subseteq Writers
        /\ task \in Tasks
        /\ thread \in [Readers -> Threads \cup {Joined}]
        /\ running_cond \in [Readers -> BOOLEAN]
        /\ blocked \in [Writers -> Requests \cup {NoRequest}]
        /\ \A q \in Readers : q \in Writers /\ q # Processing /\ ThreadInv(q)
    BY DeliveryAssumption DEF ThreadsInv, StreamTypeOK
  <1>1. ASSUME NEW r \in Readers, NEW next \in {"start", "delete"}, StopReading(r, next)
        PROVE  ThreadsInv'
    <2>1. task' \in Tasks
      BY <1>1 DEF StopReading, Tasks
    <2>2. ASSUME NEW q \in Readers  PROVE ThreadInv(q)'
      <3>1. ThreadInv(q) /\ UNCHANGED <<thread, blocked>> /\ task.op # "join"
        BY <1>0, <1>1 DEF StopReading, streamVars, Idle
      <3>2. CASE q = r /\ running_cond[r]
        <4>1. task'.op = "join" /\ task'.reader = r
          BY <1>1, <3>2 DEF StopReading
        <4>. QED  BY <3>1, <3>2, <4>1 DEF ThreadInv, Is
      <3>3. CASE q = r /\ ~running_cond[r]
        BY <3>1, <3>3 DEF ThreadInv, Is
      <3>4. CASE q # r
        <4>1. running_cond'[q] = running_cond[q]
          BY <1>0, <1>1, <3>4 DEF StopReading
        <4>. QED  BY <3>1, <4>1 DEF ThreadInv, Is
      <3>. QED  BY <3>2, <3>3, <3>4
    <2>. QED  BY <1>0, <1>1, <2>1, <2>2 DEF StopReading, ThreadsInv, mutexVars
  <1>2. CASE Join
    <2>1. /\ task \in [op : {"join", "start", "delete"}, reader : Readers,
                       next : {"start", "delete"}]
          /\ task.op = "join"
      BY <1>0, <1>2 DEF Join, Tasks, Idle
    <2>2. task' \in Tasks
      BY <1>2, <2>1 DEF Join, Tasks
    <2>3. /\ thread' \in [Readers -> Threads \cup {Joined}]
          /\ \A q \in Readers : thread'[q] = IF q = task.reader THEN Joined ELSE thread[q]
      BY <1>0, <1>2 DEF Join
    <2>4. ASSUME NEW q \in Readers  PROVE ThreadInv(q)'
      <3>1. ThreadInv(q) /\ UNCHANGED <<running_cond, blocked>>
        BY <1>0, <1>2 DEF Join, streamVars
      <3>2. CASE q = task.reader
        <4>1. blocked[q] = NoRequest
          BY <1>2, <3>1, <3>2 DEF ThreadInv, Join, Is
        <4>. QED  BY <2>3, <3>1, <3>2, <4>1 DEF ThreadInv, Is, Joined
      <3>3. CASE q # task.reader
        BY <2>3, <3>1, <3>3 DEF ThreadInv, Is
      <3>. QED  BY <3>2, <3>3
    <2>. QED  BY <1>0, <1>2, <2>2, <2>3, <2>4 DEF Join, ThreadsInv, mutexVars
  <1>3. ASSUME NEW s \in Streams, NEW limit \in Limits, StartReading(s, limit)
        PROVE  ThreadsInv'
    <2>1. task.reader \in Readers /\ task' = Idle /\ ~running_cond[task.reader]
                                  /\ task.op = "start"
      BY <1>0, <1>3 DEF StartReading, Tasks, Idle
    <2>. DEFINE t == [at |-> "read", stream |-> s, limit |-> limit, sample |-> 0,
                      message_count |-> 0]
    <2>2. t \in Threads
      BY Constants, DeliveryAssumption DEF Threads, Places, TooLarge
    <2>3. /\ thread' \in [Readers -> Threads \cup {Joined}]
          /\ thread'[task.reader] = t
          /\ \A q \in Readers : q # task.reader => thread'[q] = thread[q]
      <3>1. thread' = [thread EXCEPT ![task.reader] = t]
        BY <1>3 DEF StartReading
      <3>. HIDE DEF t
      <3>. QED  BY <1>0, <2>1, <2>2, <3>1
    <2>4. /\ running_cond' \in [Readers -> BOOLEAN] /\ running_cond'[task.reader]
          /\ \A q \in Readers : q # task.reader => running_cond'[q] = running_cond[q]
      BY <1>0, <1>3, <2>1 DEF StartReading
    <2>5. ASSUME NEW q \in Readers  PROVE ThreadInv(q)'
      <3>1. ThreadInv(q) /\ blocked' = blocked
        BY <1>0, <1>3 DEF StartReading, streamVars
      <3>2. CASE q = task.reader
        <4>1. blocked[q] = NoRequest
          BY <2>1, <3>1, <3>2 DEF ThreadInv, Is, Joined
        <4>2. thread'[q] = t
          BY <2>3, <3>2
        <4>. QED  BY <2>2, <2>4, <3>1, <3>2, <4>1, <4>2 DEF ThreadInv, Is
      <3>3. CASE q # task.reader
        BY <2>1, <2>3, <2>4, <3>1, <3>3 DEF ThreadInv, Is
      <3>. QED  BY <3>2, <3>3
    <2>6. Idle \in Tasks
      BY DEF Tasks
    <2>. QED  BY <1>0, <1>3, <2>1, <2>3, <2>4, <2>5, <2>6
              DEF StartReading, ThreadsInv, mutexVars
  <1>4. ASSUME UNCHANGED <<streams, running_cond, thread>>, task.op # "join",
               task' \in {task, Idle, [op |-> "drain"]},
               SleepShared(Processing) \/ UseShared(Processing) \/ UNCHANGED mutexVars,
               \A q \in Readers : blocked'[q] = blocked[q]
        PROVE  ThreadsInv'
    <2>1. task' \in Tasks
      BY <1>0, <1>4 DEF Tasks
    <2>2. asleep' \subseteq Writers
      BY <1>0, <1>4, Sleepers
    <2>. QED  BY <1>4, <2>1, <2>2, StayedKeeps
  <1>5. CASE Deleted
    BY <1>4, <1>5 DEF Deleted, streamVars
  <1>6. ASSUME NEW f \in SeqNums, Acknack(f)  PROVE ThreadsInv'
    BY <1>4, <1>6 DEF Acknack, UpdateFromAcknack, Idle
  <1>7. CASE PushStatus
    BY <1>4, <1>7 DEF PushStatus, PushNow, streamVars, Idle
  <1>8. CASE SendStatus
    BY <1>4, <1>8 DEF SendStatus, GetNextMessage, streamVars
  <1>9. CASE ResetSession
    BY <1>4, <1>9 DEF ResetSession, Reset, Idle
  <1>10. CASE WaitForLock
    BY <1>4, <1>10 DEF WaitForLock, streamVars
  <1>. QED  BY <1>1, <1>2, <1>3, <1>5, <1>6, <1>7, <1>8, <1>9, <1>10 DEF ProcessingNext

\* No step disturbs what the threads hold.
LEMMA ThreadsPreserved == ThreadsInv /\ StreamTypeOK /\ [Next]_vars => ThreadsInv'
  <1>1. CASE UNCHANGED vars
    BY <1>1 DEF vars, streamVars, mutexVars, ThreadsInv, ThreadInv, Is
  <1>. QED  BY <1>1, ReaderKeepsThreads, ProcessingKeepsThreads DEF Next

\* No thread is started yet.
LEMMA ThreadsInit == Init => ThreadsInv
  <1> SUFFICES ASSUME Init  PROVE ThreadsInv
    OBVIOUS
  <1>1. \A r \in Readers : thread[r] = Joined /\ blocked[r] = NoRequest
    BY DeliveryAssumption DEF Init, StreamInit
  <1>2. \A r \in Readers : ThreadInv(r)
    BY <1>1 DEF ThreadInv, Is, Joined
  <1>. QED  BY <1>2, DeliveryAssumption DEF Init, MutexInit, ThreadsInv, Tasks

----------------------------------------------------------------------------
(* The window of the Agent's stream *)

\* Whatever the threads do, the stream makes one of its own steps or none.
LEMMA StreamSteps == ThreadsInv /\ [Next]_vars => [StreamNext]_streamVars
  <1> SUFFICES ASSUME ThreadsInv, [Next]_vars, ~UNCHANGED streamVars
               PROVE  StreamNext
    OBVIOUS
  <1>1. ASSUME NEW r \in Readers, ReaderNext(r)  PROVE StreamNext
    <2>1. r \in Writers /\ r \in Submessages /\ ThreadInv(r)
      BY DeliveryAssumption DEF ThreadsInv
    <2>2. PushBuiltin(r) \/ WaitForRoom(r) \/ SendNew(r)
      BY <1>1 DEF ReaderNext, ReadSample, ReadNothing, Stopped, Unrouted, FindStream,
                  LockStreams, WaitForStreams, CreateStream, PushOther, SentAll, WaitToSend
    <2>3. Is(r, "push") => thread[r].sample \in 1 .. MaxFragments
      BY <2>1 DEF ThreadInv, Is
    <2>. QED  BY <2>1, <2>2, <2>3 DEF StreamNext, PushBuiltin, WaitForRoom, SendNew
  <1>2. CASE ProcessingNext
    <2>1. Processing \in Writers /\ Processing \in Submessages /\ 1 \in 1 .. MaxFragments
      BY DeliveryAssumption, Constants
    <2>2. (\E f \in SeqNums : Acknack(f)) \/ PushStatus \/ SendStatus \/ ResetSession
      BY <1>2 DEF ProcessingNext, StopReading, Join, StartReading, Deleted, WaitForLock
    <2>. QED  BY <2>1, <2>2 DEF StreamNext, Acknack, PushStatus, SendStatus, ResetSession
  <1>. QED  BY <1>1, <1>2 DEF Next, vars

----------------------------------------------------------------------------
(* The lock of the streams *)

Pushing == {r \in Readers : Is(r, "push")}

\* As many shared locks are held as pushes are under way; the exclusive one is
\* held while, and by the thread that, makes a stream, and then nobody pushes.
LockInv ==
    /\ shared_counter = Cardinality(Pushing)
    /\ \A r \in Readers : Is(r, "created") => exclusively_locked /\ exclusive_thread_id = r
    /\ exclusively_locked => Pushing = {}
    /\ exclusively_locked => \E r \in Readers : exclusive_thread_id = r /\ Is(r, "created")

\* The threads that push can be counted.
LEMMA PushingFinite == IsFiniteSet(Pushing) /\ IsFiniteSet(Pushing')
  BY FS_Subset, DeliveryAssumption DEF Pushing

\* A thread comes to the push.
LEMMA OneMorePushes ==
    ASSUME ThreadsInv, NEW r \in Readers, ~Is(r, "push"),
           NEW n, NEW c, Moved(r, "push", n, c)
    PROVE  Cardinality(Pushing') = Cardinality(Pushing) + 1
  <1>1. Pushing' = Pushing \cup {r}
    BY DEF Pushing, Moved, Is
  <1>. QED  BY <1>1, PushingFinite, FS_AddElement DEF Pushing

\* A thread leaves it.
LEMMA OneLessPushes ==
    ASSUME ThreadsInv, NEW r \in Readers, Is(r, "push"),
           NEW n, NEW c, Moved(r, "drain", n, c)
    PROVE  /\ Cardinality(Pushing') = Cardinality(Pushing) - 1
           /\ Pushing # {}
  <1>1. Pushing' = Pushing \ {r} /\ r \in Pushing
    BY DEF Pushing, Moved, Is
  <1>. QED  BY <1>1, PushingFinite, FS_RemoveElement

\* A step that moves no thread to or from the push or the creation, and leaves
\* the lock as it is, keeps LockInv.
LEMMA LockUntouched ==
    ASSUME LockInv, UNCHANGED <<shared_counter, exclusively_locked, exclusive_thread_id>>,
           \A q \in Readers : thread'[q] = thread[q]
                \/ (thread[q].at \notin {"push", "created"}
                    /\ thread'[q].at \notin {"push", "created"})
    PROVE  LockInv'
  <1>1. \A q \in Readers : /\ Is(q, "push")' <=> Is(q, "push")
                          /\ Is(q, "created")' <=> Is(q, "created")
    BY DEF Is
  <1>2. Pushing' = Pushing
    BY <1>1 DEF Pushing, Is
  <1>. QED  BY <1>1, <1>2 DEF LockInv, Is

\* A step of a reading thread keeps LockInv.
LEMMA ReaderKeepsLock ==
    ASSUME ThreadsInv, LockInv, NEW r \in Readers, ReaderNext(r)
    PROVE  LockInv'
  <1>. DEFINE at == thread[r].at
              others == \A q \in Readers \ {r} : thread'[q] = thread[q]
  <1>0. /\ {"push", "create", "created", "drain", "find", "ended"} \subseteq Places
        /\ thread \in [Readers -> Threads \cup {Joined}]
    BY DEF Places, ThreadsInv
  <1>1. ASSUME at \notin {"push", "created", "joined"},
               UNCHANGED <<shared_counter, exclusively_locked, exclusive_thread_id>>,
               \/ UNCHANGED thread
               \/ Go(r, "create") \/ Go(r, "ended") \/ NextTurn(r, thread[r].message_count)
               \/ AfterWrite(r)
        PROVE  LockInv'
    <2>1. CASE UNCHANGED thread
      BY <1>1, <2>1, LockUntouched
    <2>2. CASE ~UNCHANGED thread
      <3>1. \E place \in {"create", "ended", "read", "find"} :
                \E n, c : Moved(r, place, n, c)
        BY <1>0, <1>1, <2>2, Goes, Turns, AfterWrites, Placed
      <3>2. thread'[r].at \notin {"push", "created"} /\ others
        BY <3>1 DEF Moved
      <3>. QED  BY <1>1, <3>2, LockUntouched
    <2>. QED  BY <2>1, <2>2
  <1>2. CASE ReadSample(r)
    <2>1. at = "read" /\ UNCHANGED mutexVars
      BY <1>2 DEF ReadSample, Is
    <2>2. thread'[r].at \notin {"push", "created"} /\ others
      BY <1>0, <1>2 DEF ReadSample, Move
    <2>. QED  BY <2>1, <2>2, LockUntouched DEF mutexVars
  <1>3. CASE ReadNothing(r) \/ Stopped(r)
    BY <1>1, <1>3 DEF ReadNothing, Stopped, Is, mutexVars
  <1>4. CASE Unrouted(r) \/ SentAll(r) \/ SendNew(r) \/ WaitToSend(r)
    BY <1>1, <1>4 DEF Unrouted, SentAll, SendNew, SendAgain, WaitToSend, UseShared,
                      SleepShared, Is, mutexVars
  <1>5. CASE WaitForStreams(r)
    BY <1>5, LockUntouched DEF WaitForStreams, SleepExclusive
  <1>6. CASE WaitForRoom(r)
    BY <1>6, LockUntouched DEF WaitForRoom, mutexVars
  <1>7. CASE FindStream(r)
    <2>1. at = "find"
      BY <1>7 DEF FindStream, Is
    <2>2. CASE UNCHANGED thread /\ SleepShared(r)
      BY <1>1, <2>1, <2>2 DEF SleepShared
    <2>3. CASE LockShared(r) /\ Go(r, "push")
      <3>1. Moved(r, "push", thread[r].sample, thread[r].message_count)
        BY <1>0, <2>1, <2>3, Goes
      <3>2. Cardinality(Pushing') = shared_counter' /\ ~exclusively_locked'
        BY <2>1, <2>3, <3>1, OneMorePushes DEF LockInv, LockShared, CanShare, Is
      <3>3. \A q \in Readers : ~Is(q, "created")'
        BY <2>1, <2>3, <3>1 DEF Moved, Is, LockInv, LockShared, CanShare
      <3>. QED  BY <3>2, <3>3 DEF LockInv
    <2>4. CASE UseShared(r) /\ Go(r, "create")
      BY <1>1, <2>1, <2>4 DEF UseShared
    <2>. QED  BY <1>7, <2>2, <2>3, <2>4 DEF FindStream
  <1>8. CASE LockStreams(r)
    <2>1. at = "create" /\ Go(r, "created") /\ shared_counter = 0 /\ ~exclusively_locked
          /\ shared_counter' = 0 /\ exclusively_locked' /\ exclusive_thread_id' = r
      BY <1>8 DEF LockStreams, LockExclusive, CanExclude, Is, LockInv
    <2>2. Moved(r, "created", thread[r].sample, thread[r].message_count)
      BY <1>0, <2>1, Goes
    <2>3. Pushing = {}
      BY <2>1, PushingFinite, FS_EmptySet DEF LockInv
    <2>4. Pushing' = {}
      BY <2>2, <2>3 DEF Pushing, Moved, Is
    <2>5. Cardinality(Pushing') = 0
      BY <2>4, FS_EmptySet
    <2>6. \A q \in Readers : Is(q, "created")' <=> q = r
      BY <2>1, <2>2 DEF Moved, Is, LockInv
    <2>. QED  BY <2>1, <2>4, <2>5, <2>6 DEF LockInv
  <1>9. CASE CreateStream(r)
    <2>1. at = "created" /\ Go(r, "push") /\ shared_counter' = shared_counter + 1
          /\ exclusively_locked' = FALSE
      BY <1>9 DEF CreateStream, Downgrade, Is
    <2>2. Moved(r, "push", thread[r].sample, thread[r].message_count)
      BY <1>0, <2>1, Goes
    <2>3. Cardinality(Pushing') = shared_counter'
      BY <2>1, <2>2, OneMorePushes DEF LockInv, Is
    <2>4. \A q \in Readers : ~Is(q, "created")'
      BY <2>1, <2>2 DEF Moved, Is, LockInv
    <2>. QED  BY <2>1, <2>3, <2>4 DEF LockInv
  <1>10. CASE PushBuiltin(r) \/ PushOther(r)
    <2>1. at = "push" /\ UnlockShared /\ (Pushed(r) \/ NotPushed(r))
      BY <1>10 DEF PushBuiltin, PushOther, Pushed, NotPushed, Is
    <2>2. \E n, c : Moved(r, "drain", n, c)
      <3>1. CASE Move(r, "drain", 0, thread[r].message_count)
        <4>1. 0 \in 0 .. TooLarge
          BY Constants DEF TooLarge
        <4>. QED  BY <1>0, <2>1, <3>1, <4>1, Placed, Moves
      <3>2. CASE Go(r, "drain")
        BY <1>0, <2>1, <3>2, Goes
      <3>. QED  BY <2>1, <3>1, <3>2 DEF Pushed, NotPushed
    <2>3. Cardinality(Pushing') = shared_counter' /\ Pushing # {}
      BY <2>1, <2>2, OneLessPushes DEF LockInv, UnlockShared, Is
    <2>4. ~exclusively_locked /\ ~exclusively_locked'
      BY <2>1, <2>3 DEF LockInv, UnlockShared
    <2>5. \A q \in Readers : ~Is(q, "created")'
      BY <2>1, <2>2, <2>4 DEF Moved, Is, LockInv
    <2>. QED  BY <2>3, <2>4, <2>5 DEF LockInv
  <1>. QED  BY <1>2, <1>3, <1>4, <1>5, <1>6, <1>7, <1>8, <1>9, <1>10 DEF ReaderNext

\* The processing thread holds the lock within its steps only.
LEMMA LockPreserved == ThreadsInv /\ LockInv /\ [Next]_vars => LockInv'
  <1> SUFFICES ASSUME ThreadsInv, LockInv, [Next]_vars  PROVE LockInv'
    OBVIOUS
  <1>1. CASE ProcessingNext
    <2>1. UNCHANGED <<shared_counter, exclusively_locked, exclusive_thread_id>>
      BY <1>1 DEF ProcessingNext, StopReading, Join, StartReading, Deleted, Acknack,
                  PushStatus, SendStatus, ResetSession, WaitForLock, UseShared, SleepShared,
                  mutexVars
    <2>2. CASE UNCHANGED thread
      BY <2>1, <2>2, LockUntouched
    <2>3. CASE Join
      <3>1. \A q \in Readers : thread'[q] = thread[q]
                \/ (thread[q].at = "ended" /\ thread'[q] = Joined)
        BY <2>3 DEF Join, Is, ThreadsInv
      <3>. QED  BY <2>1, <3>1, LockUntouched DEF Joined
    <2>4. ASSUME NEW s \in Streams, NEW limit \in Limits, StartReading(s, limit)
          PROVE  LockInv'
      <3>1. task.reader \in Readers => ThreadInv(task.reader)
        BY DEF ThreadsInv
      <3>2. \A q \in Readers : thread'[q] = thread[q]
                \/ (thread[q].at = "joined" /\ thread'[q].at = "read")
        BY <2>4, <3>1 DEF StartReading, ThreadsInv, ThreadInv, Joined
      <3>. QED  BY <2>1, <3>2, LockUntouched
    <2>. QED  BY <1>1, <2>2, <2>3, <2>4
              DEF ProcessingNext, StopReading, Deleted, Acknack, PushStatus, SendStatus,
                  ResetSession, WaitForLock
  <1>2. CASE UNCHANGED vars
    BY <1>2, LockUntouched DEF vars, mutexVars
  <1>. QED  BY <1>1, <1>2, ReaderKeepsLock DEF Next

----------------------------------------------------------------------------
(* What is new is about to be sent *)

UnsentInv ==
    HasNext => \/ task.op = "drain"
               \/ \E r \in Readers : Is(r, "drain") /\ thread[r].stream = Builtin

\* A step that numbers nothing and lets no thread leave the loop that sends.
LEMMA UnsentUntouched ==
    ASSUME UnsentInv, UNCHANGED <<last_sent, last_unacked>>,
           task.op = "drain" => task'.op = "drain",
           \A q \in Readers : Is(q, "drain") /\ thread[q].stream = Builtin =>
                thread'[q].at = "drain" /\ thread'[q].stream = Builtin
    PROVE  UnsentInv'
  BY DEF UnsentInv, HasNext, Is

\* A step of a reading thread keeps UnsentInv.
LEMMA ReaderKeepsUnsent ==
    ASSUME ThreadsInv, UnsentInv, NEW r \in Readers, ReaderNext(r)
    PROVE  UnsentInv'
  <1>. DEFINE at == thread[r].at
              others == \A q \in Readers \ {r} : thread'[q] = thread[q]
  <1>0. /\ {"push", "create", "created", "drain", "find", "ended"} \subseteq Places
        /\ thread \in [Readers -> Threads \cup {Joined}]
    BY DEF Places, ThreadsInv
  <1>1. ASSUME at # "drain", at # "joined", UNCHANGED <<streamVars, task>>,
               \/ UNCHANGED thread
               \/ \E place \in Places : Go(r, place)
               \/ NextTurn(r, thread[r].message_count) \/ AfterWrite(r)
        PROVE  UnsentInv'
    <2>1. CASE UNCHANGED thread
      BY <1>1, <2>1, UnsentUntouched DEF streamVars, Is
    <2>2. CASE ~UNCHANGED thread
      <3>1. \E place, n, c : Moved(r, place, n, c)
        BY <1>1, <2>2, Goes, Turns, AfterWrites, Placed
      <3>2. others
        BY <3>1 DEF Moved
      <3>. QED  BY <1>1, <3>2, UnsentUntouched DEF streamVars, Is
    <2>. QED  BY <2>1, <2>2
  <1>2. CASE ReadSample(r)
    <2>1. at = "read" /\ UNCHANGED <<streamVars, task>> /\ others
      BY <1>0, <1>2 DEF ReadSample, Is, Move
    <2>. QED  BY <2>1, UnsentUntouched DEF streamVars, Is
  <1>3. CASE ReadNothing(r) \/ Stopped(r) \/ Unrouted(r) \/ LockStreams(r) \/ CreateStream(r)
             \/ FindStream(r)
    BY <1>0, <1>1, <1>3 DEF ReadNothing, Stopped, Unrouted, LockStreams, CreateStream,
                            FindStream, Is
  <1>4. CASE WaitForStreams(r) \/ WaitForRoom(r) \/ WaitToSend(r)
    BY <1>4, UnsentUntouched DEF WaitForStreams, WaitForRoom, WaitToSend, PushBlocks,
                                 streamVars, Is
  <1>5. CASE PushBuiltin(r) \/ PushOther(r)
    <2>1. at = "push" /\ task' = task /\ (Pushed(r) \/ NotPushed(r))
      BY <1>5 DEF PushBuiltin, PushOther, Pushed, NotPushed, Is
    <2>2. \E n, c : Moved(r, "drain", n, c)
      <3>1. CASE Move(r, "drain", 0, thread[r].message_count)
        <4>1. 0 \in 0 .. TooLarge
          BY Constants DEF TooLarge
        <4>. QED  BY <1>0, <2>1, <3>1, <4>1, Placed, Moves
      <3>2. CASE Go(r, "drain")
        BY <1>0, <2>1, <3>2, Goes
      <3>. QED  BY <2>1, <3>1, <3>2 DEF Pushed, NotPushed
    <2>3. CASE thread[r].stream = Builtin
      BY <2>2, <2>3 DEF UnsentInv, Moved, Is
    <2>4. CASE thread[r].stream # Builtin
      <3>1. UNCHANGED <<last_sent, last_unacked>>
        BY <1>5, <2>4 DEF PushBuiltin, PushOther, streamVars
      <3>. QED  BY <2>1, <2>2, <3>1, UnsentUntouched DEF Moved, Is
    <2>. QED  BY <2>3, <2>4
  <1>6. CASE SendNew(r)
    BY <1>6 DEF SendNew, SendAgain, UnsentInv, Is
  <1>7. CASE SentAll(r)
    <2>1. at = "drain" /\ UNCHANGED <<streamVars, task>>
      BY <1>7 DEF SentAll, Is
    <2>2. others
      <3>1. \E place, n, c : Moved(r, place, n, c)
        BY <1>7, <2>1, AfterWrites DEF SentAll
      <3>. QED  BY <3>1 DEF Moved
    <2>3. CASE thread[r].stream = Builtin
      <3>1. ~HasNext
        BY <1>7, <2>3 DEF SentAll
      <3>. QED  BY <2>1, <3>1 DEF UnsentInv, HasNext, streamVars
    <2>4. CASE thread[r].stream # Builtin
      BY <2>1, <2>2, <2>4, UnsentUntouched DEF streamVars, Is
    <2>. QED  BY <2>3, <2>4
  <1>. QED  BY <1>2, <1>3, <1>4, <1>5, <1>6, <1>7 DEF ReaderNext

\* The processing thread sends the statuses it pushes, and a session that is
\* reset has nothing to send.
LEMMA UnsentPreserved == ThreadsInv /\ UnsentInv /\ [Next]_vars => UnsentInv'
  <1> SUFFICES ASSUME ThreadsInv, UnsentInv, [Next]_vars  PROVE UnsentInv'
    OBVIOUS
  <1>1. CASE ProcessingNext
    <2>1. CASE PushStatus \/ SendStatus
      BY <2>1 DEF PushStatus, SendStatus, UnsentInv, HasNext, streamVars
    <2>2. CASE ResetSession
      <3>1. ~SeqLt(MaxSeq, MaxSeq)
        BY Constants DEF SeqLt, SeqSub, MaxSeq, Modulus
      <3>. QED  BY <2>2, <3>1 DEF ResetSession, Reset, UnsentInv, HasNext
    <2>3. ASSUME NEW s \in Streams, NEW limit \in Limits, StartReading(s, limit)
          PROVE  UnsentInv'
      <3>1. task.reader \in Readers => ThreadInv(task.reader)
        BY DEF ThreadsInv
      <3>2. \A q \in Readers : thread'[q] = thread[q] \/ thread[q].at = "joined"
        BY <2>3, <3>1 DEF StartReading, ThreadsInv, ThreadInv, Joined
      <3>. QED  BY <2>3, <3>2, UnsentUntouched DEF StartReading, streamVars, Is
    <2>4. CASE Join
      <3>1. \A q \in Readers : thread'[q] = thread[q] \/ thread[q].at = "ended"
        BY <2>4 DEF Join, Is, ThreadsInv
      <3>. QED  BY <2>4, <3>1, UnsentUntouched DEF Join, streamVars, Is
    <2>5. ASSUME UNCHANGED <<last_sent, last_unacked, thread>>,
                 task.op = "drain" => task'.op = "drain"
          PROVE  UnsentInv'
      BY <2>5, UnsentUntouched DEF Is
    <2>6. CASE Deleted \/ WaitForLock \/ \E f \in SeqNums : Acknack(f)
      BY <2>5, <2>6 DEF Deleted, WaitForLock, Acknack, UpdateFromAcknack, streamVars
    <2>7. ASSUME NEW r \in Readers, NEW next \in {"start", "delete"}, StopReading(r, next)
          PROVE  UnsentInv'
      BY <2>5, <2>7 DEF StopReading, streamVars, Idle
    <2>. QED  BY <1>1, <2>1, <2>2, <2>3, <2>4, <2>6, <2>7 DEF ProcessingNext
  <1>2. CASE UNCHANGED vars
    BY <1>2, UnsentUntouched DEF vars, streamVars, Is
  <1>. QED  BY <1>1, <1>2, ReaderKeepsUnsent DEF Next

----------------------------------------------------------------------------
(* What is counted *)

\* Below its limit a thread goes on; at its limit it has ended.
CountInv ==
    \A r \in Readers : thread[r].at # "joined" /\ thread[r].limit # Unlimited =>
        \/ thread[r].message_count < thread[r].limit
        \/ Is(r, "ended") /\ thread[r].message_count = thread[r].limit

\* A move that counts nothing, of a thread that has not ended.
LEMMA CountUntouched ==
    ASSUME ThreadsInv, CountInv, NEW r \in Readers, thread[r].at \notin {"joined", "ended"},
           NEW place, NEW n, Moved(r, place, n, thread[r].message_count)
    PROVE  CountInv'
  <1>1. ASSUME NEW q \in Readers, thread'[q].at # "joined", thread'[q].limit # Unlimited
        PROVE  \/ thread'[q].message_count < thread'[q].limit
               \/ thread'[q].at = "ended" /\ thread'[q].message_count = thread'[q].limit
    <2>1. CASE q = r
      BY <1>1, <2>1 DEF CountInv, Moved, Is
    <2>2. CASE q # r
      BY <1>1, <2>2 DEF CountInv, Moved, Is
    <2>. QED  BY <2>1, <2>2
  <1>. QED  BY <1>1 DEF CountInv, Is

\* One sample more is counted.
LEMMA CountOneMore ==
    ASSUME ThreadsInv, CountInv, NEW r \in Readers, thread[r].at \notin {"joined", "ended"},
           NEW c, c = (thread[r].message_count + 1) % CountModulus,
           Moved(r, "ended", 0, c) \/ (~Done(r, c) /\ Moved(r, "read", 0, c))
    PROVE  CountInv'
  <1>1. \A q \in Readers \ {r} : thread'[q] = thread[q]
    BY DEF Moved
  <1>2. ASSUME thread[r].limit # Unlimited
        PROVE  \/ thread'[r].message_count < thread'[r].limit
               \/ thread'[r].at = "ended" /\ thread'[r].message_count = thread'[r].limit
    <2>1. thread[r].limit \in 0 .. CountModulus - 1 /\ CountModulus \in Nat \ {0}
          /\ thread[r].message_count \in 0 .. CountModulus - 1
      <3>1. thread[r].limit \in Limits /\ thread[r].message_count \in 0 .. CountModulus - 1
        BY Placed
      <3>. QED  BY <1>2, <3>1, DeliveryAssumption
    <2>2. thread[r].message_count < thread[r].limit
      BY <1>2 DEF CountInv, Is
    <2>3. \A a, m \in Nat : a < m => a % m = a
      OBVIOUS
    <2>4. thread[r].message_count + 1 \in Nat /\ CountModulus \in Nat
          /\ thread[r].message_count + 1 < CountModulus
      BY <2>1, <2>2
    <2>5. c = thread[r].message_count + 1
      BY <2>3, <2>4, Zenon
    <2>. QED  BY <1>2, <2>1, <2>2, <2>5 DEF Moved, Done
  <1>. QED  BY <1>1, <1>2 DEF CountInv, Moved, Is

\* A reading thread counts a sample it pushed, and ends at its limit.
LEMMA ReaderKeepsCount ==
    ASSUME ThreadsInv, CountInv, NEW r \in Readers, ReaderNext(r)
    PROVE  CountInv'
  <1>. DEFINE count == thread[r].message_count
  <1>0. /\ Places = {"read", "tokens", "find", "create", "created", "push", "drain", "ended"}
        /\ 0 \in 0 .. TooLarge
        /\ \A n \in 1 .. TooLarge : n \in 0 .. TooLarge
    BY Constants DEF Places, TooLarge
  <1>1. ASSUME NEW place \in Places, NEW n \in 0 .. TooLarge, Move(r, place, n, count),
               thread[r].at \notin {"joined", "ended"}
        PROVE  CountInv'
    BY <1>1, Placed, Moves, CountUntouched
  <1>2. ASSUME NEW place \in Places, Go(r, place), thread[r].at \notin {"joined", "ended"}
        PROVE  CountInv'
    BY <1>2, Goes, CountUntouched
  <1>3. ASSUME AfterWrite(r), thread[r].at \notin {"joined", "ended"}
        PROVE  CountInv'
    BY <1>3, AfterWrites, CountOneMore, CountUntouched
  <1>4. ASSUME UNCHANGED thread  PROVE CountInv'
    BY <1>4 DEF CountInv, Is
  <1>5. CASE ReadSample(r)
    <2>1. PICK n \in 1 .. TooLarge :
              Move(r, IF HasTokens(n) THEN "find" ELSE "tokens", n, count)
      BY <1>5 DEF ReadSample
    <2>2. (IF HasTokens(n) THEN "find" ELSE "tokens") \in Places /\ thread[r].at = "read"
      BY <1>0, <1>5 DEF ReadSample, Is
    <2>. QED  BY <1>0, <1>1, <2>1, <2>2
  <1>6. CASE ReadNothing(r)
    <2>1. thread[r].at = "read"
      BY <1>6 DEF ReadNothing, Is
    <2>2. \E place : Moved(r, place, 0, count)
      BY <1>6, <2>1, Turns, Placed DEF ReadNothing
    <2>. QED  BY <2>1, <2>2, CountUntouched
  <1>7. CASE Unrouted(r) \/ SentAll(r)
    BY <1>3, <1>7 DEF Unrouted, SentAll, Is
  <1>8. CASE Stopped(r) \/ LockStreams(r) \/ CreateStream(r)
    BY <1>0, <1>2, <1>8 DEF Stopped, LockStreams, CreateStream, Is
  <1>9. CASE FindStream(r)
    BY <1>0, <1>2, <1>4, <1>9 DEF FindStream, Is
  <1>10. CASE PushBuiltin(r) \/ PushOther(r)
    <2>1. thread[r].at = "push"
      BY <1>10 DEF PushBuiltin, PushOther, Is
    <2>2. CASE Pushed(r)
      BY <1>0, <1>1, <2>1, <2>2 DEF Pushed
    <2>3. CASE NotPushed(r)
      BY <1>0, <1>2, <2>1, <2>3 DEF NotPushed
    <2>. QED  BY <1>10, <2>2, <2>3 DEF PushBuiltin, PushOther
  <1>11. CASE WaitForStreams(r) \/ WaitForRoom(r) \/ WaitToSend(r) \/ SendNew(r)
    BY <1>4, <1>11 DEF WaitForStreams, WaitForRoom, WaitToSend, SendNew, SendAgain
  <1>. QED  BY <1>5, <1>6, <1>7, <1>8, <1>9, <1>10, <1>11 DEF ReaderNext

\* A thread is started below its limit, if that is not 0.
LEMMA CountPreserved ==
    ASSUME 0 \notin Limits
    PROVE  ThreadsInv /\ CountInv /\ [Next]_vars => CountInv'
  <1> SUFFICES ASSUME ThreadsInv, CountInv, [Next]_vars  PROVE CountInv'
    OBVIOUS
  <1>1. CASE UNCHANGED thread
    BY <1>1 DEF CountInv, Is
  <1>2. CASE Join
    <2>1. \A q \in Readers : thread'[q] = thread[q] \/ thread'[q].at = "joined"
      BY <1>2 DEF Join, ThreadsInv, Joined
    <2>. QED  BY <2>1 DEF CountInv, Is
  <1>3. ASSUME NEW s \in Streams, NEW limit \in Limits, StartReading(s, limit)
        PROVE  CountInv'
    <2>1. \A q \in Readers :
             \/ thread'[q] = thread[q]
             \/ thread'[q].limit = limit /\ thread'[q].message_count = 0
      BY <1>3 DEF StartReading, ThreadsInv
    <2>2. limit # Unlimited => 0 < limit
      BY DeliveryAssumption
    <2>. QED  BY <2>1, <2>2 DEF CountInv, Is
  <1>. QED  BY <1>1, <1>2, <1>3, ReaderKeepsCount
            DEF Next, vars, ProcessingNext, StopReading, Deleted, Acknack, PushStatus,
                SendStatus, ResetSession, WaitForLock

----------------------------------------------------------------------------
(* The theorems *)

DeliveryInv == ThreadsInv /\ IInv /\ LockInv /\ UnsentInv

\* The four parts hold together in every reachable state.
LEMMA DeliveryInvariant == Spec => []DeliveryInv
  <1>1. Init => DeliveryInv
    <2> SUFFICES ASSUME Init  PROVE DeliveryInv
      OBVIOUS
    <2>1. \A r \in Readers : thread[r].at = "joined"
      BY DEF Init, Joined
    <2>2. Cardinality(Pushing) = 0
      BY <2>1, FS_EmptySet DEF Pushing, Is
    <2>3. LockInv
      BY <2>1, <2>2 DEF Init, MutexInit, LockInv, Is
    <2>4. ~SeqLt(MaxSeq, MaxSeq)
      BY Constants DEF SeqLt, SeqSub, MaxSeq, Modulus
    <2>5. UnsentInv
      BY <2>4 DEF Init, StreamInit, UnsentInv, HasNext
    <2>. QED  BY <2>3, <2>5, ThreadsInit, InitHolds DEF Init, DeliveryInv
  <1>2. DeliveryInv /\ [Next]_vars => DeliveryInv'
    <2>1. IInv => StreamTypeOK
      BY DEF IInv
    <2>. QED  BY <2>1, ThreadsPreserved, StreamSteps, StepPreserves, LockPreserved,
                 UnsentPreserved DEF DeliveryInv
  <1>. QED  BY <1>1, <1>2, PTL DEF Spec

\* TypeOK: a push waits in the stream only for the thread that is at it, with a
\* sample the stream can take.
THEOREM TypeCorrect == Spec => []TypeOK
  <1>1. DeliveryInv => TypeOK
    BY DEF DeliveryInv, IInv, ThreadsInv, ThreadInv, TypeOK, Is
  <1>. QED  BY <1>1, DeliveryInvariant, PTL

\* WindowSound: with all the threads of a session on it and the session reset
\* under them, the stream can send again whatever a heartbeat announces,
\* messages_.at never throws in a thread that sends what another one pushed,
\* acknowledged or threw away, and only fragments of one push exceed the window.
THEOREM WindowAlwaysSound == Spec => []WindowSound
  <1>1. DeliveryInv => WindowSound
    BY DEF DeliveryInv, IInv, WindowSound
  <1>. QED  BY <1>1, DeliveryInvariant, PTL

\* FragmentsAdjacent: the fragments of a sample stay together, however many
\* threads push.
THEOREM FragmentsTogether == Spec => []FragmentsAdjacent
  <1>1. Init => FragmentsAdjacent
    BY DEF Init, StreamInit, FragmentsAdjacent
  <1>2. DeliveryInv /\ FragmentsAdjacent /\ [Next]_vars => FragmentsAdjacent'
    BY StreamSteps, StepKeepsAdjacent DEF DeliveryInv
  <1>. QED  BY <1>1, <1>2, DeliveryInvariant, PTL DEF Spec

\* OneChangesStreams: nobody is in the map of the streams while one thread
\* makes a stream, with any number of threads at the lock.
THEOREM StreamsChangedAlone == Spec => []OneChangesStreams
  <1>1. DeliveryInv => OneChangesStreams
    BY DEF DeliveryInv, LockInv, OneChangesStreams, Pushing, Is
  <1>. QED  BY <1>1, DeliveryInvariant, PTL

\* NothingLeftUnsent: no interleaving leaves a message that is numbered and
\* that no thread is about to send.
THEOREM AllIsSent == Spec => []NothingLeftUnsent
  <1>1. DeliveryInv => NothingLeftUnsent
    BY DEF DeliveryInv, UnsentInv, NothingLeftUnsent
  <1>. QED  BY <1>1, DeliveryInvariant, PTL

\* JoinedBeforeStart: the std::thread of a reader is never assigned to while it
\* stands for a thread.
THEOREM ThreadsAreJoined == Spec => []JoinedBeforeStart
  <1>1. DeliveryInv => JoinedBeforeStart
    <2> SUFFICES ASSUME DeliveryInv, task.op = "start", ~running_cond[task.reader]
                 PROVE  Is(task.reader, "joined")
      BY DEF JoinedBeforeStart
    <2>1. task.reader \in Readers
      BY DEF DeliveryInv, ThreadsInv, Tasks, Idle
    <2>. QED  BY <2>1 DEF DeliveryInv, ThreadsInv, ThreadInv, Is, Joined
  <1>. QED  BY <1>1, DeliveryInvariant, PTL

\* AtMostAsked: a Client never gets more samples than it asked for, provided it
\* asked for at least one.
THEOREM AskedIsEnough ==
    ASSUME 0 \notin Limits
    PROVE  Spec => []AtMostAsked
  <1>1. Init => CountInv
    BY DEF Init, CountInv, Joined
  <1>2. DeliveryInv /\ CountInv /\ [Next]_vars => CountInv'
    BY CountPreserved DEF DeliveryInv
  <1>3. DeliveryInv /\ CountInv => AtMostAsked
    <2> SUFFICES ASSUME DeliveryInv, CountInv,
                        NEW r \in Readers, thread[r] # Joined, thread[r].limit # Unlimited
                 PROVE  thread[r].message_count <= thread[r].limit
      BY DEF AtMostAsked
    <2>1. ThreadsInv /\ thread[r] \in Threads
      BY DEF DeliveryInv, ThreadsInv
    <2>2. thread[r].at # "joined"
      BY <2>1 DEF Threads, Places
    <2>3. thread[r].message_count \in Int /\ thread[r].limit \in Int
      <3>1. thread[r].limit \in Limits /\ thread[r].message_count \in 0 .. CountModulus - 1
        BY <2>1, <2>2, Placed
      <3>2. thread[r].limit \in 0 .. CountModulus - 1
        BY <3>1, DeliveryAssumption
      <3>. QED  BY <3>1, <3>2, DeliveryAssumption
    <2>. QED  BY <2>2, <2>3 DEF CountInv
  <1>. QED  BY <1>1, <1>2, <1>3, DeliveryInvariant, PTL DEF Spec
=============================================================================
