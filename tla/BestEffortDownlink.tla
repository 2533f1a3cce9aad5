-------------------------- MODULE BestEffortDownlink --------------------------
(***************************************************************************)
(* One best-effort stream from the Agent to the Client.                    *)
(*                                                                         *)
(* BestEffortOutputStream (stream/OutputStream.hpp) is a bounded queue of  *)
(* numbered messages.  Each reading thread pushes a sample and then sends  *)
(* all it can pop, whoever pushed it (Processor::read_data_callback); a    *)
(* pop and the push to the transport are two steps, between which another  *)
(* thread may overtake.  The Client's input stream                         *)
(* (input_best_effort_stream.c) takes what is newer than all it took.      *)
(*                                                                         *)
(* id counts the messages of a session from 1: it is what the 16-bit       *)
(* sequence number stands for.                                             *)
(***************************************************************************)
EXTENDS SeqNum, Sequences, Datagrams

CONSTANTS
    Depth,      \* BEST_EFFORT_STREAM_DEPTH
    Writers,    \* the reading threads
    MaxPushes,  \* messages of one session (a bound of the model)
    InFlight,   \* packets on their way (a bound of the model)
    Drained     \* sessions are created anew only when nothing is on its way

ASSUME DownlinkAssumption ==
    /\ Depth \in Nat \ {0}
    /\ MaxPushes \in Nat
    /\ InFlight \in Nat
    /\ Drained \in BOOLEAN
    /\ Half > 1

VARIABLES
    queue,          \* messages_
    last_sent,      \* last_sent_: the number of the newest message
    thread,         \* of each reading thread, the callback
    network,        \* messages sent
    last_handled,   \* of the Client
    creating,       \* the Client waits for its session to be created anew
    sent,           \* id of the newest message pushed
    received        \* id of the newest message the application got

agentVars  == <<queue, last_sent, thread, sent>>
clientVars == <<last_handled, received>>

vars == <<agentVars, network, clientVars, creating>>

Messages == [seq : SeqNums, id : 1 .. MaxPushes]

\* What a thread does: nothing, the loop, or a message in its hands.
Idle    == [op |-> "idle"]
Sending == [op |-> "sending"]
Holding(m) == [op |-> "holding", msg |-> m]

Init ==
    /\ queue = <<>>
    /\ last_sent = MaxSeq
    /\ thread = [t \in Writers |-> Idle]
    /\ network = {}
    /\ last_handled = MaxSeq
    /\ creating = FALSE
    /\ sent = 0
    /\ received = 0

InHands == {thread[t].msg : t \in {u \in Writers : thread[u].op = "holding"}}

\* All messages that have yet to reach the Client, or may reach it again.
Under == network \cup InHands \cup {queue[i] : i \in DOMAIN queue}

----------------------------------------------------------------------------
(* The Agent *)

\* What 16 bits can tell apart: no line stays dead, no thread stopped and no
\* packet on its way while half a turn of the numbers is pushed.  (A Client
\* that misses Half messages in a row takes none of the next Half.)
InTime ==
    /\ sent + 1 - received < Half
    /\ \A m \in InHands : sent + 1 - m.id <= Half

\* push_submessage.  A queue that is full refuses the sample; one that is too
\* large for the MTU counts as pushed (it returns true) and is dropped.
Push(t) ==
    /\ thread[t] = Idle
    /\ ~(Drained /\ creating)
    /\ thread' = [thread EXCEPT ![t] = Sending]
    /\ \/ /\ Len(queue) < Depth
          /\ sent < MaxPushes /\ InTime
          /\ queue' = Append(queue, [seq |-> SeqAdd(last_sent, 1), id |-> sent + 1])
          /\ last_sent' = Wrap(last_sent + 1)
          /\ sent' = sent + 1
       \/ UNCHANGED <<queue, last_sent, sent>>
    /\ UNCHANGED <<network, clientVars, creating>>

\* get_next_output_message
Pop(t) ==
    /\ thread[t] = Sending
    /\ IF queue = <<>>
       THEN thread' = [thread EXCEPT ![t] = Idle] /\ UNCHANGED queue
       ELSE thread' = [thread EXCEPT ![t] = Holding(Head(queue))] /\ queue' = Tail(queue)
    /\ UNCHANGED <<last_sent, sent, network, clientVars, creating>>

\* push_output_packet; the queue of the sender and the network follow.
Send(t) ==
    /\ thread[t].op = "holding"
    /\ network' \in Fates(network, {thread[t].msg}, InFlight)
    /\ thread' = [thread EXCEPT ![t] = Sending]
    /\ UNCHANGED <<queue, last_sent, sent, clientVars, creating>>

\* Mistake: reset empties the queue and forgets the number.
BugFirst == last_sent

First == MaxSeq

\* BestEffortOutputStream::reset, in the processing thread, when the
\* CREATE_CLIENT of a session that is there arrives (for the last time).
ResetSession ==
    /\ creating
    /\ queue' = <<>>
    /\ last_sent' = First
    /\ sent' = 0
    /\ creating' = FALSE
    /\ UNCHANGED <<thread, network, clientVars>>

----------------------------------------------------------------------------
(* The Client *)

\* Mistake: numbers are compared as integers.
BugNewerPlain(seq) == last_handled < seq \/ last_handled = MaxSeq

Newer(seq) == ClientCmp(last_handled, seq) < 0

\* uxr_receive_best_effort_message.  What is older than half a turn is gone.
Receive(p) ==
    /\ p \in network
    /\ Newer(p.seq)
    /\ last_handled' = p.seq
    /\ received' = p.id
    /\ network' = {q \in network : p.id - q.id <= Half}
    /\ UNCHANGED <<agentVars, creating>>

\* A message that is not newer is dropped; here it is the last copy of it.
Drop(p) ==
    /\ p \in network
    /\ ~Newer(p.seq)
    /\ network' = network \ {p}
    /\ UNCHANGED <<agentVars, clientVars, creating>>

\* uxr_create_session_retries resets the streams, and then asks.
CreateSession ==
    /\ ~creating
    /\ Drained => network = {} /\ \A t \in Writers : thread[t] = Idle
    /\ last_handled' = MaxSeq
    /\ received' = 0
    /\ creating' = TRUE
    /\ UNCHANGED <<agentVars, network>>

Next ==
    \/ \E t \in Writers : Push(t) \/ Pop(t) \/ Send(t)
    \/ \E p \in network : Receive(p) \/ Drop(p)
    \/ CreateSession
    \/ ResetSession

Spec == Init /\ [][Next]_vars

----------------------------------------------------------------------------
(* Properties *)

\* Queue, threads and both counters keep their types and bounds.
TypeOK ==
    /\ queue \in Seq(Messages) /\ Len(queue) <= Depth
    /\ last_sent \in SeqNums /\ last_handled \in SeqNums
    /\ thread \in [Writers -> {Idle, Sending} \cup {Holding(m) : m \in Messages}]
    /\ network \subseteq Messages
    /\ creating \in BOOLEAN
    /\ sent \in 0 .. MaxPushes /\ received \in 0 .. MaxPushes

\* The Client's comparison of 16-bit numbers is right about every message that
\* may reach it, also after the numbers wrapped round, after losses, and when
\* threads overtook each other: it takes what is newer than all it took and
\* drops what is not (uxr_receive_best_effort_message).
FilterIsRight == \A m \in Under : Newer(m.seq) <=> m.id > received

Channel == INSTANCE LossyChannel

\* The application gets what was pushed in order: within a session the stream
\* implements the lossy channel.  (A message taken twice would pass for a
\* stutter here; FilterIsRight forbids it.)
ImplementsChannel ==
    Channel!Init /\ [][CreateSession \/ ResetSession \/ Channel!Next]_(Channel!vars)
=============================================================================
