------------------------------- MODULE Server -------------------------------
(***************************************************************************)
(* The Agent's Server (transport/Server.cpp): five threads around two      *)
(* queues, an error handler that waits on a condition variable, and the    *)
(* thread of the application that starts and stops it all.  A step of a    *)
(* thread is what it does between two points where others can come in:     *)
(* locks, queues, the transport and reads of running_cond.                 *)
(*                                                                         *)
(* Packets are numbered in the order in which they enter a queue.          *)
(***************************************************************************)
EXTENDS Naturals, Sequences

CONSTANTS
    QueueMax,       \* SERVER_QUEUE_MAX_SIZE
    Packets,        \* bound of the model: packets to each queue
    Starts          \* bound of the model: calls of start

ASSUME BoundsAssumption == QueueMax \in Nat \ {0} /\ Packets \in Nat /\ Starts \in Nat

VARIABLES
    running,            \* running_cond_
    input, input_on,    \* input_scheduler_: deque and running_cond
    output, output_on,  \* output_scheduler_
    transport_rc,       \* "ok" or "server_error"
    error_mtx,          \* the thread that holds it, or "free"
    notified,           \* error_cv_ was notified since the handler waits
    open,               \* the transport is open
    pc,                 \* where each thread is
    sending,            \* the packet the sender took out, 0 when it has none
    sent,               \* the last packet that was sent
    arrived, produced,  \* numbers of the last packets that entered the queues
    starts

serverVars == <<running, input, input_on, output, output_on, transport_rc, error_mtx,
                notified, open, pc, sending, sent, arrived, produced, starts>>

Input == INSTANCE FCFSScheduler WITH
    deque <- input, running_cond <- input_on, max_size <- QueueMax

Output == INSTANCE FCFSScheduler WITH
    deque <- output, running_cond <- output_on, max_size <- QueueMax

Workers == {"receiver", "sender", "processing", "heartbeat"}
Threads == Workers \cup {"handler"}

\* Where a thread can be.  "done": its function returned (or never began).
Places ==
    [main       |-> {"idle", "stop", "deinit input", "deinit output", "notify", "join"},
     receiver   |-> {"done", "loop", "recv", "report"},
     sender     |-> {"done", "loop", "pop", "send", "report"},
     processing |-> {"done", "loop", "pop", "process"},
     heartbeat  |-> {"done", "loop", "sleep"},
     handler    |-> {"done", "loop", "lock", "check", "wait", "sleep", "handle", "retry"}]

ServerInit ==
    /\ running = FALSE
    /\ Input!Created
    /\ Output!Created
    /\ transport_rc = "ok"
    /\ error_mtx = "free"
    /\ notified = FALSE
    /\ open = FALSE
    /\ pc = [t \in Threads \cup {"main"} |-> IF t = "main" THEN "idle" ELSE "done"]
    /\ sending = 0
    /\ sent = 0
    /\ arrived = 0
    /\ produced = 0
    /\ starts = 0

Goto(t, from, to) == pc[t] = from /\ pc' = [pc EXCEPT ![t] = to]

inputVars  == <<input, input_on, arrived>>
outputVars == <<output, output_on, produced>>
sendVars   == <<sending, sent>>
errorVars  == <<transport_rc, error_mtx, notified>>
mainVars   == <<running, starts>>

----------------------------------------------------------------------------
(* The application *)

\* start, when init could open the transport (start returns false otherwise
\* and changes nothing).  What an earlier run left in the queues is still there.
Start ==
    /\ pc["main"] = "idle" /\ \A t \in Threads : pc[t] = "done"
    /\ starts < Starts
    /\ starts' = starts + 1
    /\ open' = TRUE
    /\ input_on' = TRUE /\ output_on' = TRUE
    /\ running' = TRUE
    /\ pc' = [t \in Threads \cup {"main"} |-> IF t = "main" THEN "idle" ELSE "loop"]
    /\ UNCHANGED <<input, output, errorVars, sendVars, arrived, produced>>

\* stop
Stop ==
    /\ running
    /\ Goto("main", "idle", "deinit input")
    /\ running' = FALSE
    /\ UNCHANGED <<inputVars, outputVars, sendVars, errorVars, open, starts>>

DeinitInput ==
    /\ Goto("main", "deinit input", "deinit output")
    /\ Input!deinit
    /\ UNCHANGED <<arrived, outputVars, sendVars, errorVars, open, mainVars>>

DeinitOutput ==
    /\ Goto("main", "deinit output", "notify")
    /\ Output!deinit
    /\ UNCHANGED <<produced, inputVars, sendVars, errorVars, open, mainVars>>

\* Mistake: stop does not notify the handler.
BugNotify ==
    /\ Goto("main", "notify", "join")
    /\ UNCHANGED <<inputVars, outputVars, sendVars, errorVars, open, mainVars>>

\* error_cv_.notify_one(), without error_mtx_: it wakes the handler if the
\* handler waits already, and has no effect if it does not.
Notify ==
    /\ Goto("main", "notify", "join")
    /\ notified' = (notified \/ pc["handler"] = "sleep")
    /\ UNCHANGED <<transport_rc, error_mtx>>
    /\ UNCHANGED <<inputVars, outputVars, sendVars, open, mainVars>>

\* Mistake: the transport is closed without waiting for the threads.
BugJoin ==
    /\ Goto("main", "join", "idle")
    /\ open' = FALSE
    /\ UNCHANGED <<inputVars, outputVars, sendVars, errorVars, mainVars>>

\* The five joins, then fini.
Join ==
    /\ \A t \in Threads : pc[t] = "done"
    /\ Goto("main", "join", "idle")
    /\ open' = FALSE
    /\ UNCHANGED <<inputVars, outputVars, sendVars, errorVars, mainVars>>

Main == Start \/ Stop \/ DeinitInput \/ DeinitOutput \/ Notify \/ Join

----------------------------------------------------------------------------
(* The threads *)

\* Every loop begins by reading running_cond_.
Loop(t, body) ==
    /\ Goto(t, "loop", IF running THEN body ELSE "done")
    /\ UNCHANGED <<inputVars, outputVars, sendVars, errorVars, open, mainVars>>

\* recv_message, from an open transport, ...
ReceivePacket ==
    /\ Goto("receiver", "recv", "loop")
    /\ open
    /\ arrived < Packets
    /\ arrived' = arrived + 1
    /\ Input!push(arrived')
    /\ UNCHANGED <<outputVars, sendVars, errorVars, open, mainVars>>

\* ... a timeout or a packet it cannot use, ...
ReceiveNothing ==
    /\ Goto("receiver", "recv", "loop")
    /\ UNCHANGED <<inputVars, outputVars, sendVars, errorVars, open, mainVars>>

\* ... or an error, reported as soon as error_mtx_ is free.
ReceiveError ==
    /\ Goto("receiver", "recv", "report")
    /\ UNCHANGED <<inputVars, outputVars, sendVars, errorVars, open, mainVars>>

\* Mistake: the handler is not notified.
BugReport ==
    /\ error_mtx = "free"
    /\ transport_rc' = "server_error"
    /\ UNCHANGED <<error_mtx, notified>>

Report ==
    /\ error_mtx = "free"
    /\ transport_rc' = "server_error"
    /\ notified' = (notified \/ pc["handler"] = "sleep")
    /\ UNCHANGED error_mtx

ReceiverReport ==
    /\ Goto("receiver", "report", "loop")
    /\ Report
    /\ UNCHANGED <<inputVars, outputVars, sendVars, open, mainVars>>

Receiver ==
    Loop("receiver", "recv") \/ ReceivePacket \/ ReceiveNothing \/ ReceiveError \/ ReceiverReport

SenderPop ==
    /\ \/ Goto("sender", "pop", "send") /\ Output!pop(sending')
       \/ Goto("sender", "pop", "loop") /\ Output!PopFails /\ UNCHANGED sending
    /\ UNCHANGED <<produced, inputVars, sent, errorVars, open, mainVars>>

\* send_message sends the packet, or loses it, ...
SendPacket ==
    /\ Goto("sender", "send", "loop")
    /\ \/ open /\ sent' = sending
       \/ UNCHANGED sent
    /\ sending' = 0
    /\ UNCHANGED <<inputVars, outputVars, errorVars, open, mainVars>>

\* ... or fails with an error: then the packet goes back to the front.
SendError ==
    /\ Goto("sender", "send", "report")
    /\ UNCHANGED <<inputVars, outputVars, sendVars, errorVars, open, mainVars>>

SenderReport ==
    /\ Goto("sender", "report", "loop")
    /\ Report
    /\ Output!push_front(sending)
    /\ sending' = 0
    /\ UNCHANGED <<produced, sent, inputVars, open, mainVars>>

Sender == Loop("sender", "pop") \/ SenderPop \/ SendPacket \/ SendError \/ SenderReport

\* push_output_packet
Produce ==
    /\ produced < Packets
    /\ produced' = produced + 1
    /\ Output!push(produced')

ProcessingPop ==
    /\ \/ Goto("processing", "pop", "process") /\ \E e \in 1 .. Packets : Input!pop(e)
       \/ Goto("processing", "pop", "loop") /\ Input!PopFails
    /\ UNCHANGED <<arrived, outputVars, sendVars, errorVars, open, mainVars>>

\* process_input_packet, with an answer or without
Process ==
    /\ Goto("processing", "process", "loop")
    /\ Produce \/ UNCHANGED outputVars
    /\ UNCHANGED <<inputVars, sendVars, errorVars, open, mainVars>>

Processing == Loop("processing", "pop") \/ ProcessingPop \/ Process

\* check_heartbeats, then HEARTBEAT_PERIOD
Heartbeat ==
    \/ /\ Goto("heartbeat", "loop", IF running THEN "sleep" ELSE "done")
       /\ (running /\ Produce) \/ UNCHANGED outputVars
       /\ UNCHANGED <<inputVars, sendVars, errorVars, open, mainVars>>
    \/ /\ Goto("heartbeat", "sleep", "loop")
       /\ UNCHANGED <<inputVars, outputVars, sendVars, errorVars, open, mainVars>>

\* The reader threads of the clients push samples whether the Server runs or not.
ReaderPush ==
    /\ Produce
    /\ UNCHANGED <<inputVars, sendVars, errorVars, open, mainVars, pc>>

----------------------------------------------------------------------------
(* The error handler *)

Lock ==
    /\ Goto("handler", "lock", "check")
    /\ error_mtx = "free"
    /\ error_mtx' = "handler"
    /\ UNCHANGED <<transport_rc, notified>>
    /\ UNCHANGED <<inputVars, outputVars, sendVars, open, mainVars>>

\* The predicate of error_cv_.wait, under error_mtx_.
Check ==
    /\ Goto("handler", "check",
            IF running /\ transport_rc = "ok" THEN "wait"
            ELSE IF running THEN "handle" ELSE "loop")
    /\ error_mtx' = IF pc'["handler"] = "loop" THEN "free" ELSE error_mtx
    /\ UNCHANGED <<transport_rc, notified>>
    /\ UNCHANGED <<inputVars, outputVars, sendVars, open, mainVars>>

\* The wait gives up error_mtx_ and sleeps, in one step, but only now.
Wait ==
    /\ Goto("handler", "wait", "sleep")
    /\ error_mtx' = "free"
    /\ notified' = FALSE
    /\ UNCHANGED transport_rc
    /\ UNCHANGED <<inputVars, outputVars, sendVars, open, mainVars>>

WakeUp ==
    /\ notified
    /\ error_mtx = "free"
    /\ Goto("handler", "sleep", "check")
    /\ error_mtx' = "handler"
    /\ notified' = FALSE
    /\ UNCHANGED transport_rc
    /\ UNCHANGED <<inputVars, outputVars, sendVars, open, mainVars>>

\* handle_error closes the transport and opens it again.
Reopened ==
    /\ pc["handler"] = "handle"
    /\ pc' = [pc EXCEPT !["handler"] = "loop"]
    /\ open' = TRUE
    /\ transport_rc' = "ok"
    /\ error_mtx' = "free"
    /\ UNCHANGED notified
    /\ UNCHANGED <<inputVars, outputVars, sendVars, mainVars>>

NotReopened ==
    /\ Goto("handler", "handle", "retry")
    /\ open' = FALSE
    /\ UNCHANGED <<inputVars, outputVars, sendVars, errorVars, mainVars>>

\* After a failure it tries again, with error_mtx_ held, until it succeeds or
\* the Server stops.
Retry ==
    /\ Goto("handler", "retry", IF running THEN "handle" ELSE "loop")
    /\ error_mtx' = IF running THEN error_mtx ELSE "free"
    /\ transport_rc' = IF running THEN transport_rc ELSE "ok"
    /\ UNCHANGED notified
    /\ UNCHANGED <<inputVars, outputVars, sendVars, open, mainVars>>

Handler ==
    Loop("handler", "lock") \/ Lock \/ Check \/ Wait \/ WakeUp \/ Reopened \/ NotReopened \/ Retry

----------------------------------------------------------------------------

ServerNext ==
    \/ Main
    \/ Receiver
    \/ Sender
    \/ Processing
    \/ Heartbeat
    \/ Handler
    \/ ReaderPush

ServerSpec == ServerInit /\ [][ServerNext]_serverVars

\* Every thread gets to run (the order in which they get error_mtx_ does not
\* matter: it is given up after one step, or by the handler), and a transport
\* that is opened again and again opens once.  The application need not call
\* start or stop, but stop goes on once it was called.
Fairness ==
    /\ WF_serverVars(Main /\ pc["main"] # "idle")
    /\ WF_serverVars(Receiver)
    /\ WF_serverVars(Sender)
    /\ WF_serverVars(Processing)
    /\ WF_serverVars(Heartbeat)
    /\ WF_serverVars(Handler)
    /\ SF_serverVars(Reopened)

FairSpec == ServerSpec /\ Fairness

----------------------------------------------------------------------------
(* Properties *)

\* error_mtx_ is held exactly where the handler works under it, the sender has
\* a packet exactly from the pop to the end of the sending, and the memory of
\* the queues is bounded, though push_front does not look at the size: a packet
\* that could not be sent takes the place it had.
ServerTypeOK ==
    /\ running \in BOOLEAN /\ open \in BOOLEAN /\ notified \in BOOLEAN
    /\ transport_rc \in {"ok", "server_error"}
    /\ \A t \in DOMAIN pc : pc[t] \in Places[t]
    /\ error_mtx = IF pc["handler"] \in {"check", "wait", "handle", "retry"}
                   THEN "handler" ELSE "free"
    /\ sending \in 0 .. Packets
    /\ sending # 0 <=> pc["sender"] \in {"send", "report"}
    /\ Len(input) <= QueueMax
    /\ Len(output) <= QueueMax + 1

\* Packets leave in the order in which they were made, each at most once,
\* whatever is dropped or fails.
InOrder ==
    LET line == (IF sending = 0 THEN <<>> ELSE <<sending>>) \o output
    IN  \A i \in DOMAIN line : sent < line[i] /\ \A j \in 1 .. i - 1 : line[j] < line[i]

\* When stop has returned, no thread touches the transport any more, it is
\* closed, and error_mtx_ is free.
StoppedIsQuiet ==
    /\ ServerTypeOK
    /\ pc["main"] = "idle" /\ ~running =>
        ~open /\ error_mtx = "free" /\ \A t \in Threads : pc[t] = "done"

\* An error of the transport is dealt with, or the Server stops.
ErrorHandled == (transport_rc = "server_error") ~> (transport_rc = "ok" \/ ~running)

\* "Stop agent, and exit": once stop was called the four working threads end,
\* and stop joins all threads and returns, unless it notifies just when the
\* error handler is between its test and its sleep.  There the notification is
\* lost and the handler is joined for ever.
StopReturns ==
    /\ (pc["main"] = "deinit input") ~> (\A t \in Workers : pc[t] = "done")
    /\ (pc["main"] = "notify" /\ pc["handler"] # "wait") ~> (pc["main"] = "idle")
=============================================================================
