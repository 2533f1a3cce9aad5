----------------------------- MODULE AgentProofs -----------------------------
(***************************************************************************)
(* Proofs about the Agent's threads, sessions and objects.                 *)
(*                                                                         *)
(* Server: the two queues stay within their bounds and in order whatever   *)
(* is dropped or fails, and when stop has returned nothing of the Server   *)
(* runs, for every size of the queues.                                     *)
(*                                                                         *)
(* Sessions and ClientRequests: what the Agent's registers say of a        *)
(* client, what a Client may conclude from the answer to a login, a logout *)
(* or a list of requests, for any number of clients, endpoints and         *)
(* versions, any size of the lines and any number of outages.              *)
(*                                                                         *)
(* Entities: the objects of the clients, the middleware behind them and    *)
(* the rings of samples agree, whatever is created and deleted and         *)
(* however the writers and readers interleave, for every size of a ring.   *)
(***************************************************************************)
EXTENDS Server, MCSessions, Entities, SeqNumProofs, SequenceTheorems, WellFoundedInduction, TLAPS

----------------------------------------------------------------------------
(* Server *)

\* Who is where.  The threads live from start to join, and error_mtx_ is the
\* handler's exactly where it works under it.
ThreadsInv ==
    /\ running \in BOOLEAN /\ open \in BOOLEAN /\ notified \in BOOLEAN
    /\ transport_rc \in {"ok", "server_error"}
    /\ pc = [t \in Threads \cup {"main"} |-> pc[t]]
    /\ pc["main"] \in Places.main
    /\ pc["receiver"] \in Places.receiver
    /\ pc["sender"] \in Places.sender
    /\ pc["processing"] \in Places.processing
    /\ pc["heartbeat"] \in Places.heartbeat
    /\ pc["handler"] \in Places.handler
    /\ error_mtx = IF pc["handler"] \in {"check", "wait", "handle", "retry"}
                   THEN "handler" ELSE "free"
    /\ running => pc["main"] = "idle"
    /\ pc["main"] = "idle" /\ ~running => ~open /\ \A t \in Threads : pc[t] = "done"

\* The queue of the receiver and the processing thread.
InputInv ==
    /\ arrived \in 0 .. Packets
    /\ input \in Seq(1 .. Packets)
    /\ Len(input) <= QueueMax

\* What the sender has in hand keeps its place in the bound: it may go back.
OutputInv ==
    /\ produced \in 0 .. Packets /\ sent \in 0 .. Packets /\ sending \in 0 .. Packets
    /\ sending # 0 <=> pc["sender"] \in {"send", "report"}
    /\ output \in Seq(1 .. Packets)
    /\ Len(output) <= IF sending = 0 THEN QueueMax + 1 ELSE QueueMax

\* Everything is numbered as it was made, what is sent lies before what the
\* sender has, and that before what waits.
OrderInv ==
    /\ sent <= produced
    /\ sending # 0 => sent < sending /\ sending <= produced
    /\ \A i \in 1 .. Len(output) :
        /\ sent < output[i] /\ sending < output[i] /\ output[i] <= produced
        /\ \A j \in 1 .. i - 1 : output[j] < output[i]

ServerInv == ThreadsInv /\ InputInv /\ OutputInv /\ OrderInv

----------------------------------------------------------------------------
(* The threads *)

\* Before start no thread runs.
LEMMA ThreadsInit == ServerInit => ThreadsInv
  BY DEF ServerInit, ThreadsInv, Threads, Workers, Places

\* start and stop: threads are started stopped, and joined when they have ended.
LEMMA MainStep == ASSUME ThreadsInv, Main PROVE ThreadsInv'
  <1> USE DEF Threads, Workers, Places, errorVars, mainVars
  <1>1. CASE Start
    BY <1>1 DEF Start, ThreadsInv
  <1>2. CASE Stop
    BY <1>2 DEF Stop, Goto, ThreadsInv
  <1>3. CASE DeinitInput
    BY <1>3 DEF DeinitInput, Goto, ThreadsInv
  <1>4. CASE DeinitOutput
    BY <1>4 DEF DeinitOutput, Goto, ThreadsInv
  <1>5. CASE Notify
    BY <1>5 DEF Notify, Goto, ThreadsInv
  <1>6. CASE Join
    BY <1>6 DEF Join, Goto, ThreadsInv
  <1> QED
    BY <1>1, <1>2, <1>3, <1>4, <1>5, <1>6 DEF Main

\* The receiver's loop, receiver_loop.
LEMMA ReceiverStep == ASSUME ThreadsInv, Receiver PROVE ThreadsInv'
  <1> USE DEF Threads, Workers, Places, errorVars, mainVars
  <1>1. CASE Loop("receiver", "recv")
    BY <1>1 DEF Loop, Goto, ThreadsInv
  <1>2. CASE ReceivePacket
    BY <1>2 DEF ReceivePacket, Goto, ThreadsInv
  <1>3. CASE ReceiveNothing
    BY <1>3 DEF ReceiveNothing, Goto, ThreadsInv
  <1>4. CASE ReceiveError
    BY <1>4 DEF ReceiveError, Goto, ThreadsInv
  <1>5. CASE ReceiverReport
    BY <1>5 DEF ReceiverReport, Report, Goto, ThreadsInv
  <1> QED
    BY <1>1, <1>2, <1>3, <1>4, <1>5 DEF Receiver

\* The sender's loop, sender_loop.
LEMMA SenderStep == ASSUME ThreadsInv, Sender PROVE ThreadsInv'
  <1> USE DEF Threads, Workers, Places, errorVars, mainVars
  <1>1. CASE Loop("sender", "pop")
    BY <1>1 DEF Loop, Goto, ThreadsInv
  <1>2. CASE SenderPop
    BY <1>2 DEF SenderPop, Goto, ThreadsInv
  <1>3. CASE SendPacket
    BY <1>3 DEF SendPacket, Goto, ThreadsInv
  <1>4. CASE SendError
    BY <1>4 DEF SendError, Goto, ThreadsInv
  <1>5. CASE SenderReport
    BY <1>5 DEF SenderReport, Report, Goto, ThreadsInv
  <1> QED
    BY <1>1, <1>2, <1>3, <1>4, <1>5 DEF Sender

\* The processing loop, processing_loop.
LEMMA ProcessingStep == ASSUME ThreadsInv, Processing PROVE ThreadsInv'
  <1> USE DEF Threads, Workers, Places, errorVars, mainVars
  <1>1. CASE Loop("processing", "pop")
    BY <1>1 DEF Loop, Goto, ThreadsInv
  <1>2. CASE ProcessingPop
    BY <1>2 DEF ProcessingPop, Goto, ThreadsInv
  <1>3. CASE Process
    BY <1>3 DEF Process, Goto, ThreadsInv
  <1> QED
    BY <1>1, <1>2, <1>3 DEF Processing

\* The heartbeat loop, heartbeat_loop.
LEMMA HeartbeatStep == ASSUME ThreadsInv, Heartbeat PROVE ThreadsInv'
  <1> USE DEF Threads, Workers, Places, errorVars, mainVars
  <1>1. UNCHANGED <<running, open, transport_rc, error_mtx, notified>>
    BY DEF Heartbeat
  <1>2. CASE Goto("heartbeat", "loop", IF running THEN "sleep" ELSE "done")
    BY <1>1, <1>2 DEF Goto, ThreadsInv
  <1>3. CASE Goto("heartbeat", "sleep", "loop")
    BY <1>1, <1>3 DEF Goto, ThreadsInv
  <1> QED
    BY <1>2, <1>3 DEF Heartbeat

\* The error handler's loop, error_handler_loop.
LEMMA HandlerStep == ASSUME ThreadsInv, Handler PROVE ThreadsInv'
  <1> USE DEF Threads, Workers, Places, errorVars, mainVars
  <1>1. CASE Loop("handler", "lock")
    BY <1>1 DEF Loop, Goto, ThreadsInv
  <1>2. CASE Lock
    BY <1>2 DEF Lock, Goto, ThreadsInv
  <1>3. CASE Check
    BY <1>3 DEF Check, Goto, ThreadsInv
  <1>4. CASE Wait
    BY <1>4 DEF Wait, Goto, ThreadsInv
  <1>5. CASE WakeUp
    BY <1>5 DEF WakeUp, Goto, ThreadsInv
  <1>6. CASE Reopened
    BY <1>6 DEF Reopened, ThreadsInv
  <1>7. CASE NotReopened
    BY <1>7 DEF NotReopened, Goto, ThreadsInv
  <1>8. CASE Retry
    BY <1>8 DEF Retry, Goto, ThreadsInv
  <1> QED
    BY <1>1, <1>2, <1>3, <1>4, <1>5, <1>6, <1>7, <1>8 DEF Handler

\* Whoever takes the step, the threads stay where main expects them.
LEMMA ThreadsStep == ASSUME ThreadsInv, [ServerNext]_serverVars PROVE ThreadsInv'
  <1>1. CASE ReaderPush
    BY <1>1 DEF ReaderPush, errorVars, mainVars, ThreadsInv
  <1>2. CASE UNCHANGED serverVars
    BY <1>2 DEF serverVars, ThreadsInv
  <1> QED
    BY <1>1, <1>2, MainStep, ReceiverStep, SenderStep, ProcessingStep, HeartbeatStep, HandlerStep
       DEF ServerNext

----------------------------------------------------------------------------
(* The queues.  FCFSScheduler's operations, as the provers need them. *)

\* The queue after a push, for both queues.
Enqueued(q, e) == Append(IF QueueMax <= Len(q) THEN Tail(q) ELSE q, e)

\* push: a full queue loses its front, what enters comes last.
LEMMA PushedIs ==
    ASSUME NEW S, NEW q \in Seq(S), NEW e \in S
    PROVE  /\ Enqueued(q, e) \in Seq(S)
           /\ Len(Enqueued(q, e)) = IF QueueMax <= Len(q) THEN Len(q) ELSE Len(q) + 1
           /\ \A i \in 1 .. Len(Enqueued(q, e)) :
                Enqueued(q, e)[i] = IF i = Len(Enqueued(q, e)) THEN e
                                   ELSE IF QueueMax <= Len(q) THEN q[i + 1] ELSE q[i]
  <1> DEFINE r == Enqueued(q, e)
  <1>1. CASE QueueMax <= Len(q)
    <2> DEFINE rest == Tail(q)
    <2>1. q # <<>> /\ Len(q) \in Nat \ {0}
      BY <1>1, BoundsAssumption
    <2>2. rest \in Seq(S) /\ Len(rest) = Len(q) - 1 /\ \A i \in 1 .. Len(rest) : rest[i] = q[i + 1]
      BY <2>1
    <2>3. r = Append(rest, e)
      BY <1>1 DEF Enqueued
    <2> HIDE DEF rest, r
    <2>4. /\ r \in Seq(S) /\ Len(r) = Len(rest) + 1 /\ r[Len(rest) + 1] = e
          /\ \A i \in 1 .. Len(rest) : r[i] = rest[i]
      BY <2>2, <2>3, AppendProperties
    <2> QED
      BY <1>1, <2>1, <2>2, <2>4 DEF r
  <1>2. CASE ~(QueueMax <= Len(q))
    BY <1>2, BoundsAssumption DEF Enqueued
  <1> QED
    BY <1>1, <1>2

\* pop takes the front.
LEMMA PoppedIs ==
    ASSUME NEW S, NEW q \in Seq(S), q # <<>>
    PROVE  /\ Tail(q) \in Seq(S) /\ Len(Tail(q)) = Len(q) - 1 /\ Len(q) \in Nat \ {0}
           /\ Head(q) = q[1] /\ q[1] \in S
           /\ \A i \in 1 .. Len(Tail(q)) : Tail(q)[i] = q[i + 1]
  OBVIOUS

\* push_front puts the element before all others.
LEMMA PutBackIs ==
    ASSUME NEW S, NEW q \in Seq(S), NEW e \in S
    PROVE  /\ <<e>> \o q \in Seq(S) /\ Len(<<e>> \o q) = Len(q) + 1
           /\ (<<e>> \o q)[1] = e
           /\ \A i \in 1 .. Len(q) : (<<e>> \o q)[i + 1] = q[i]
  OBVIOUS

\* What is pushed to input is the receiver's, what is taken the processing
\* thread's; all others leave the queue as it is.
LEMMA InputStep == ASSUME InputInv, [ServerNext]_serverVars PROVE InputInv'
  <1>1. CASE ReceivePacket
    <2>1. /\ arrived' = arrived + 1 /\ arrived < Packets
          /\ input' = Enqueued(input, arrived')
      BY <1>1 DEF ReceivePacket, Input!push, Input!Pushed, Enqueued
    <2>2. arrived' \in 1 .. Packets
      BY <2>1, BoundsAssumption DEF InputInv
    <2>3. /\ input' \in Seq(1 .. Packets)
          /\ Len(input') = IF QueueMax <= Len(input) THEN Len(input) ELSE Len(input) + 1
      BY <2>1, <2>2, PushedIs DEF InputInv
    <2> QED
      BY <2>2, <2>3, BoundsAssumption DEF InputInv
  <1>2. CASE ProcessingPop
    <2>1. arrived' = arrived
      BY <1>2 DEF ProcessingPop
    <2>2. CASE \E e \in 1 .. Packets : Input!pop(e)
      BY <2>1, <2>2, PoppedIs, BoundsAssumption DEF InputInv, Input!pop
    <2>3. CASE Input!PopFails
      BY <2>1, <2>3 DEF InputInv, Input!PopFails
    <2> QED
      BY <1>2, <2>2, <2>3 DEF ProcessingPop
  <1>3. CASE UNCHANGED <<input, arrived>>
    BY <1>3 DEF InputInv
  <1>4. ReceivePacket \/ ProcessingPop \/ UNCHANGED <<input, arrived>>
    <2> USE DEF inputVars, serverVars
    <2>1. Main => UNCHANGED <<input, arrived>>
      BY DEF Main, Start, Stop, DeinitInput, DeinitOutput, Notify, Join, Input!deinit
    <2>2. Receiver => ReceivePacket \/ UNCHANGED <<input, arrived>>
      BY DEF Receiver, Loop, ReceiveNothing, ReceiveError, ReceiverReport
    <2>3. Sender => UNCHANGED <<input, arrived>>
      BY DEF Sender, Loop, SenderPop, SendPacket, SendError, SenderReport
    <2>4. Processing => ProcessingPop \/ UNCHANGED <<input, arrived>>
      BY DEF Processing, Loop, Process
    <2>5. Heartbeat => UNCHANGED <<input, arrived>>
      BY DEF Heartbeat
    <2>6. Handler => UNCHANGED <<input, arrived>>
      BY DEF Handler, Loop, Lock, Check, Wait, WakeUp, Reopened, NotReopened, Retry
    <2>7. ReaderPush => UNCHANGED <<input, arrived>>
      BY DEF ReaderPush
    <2> QED
      BY <2>1, <2>2, <2>3, <2>4, <2>5, <2>6, <2>7 DEF ServerNext
  <1> QED
    BY <1>1, <1>2, <1>3, <1>4

\* The sender has a packet in hand.
InHand == pc["sender"] \in {"send", "report"}

\* Every step is one of the sender's with a packet, or a push by one of the
\* threads that make packets, or leaves the queue and the sender's packet alone.
LEMMA OutputSteps ==
    ASSUME ThreadsInv, [ServerNext]_serverVars
    PROVE  \/ SenderPop \/ SendPacket \/ SenderReport
           \/ Produce /\ UNCHANGED <<sending, sent>> /\ (InHand' <=> InHand)
           \/ UNCHANGED <<output, produced, sending, sent>> /\ (InHand' <=> InHand)
  <1> USE DEF InHand, outputVars, sendVars, Threads, Workers
  <1> DEFINE Still == UNCHANGED <<output, produced, sending, sent>> /\ (InHand' <=> InHand)
             Made  == Produce /\ UNCHANGED <<sending, sent>> /\ (InHand' <=> InHand)
  <1>1. ASSUME Main PROVE Still
    <2>1. CASE Start
      BY <2>1 DEF Start
    <2>2. CASE Stop
      BY <2>2 DEF Stop, Goto, ThreadsInv
    <2>3. CASE DeinitInput
      BY <2>3 DEF DeinitInput, Goto, ThreadsInv
    <2>4. CASE DeinitOutput
      BY <2>4 DEF DeinitOutput, Output!deinit, Goto, ThreadsInv
    <2>5. CASE Notify
      BY <2>5 DEF Notify, Goto, ThreadsInv
    <2>6. CASE Join
      BY <2>6 DEF Join, Goto, ThreadsInv
    <2> QED
      BY <1>1, <2>1, <2>2, <2>3, <2>4, <2>5, <2>6 DEF Main
  <1>2. ASSUME Receiver PROVE Still
    BY <1>2 DEF Receiver, Loop, ReceivePacket, ReceiveNothing, ReceiveError, ReceiverReport, Goto,
                ThreadsInv
  <1>3. ASSUME Sender PROVE Still \/ SenderPop \/ SendPacket \/ SenderReport
    BY <1>3 DEF Sender, Loop, SendError, Goto, ThreadsInv
  <1>4. ASSUME Processing PROVE Still \/ Made
    BY <1>4 DEF Processing, Loop, ProcessingPop, Process, Goto, ThreadsInv
  <1>5. ASSUME Heartbeat PROVE Still \/ Made
    BY <1>5 DEF Heartbeat, Goto, ThreadsInv
  <1>6. ASSUME Handler PROVE Still
    BY <1>6 DEF Handler, Loop, Lock, Check, Wait, WakeUp, Reopened, NotReopened, Retry, Goto,
                ThreadsInv
  <1>7. ASSUME ReaderPush PROVE Made
    BY <1>7 DEF ReaderPush
  <1>8. ASSUME UNCHANGED serverVars PROVE Still
    BY <1>8 DEF serverVars
  <1> QED
    BY <1>1, <1>2, <1>3, <1>4, <1>5, <1>6, <1>7, <1>8 DEF ServerNext

\* What is made enters last, with the largest number.
LEMMA ProduceStep ==
    ASSUME OutputInv, OrderInv, Produce, UNCHANGED <<sending, sent>>, InHand' <=> InHand
    PROVE  OutputInv' /\ OrderInv'
  <1>1. /\ produced' = produced + 1 /\ produced < Packets
        /\ output' = Enqueued(output, produced')
    BY DEF Produce, Output!push, Output!Pushed, Enqueued
  <1>2. produced' \in 1 .. Packets /\ output \in Seq(1 .. Packets)
    BY <1>1, BoundsAssumption DEF OutputInv
  <1>3. /\ output' \in Seq(1 .. Packets)
        /\ Len(output') = IF QueueMax <= Len(output) THEN Len(output) ELSE Len(output) + 1
        /\ \A i \in 1 .. Len(output') :
             output'[i] = IF i = Len(output') THEN produced'
                          ELSE IF QueueMax <= Len(output) THEN output[i + 1] ELSE output[i]
    <2> DEFINE q == Enqueued(output, produced')
    <2>1. /\ q \in Seq(1 .. Packets)
          /\ Len(q) = IF QueueMax <= Len(output) THEN Len(output) ELSE Len(output) + 1
          /\ \A i \in 1 .. Len(q) :
               q[i] = IF i = Len(q) THEN produced'
                      ELSE IF QueueMax <= Len(output) THEN output[i + 1] ELSE output[i]
      BY <1>2, PushedIs
    <2>2. output' = q
      BY <1>1
    <2> HIDE DEF q
    <2> QED
      BY <2>1, <2>2
  <1>4. /\ Len(output) \in Nat /\ Len(output') \in Nat
        /\ \A i \in 1 .. Len(output) : output[i] \in 1 .. Packets
    BY <1>2, <1>3, ElementOfSeq, LenProperties
  <1>5. OutputInv'
    BY <1>1, <1>2, <1>3, <1>4, BoundsAssumption DEF OutputInv, InHand
  <1>6. ASSUME NEW i \in 1 .. Len(output')
        PROVE  /\ sent' < output'[i] /\ sending' < output'[i] /\ output'[i] <= produced'
               /\ \A j \in 1 .. i - 1 : output'[j] < output'[i]
    <2>1. sent <= produced /\ sending <= produced
      BY BoundsAssumption DEF OutputInv, OrderInv
    <2>2. /\ produced \in Nat /\ produced' \in Nat /\ sent \in Nat /\ sending \in Nat
          /\ QueueMax \in Nat /\ QueueMax > 0
      BY <1>1, <1>2, BoundsAssumption DEF OutputInv
    <2> DEFINE shift == IF QueueMax <= Len(output) THEN 1 ELSE 0
    <2>3. \A j \in 1 .. Len(output') - 1 :
            j + shift \in 1 .. Len(output) /\ output'[j] = output[j + shift]
      BY <1>3, <1>4, <2>2
    <2>4. output'[Len(output')] = produced' /\ shift \in Nat
      BY <1>3, <1>4, <2>2
    <2>5. \A k \in 1 .. Len(output) :
            /\ output[k] \in Nat
            /\ sent < output[k] /\ sending < output[k] /\ output[k] <= produced
            /\ \A m \in 1 .. Len(output) : m < k => output[m] < output[k]
      BY <1>4, BoundsAssumption DEF OrderInv
    <2> HIDE DEF shift
    <2>6. CASE i = Len(output')
      <3>1. ASSUME NEW j \in 1 .. i - 1 PROVE output'[j] < output'[i]
        <4>1. output'[j] = output[j + shift] /\ j + shift \in 1 .. Len(output)
          BY <1>4, <2>3, <2>6
        <4> QED
          BY <1>1, <2>2, <2>4, <2>5, <2>6, <4>1
      <3> QED
        BY <1>1, <2>1, <2>2, <2>4, <2>6, <3>1
    <2>7. CASE i # Len(output')
      <3>1. output'[i] = output[i + shift] /\ i + shift \in 1 .. Len(output)
        BY <1>4, <2>3, <2>7
      <3>2. ASSUME NEW j \in 1 .. i - 1 PROVE output'[j] < output'[i]
        <4>1. /\ output'[j] = output[j + shift] /\ j + shift \in 1 .. Len(output)
              /\ j + shift < i + shift
          BY <1>4, <2>3, <2>4, <2>7
        <4> QED
          BY <2>5, <3>1, <4>1
      <3> QED
        BY <1>1, <2>2, <2>5, <3>1, <3>2
    <2> QED
      BY <2>6, <2>7
  <1> QED
    BY <1>1, <1>5, <1>6, BoundsAssumption DEF OrderInv, OutputInv

\* What is popped was the front: it lies after what was sent, and what is left
\* lies after it.
LEMMA PopStep ==
    ASSUME ThreadsInv, OutputInv, OrderInv, SenderPop
    PROVE  OutputInv' /\ OrderInv'
  <1>0. /\ UNCHANGED <<produced, sent>> /\ sending = 0 /\ QueueMax \in Nat
        /\ produced \in Nat /\ sent \in Nat
    BY BoundsAssumption DEF SenderPop, OutputInv, Goto
  <1>1. CASE Goto("sender", "pop", "send") /\ Output!pop(sending')
    <2>1. /\ output \in Seq(1 .. Packets) /\ output # <<>>
          /\ sending' = Head(output) /\ output' = Tail(output)
      BY <1>1 DEF OutputInv, Output!pop
    <2>2. /\ output' \in Seq(1 .. Packets) /\ Len(output') = Len(output) - 1
          /\ Len(output) \in Nat \ {0} /\ sending' = output[1] /\ sending' \in 1 .. Packets
          /\ \A i \in 1 .. Len(output') : output'[i] = output[i + 1]
      BY <2>1, PoppedIs
    <2>3. pc'["sender"] = "send"
      BY <1>1 DEF Goto, ThreadsInv, Threads, Workers
    <2>4. OutputInv'
      BY <1>0, <2>2, <2>3, BoundsAssumption DEF OutputInv
    <2>5. sent < sending' /\ sending' <= produced
      BY <2>2 DEF OrderInv
    <2>6. ASSUME NEW i \in 1 .. Len(output')
          PROVE  /\ sent' < output'[i] /\ sending' < output'[i] /\ output'[i] <= produced'
                 /\ \A j \in 1 .. i - 1 : output'[j] < output'[i]
      <3>1. i + 1 \in 1 .. Len(output) /\ output'[i] = output[i + 1] /\ 1 \in 1 .. (i + 1) - 1
        BY <2>2
      <3>2. \A j \in 1 .. i - 1 : j + 1 \in 1 .. (i + 1) - 1 /\ output'[j] = output[j + 1]
        BY <2>2
      <3> QED
        BY <1>0, <2>2, <3>1, <3>2 DEF OrderInv
    <2> QED
      BY <1>0, <2>4, <2>5, <2>6 DEF OrderInv
  <1>2. CASE Goto("sender", "pop", "loop") /\ Output!PopFails /\ UNCHANGED sending
    BY <1>0, <1>2 DEF OutputInv, OrderInv, Output!PopFails, Goto, ThreadsInv, Threads, Workers
  <1> QED
    BY <1>1, <1>2 DEF SenderPop

\* What is sent, or lost, leaves the line at its front.
LEMMA SendStep ==
    ASSUME ThreadsInv, OutputInv, OrderInv, SendPacket
    PROVE  OutputInv' /\ OrderInv'
  <1>1. /\ UNCHANGED <<output, produced>> /\ sending' = 0 /\ (sent' = sending \/ sent' = sent)
        /\ pc["sender"] = "send" /\ pc'["sender"] = "loop"
    BY DEF SendPacket, outputVars, Goto, ThreadsInv, Threads, Workers
  <1>2. /\ Packets \in Nat /\ QueueMax \in Nat /\ sending # 0
        /\ Len(output) \in Nat /\ \A i \in 1 .. Len(output) : output[i] \in 1 .. Packets
    BY <1>1, BoundsAssumption, ElementOfSeq, LenProperties DEF OutputInv
  <1> QED
    BY <1>1, <1>2 DEF OutputInv, OrderInv

\* What could not be sent goes back to the front of the line.
LEMMA PutBackStep ==
    ASSUME ThreadsInv, OutputInv, OrderInv, SenderReport
    PROVE  OutputInv' /\ OrderInv'
  <1>1. /\ UNCHANGED <<sent, produced>> /\ sending' = 0 /\ output' = <<sending>> \o output
        /\ pc["sender"] = "report" /\ pc'["sender"] = "loop"
    BY DEF SenderReport, Output!push_front, Goto, ThreadsInv, Threads, Workers
  <1>2. /\ Packets \in Nat /\ QueueMax \in Nat /\ sending \in 1 .. Packets
        /\ output \in Seq(1 .. Packets) /\ Len(output) <= QueueMax
        /\ Len(output) \in Nat /\ \A i \in 1 .. Len(output) : output[i] \in 1 .. Packets
        /\ sent \in Nat /\ produced \in Nat
    BY <1>1, BoundsAssumption, ElementOfSeq, LenProperties DEF OutputInv
  <1>3. /\ output' \in Seq(1 .. Packets) /\ Len(output') = Len(output) + 1
        /\ output'[1] = sending /\ \A i \in 1 .. Len(output) : output'[i + 1] = output[i]
    BY <1>1, <1>2, PutBackIs
  <1>4. OutputInv'
    BY <1>1, <1>2, <1>3 DEF OutputInv
  <1>5. ASSUME NEW i \in 1 .. Len(output')
        PROVE  /\ sent' < output'[i] /\ sending' < output'[i] /\ output'[i] <= produced'
               /\ \A j \in 1 .. i - 1 : output'[j] < output'[i]
    <2>1. CASE i = 1
      BY <1>1, <1>2, <1>3, <2>1 DEF OrderInv
    <2>2. CASE i # 1
      <3>1. i - 1 \in 1 .. Len(output) /\ output'[i] = output[i - 1]
        <4>1. i - 1 \in 1 .. Len(output) /\ (i - 1) + 1 = i
          BY <1>2, <1>3, <2>2
        <4> QED
          BY <1>3, <4>1
      <3>2. ASSUME NEW j \in 1 .. i - 1 PROVE output'[j] < output'[i]
        <4>1. CASE j = 1
          BY <1>3, <3>1, <4>1 DEF OrderInv
        <4>2. CASE j # 1
          <5>1. j - 1 \in 1 .. (i - 1) - 1 /\ j - 1 \in 1 .. Len(output) /\ (j - 1) + 1 = j
            BY <1>2, <3>1, <4>2
          <5>2. output'[j] = output[j - 1]
            BY <1>3, <5>1
          <5> QED
            BY <3>1, <5>1, <5>2 DEF OrderInv
        <4> QED
          BY <4>1, <4>2
      <3>3. sent < output[i - 1] /\ sending < output[i - 1] /\ output[i - 1] <= produced
        BY <3>1 DEF OrderInv
      <3> QED
        BY <1>1, <1>2, <3>1, <3>2, <3>3
    <2> QED
      BY <2>1, <2>2
  <1> QED
    BY <1>1, <1>4, <1>5 DEF OrderInv

----------------------------------------------------------------------------

\* A server that was not started satisfies the invariant.
LEMMA InvInit == ServerInit => ServerInv
  <1> SUFFICES ASSUME ServerInit PROVE ServerInv
    OBVIOUS
  <1>1. input = <<>> /\ output = <<>> /\ <<>> \in Seq(1 .. Packets) /\ Len(<<>>) = 0
    BY DEF ServerInit, Input!Created, Output!Created
  <1>2. InputInv /\ OutputInv /\ OrderInv
    BY <1>1, BoundsAssumption DEF ServerInit, InputInv, OutputInv, OrderInv, Threads, Workers
  <1> QED
    BY <1>2, ThreadsInit DEF ServerInv

\* Every step of every thread and of the application preserves it.
LEMMA InvStep == ASSUME ServerInv, [ServerNext]_serverVars PROVE ServerInv'
  <1>1. ThreadsInv' /\ InputInv'
    BY ThreadsStep, InputStep DEF ServerInv
  <1>2. OutputInv' /\ OrderInv'
    <2>1. CASE UNCHANGED <<output, produced, sending, sent>> /\ (InHand' <=> InHand)
      BY <2>1 DEF ServerInv, OutputInv, OrderInv, InHand
    <2> QED
      BY <2>1, OutputSteps, ProduceStep, PopStep, SendStep, PutBackStep DEF ServerInv
  <1> QED
    BY <1>1, <1>2 DEF ServerInv

\* Packets that are numbered as the invariant says are in order.
LEMMA InvOrders == ServerInv => InOrder
  <1> SUFFICES ASSUME ServerInv PROVE InOrder
    OBVIOUS
  <1>1. /\ output \in Seq(1 .. Packets) /\ sending \in Nat /\ Len(output) \in Nat
    BY BoundsAssumption, LenProperties DEF ServerInv, OutputInv
  <1>2. CASE sending = 0
    <2>1. <<>> \o output = output
      BY <1>1
    <2> QED
      BY <1>1, <1>2, <2>1 DEF ServerInv, OrderInv, InOrder
  <1>3. CASE sending # 0
    <2> DEFINE line == <<sending>> \o output
    <2>1. /\ Len(line) = Len(output) + 1 /\ line[1] = sending /\ DOMAIN line = 1 .. Len(line)
          /\ \A k \in 1 .. Len(output) : line[k + 1] = output[k]
      BY <1>1
    <2> HIDE DEF line
    <2>2. ASSUME NEW i \in 1 .. Len(output) + 1
          PROVE  i = 1 \/ (i - 1 \in 1 .. Len(output) /\ line[i] = output[i - 1])
      <3>1. CASE i # 1
        <4>1. i - 1 \in 1 .. Len(output) /\ (i - 1) + 1 = i
          BY <1>1, <3>1
        <4> QED
          BY <2>1, <4>1
      <3> QED
        BY <3>1
    <2>3. ASSUME NEW i \in DOMAIN line
          PROVE  sent < line[i] /\ \A j \in 1 .. i - 1 : line[j] < line[i]
      <3>1. CASE i = 1
        BY <1>3, <2>1, <3>1 DEF ServerInv, OrderInv
      <3>2. CASE i # 1
        <4>1. i - 1 \in 1 .. Len(output) /\ line[i] = output[i - 1]
          BY <1>1, <2>1, <2>2, <3>2
        <4>2. ASSUME NEW j \in 1 .. i - 1 PROVE line[j] < line[i]
          <5>1. CASE j = 1
            BY <2>1, <4>1, <5>1 DEF ServerInv, OrderInv
          <5>2. CASE j # 1
            <6>1. j \in 1 .. Len(output) + 1 /\ j - 1 \in 1 .. (i - 1) - 1
              BY <1>1, <4>1, <5>2
            <6>2. line[j] = output[j - 1]
              BY <2>2, <5>2, <6>1
            <6> QED
              BY <4>1, <6>1, <6>2 DEF ServerInv, OrderInv
          <5> QED
            BY <5>1, <5>2
        <4> QED
          BY <4>1, <4>2 DEF ServerInv, OrderInv
      <3> QED
        BY <3>1, <3>2
    <2> QED
      BY <1>3, <2>3 DEF InOrder, line
  <1> QED
    BY <1>2, <1>3

\* When main is done every thread has ended and the transport is closed.
LEMMA InvQuiets == ServerInv => StoppedIsQuiet
  <1> SUFFICES ASSUME ServerInv PROVE StoppedIsQuiet
    OBVIOUS
  <1>1. \A t \in DOMAIN pc : pc[t] \in Places[t]
    BY DEF ServerInv, ThreadsInv, Threads, Workers, Places
  <1>2. Len(input) <= QueueMax /\ Len(output) <= QueueMax + 1
    BY BoundsAssumption, LenProperties DEF ServerInv, InputInv, OutputInv
  <1>3. error_mtx = IF pc["handler"] \in {"check", "wait", "handle", "retry"}
                    THEN "handler" ELSE "free"
    BY DEF ServerInv, ThreadsInv
  <1>4. sending \in 0 .. Packets /\ (sending # 0 <=> pc["sender"] \in {"send", "report"})
    BY DEF ServerInv, OutputInv
  <1>5. ServerTypeOK
    BY <1>1, <1>2, <1>3, <1>4 DEF ServerTypeOK, ServerInv, ThreadsInv
  <1>6. pc["main"] = "idle" /\ ~running =>
            ~open /\ error_mtx = "free" /\ \A t \in Threads : pc[t] = "done"
    BY DEF ServerInv, ThreadsInv, Threads
  <1> QED
    BY <1>5, <1>6 DEF StoppedIsQuiet

----------------------------------------------------------------------------

\* The invariant holds in every state of every behaviour, for queues of every
\* size: in particular no queue outgrows its bound by more than the one packet
\* that may go back.
THEOREM ServerInvariant == ServerSpec => []ServerInv
  <1> QED
    BY InvInit, InvStep, PTL DEF ServerSpec

\* Packets leave in the order in which they were made, each at most once
\* (Server::sender_loop with FCFSScheduler's push, push_front and pop).
THEOREM PacketsInOrder == ServerSpec => []InOrder
  <1> QED
    BY ServerInvariant, InvOrders, PTL

\* When stop has returned, every thread has ended, the transport is closed and
\* error_mtx_ is free, whatever the error handler did meanwhile (Server::stop).
THEOREM StopIsQuiet == ServerSpec => []StoppedIsQuiet
  <1> QED
    BY ServerInvariant, InvQuiets, PTL

----------------------------------------------------------------------------
(* ClientRequests *)

\* What says OK, on its way, in the list of the call or in what was returned,
\* says so of the newest request of that id.
RequestsInv ==
    /\ \A a \in answers : a.status \in Requests!Good => a.id \in accepted
    /\ call # NoCall =>
          /\ DOMAIN call.status_list = DOMAIN call.request_list
          /\ \A i \in DOMAIN call.status_list :
                call.status_list[i] \in Requests!Good => call.request_list[i] \in accepted
    /\ (returned.op = "all" /\ returned.value) =>
          \A i \in DOMAIN returned.request_list : returned.request_list[i] \in accepted

\* Nothing was accepted and nothing was asked for.
LEMMA RequestsInit == Requests!Init => RequestsInv
  BY DEF Requests!Init, Requests!Nothing, RequestsInv

\* What is heard is written where the call asked for it.
LEMMA HeardIsAccepted ==
    ASSUME RequestsInv, call # NoCall, NEW heard \in SUBSET answers,
           NEW list \in Requests!After(heard, call.status_list)
    PROVE  /\ DOMAIN list = DOMAIN call.request_list
           /\ \A i \in DOMAIN list : list[i] \in Requests!Good => call.request_list[i] \in accepted
  <1>1. /\ DOMAIN list = DOMAIN call.status_list
        /\ DOMAIN call.status_list = DOMAIN call.request_list
    BY DEF Requests!After, RequestsInv
  <1>2. ASSUME NEW i \in DOMAIN list, list[i] \in Requests!Good
        PROVE  call.request_list[i] \in accepted
    <2> DEFINE news == {a.status : a \in {b \in heard : i \in Requests!Place(call.request_list, b.id)}}
    <2>1. IF news = {} THEN list[i] = call.status_list[i] ELSE list[i] \in news
      BY <1>1 DEF Requests!After
    <2>2. CASE news = {}
      BY <1>1, <1>2, <2>1, <2>2 DEF RequestsInv
    <2>3. CASE news # {}
      <3>1. PICK a \in heard : i \in Requests!Place(call.request_list, a.id) /\ list[i] = a.status
        BY <2>1, <2>3
      <3>2. a.id \in accepted /\ call.request_list[i] = a.id
        BY <1>2, <3>1 DEF Requests!Place, RequestsInv
      <3> QED
        BY <3>2
    <2> QED
      BY <2>2, <2>3
  <1> QED
    BY <1>1, <1>2

\* A call returns true for all only over a list that says OK throughout.
LEMMA ReturnIsAccepted ==
    ASSUME NEW list, Requests!Return(list), UNCHANGED accepted,
           DOMAIN list = DOMAIN call.request_list,
           \A i \in DOMAIN list : list[i] \in Requests!Good => call.request_list[i] \in accepted
    PROVE  (returned'.op = "all" /\ returned'.value) =>
              \A i \in DOMAIN returned'.request_list : returned'.request_list[i] \in accepted'
  BY DEF Requests!Return, Requests!Value

\* Asking, answering, hearing and returning preserve it.
LEMMA RequestsStep == ASSUME RequestsInv, [Requests!Next]_requestVars PROVE RequestsInv'
  <1>1. ASSUME NEW kind, Requests!Request(kind) PROVE RequestsInv'
    BY <1>1 DEF Requests!Request, Requests!Free, Requests!Nothing, RequestsInv
  <1>2. ASSUME NEW id, NEW status, Requests!Answer(id, status) PROVE RequestsInv'
    BY <1>2 DEF Requests!Answer, RequestsInv
  <1>3. ASSUME NEW id, Requests!NoAnswer(id) PROVE RequestsInv'
    BY <1>3 DEF Requests!NoAnswer, RequestsInv
  <1>4. ASSUME NEW op \in Requests!Calls, NEW list \in Requests!Lists, Requests!Run(op, list)
        PROVE  RequestsInv'
    <2>1. list \in Seq(Requests!Ids \cup {Requests!INVALID})
      BY ListsAssumption DEF Requests!Lists, Requests!RequestsAssumption
    <2>2. DOMAIN list = 1 .. Len(list)
      BY <2>1
    <2> QED
      BY <1>4, <2>2 DEF Requests!Run, Requests!Cleared, Requests!Good, Requests!Nothing, RequestsInv
  <1>5. ASSUME NEW heard \in SUBSET answers, Requests!Listen(heard) PROVE RequestsInv'
    <2>1. PICK list \in Requests!After(heard, call.status_list) :
             IF Requests!Enough(list) THEN Requests!Return(list)
             ELSE call' = [call EXCEPT !.status_list = list] /\ UNCHANGED returned
      BY <1>5 DEF Requests!Listen
    <2>2. call # NoCall /\ answers' = answers \ heard /\ UNCHANGED accepted
      BY <1>5 DEF Requests!Listen
    <2>3. /\ DOMAIN list = DOMAIN call.request_list
          /\ \A i \in DOMAIN list : list[i] \in Requests!Good => call.request_list[i] \in accepted
      BY <2>2, HeardIsAccepted
    <2>4. CASE Requests!Return(list)
      BY <2>2, <2>3, <2>4, ReturnIsAccepted DEF Requests!Return, RequestsInv
    <2>5. CASE call' = [call EXCEPT !.status_list = list] /\ UNCHANGED returned
      BY <2>2, <2>3, <2>5 DEF RequestsInv
    <2> QED
      BY <2>1, <2>4, <2>5
  <1>6. ASSUME NEW heard, Requests!Ignore(heard) PROVE RequestsInv'
    BY <1>6 DEF Requests!Ignore, RequestsInv
  <1>7. CASE Requests!TimeOut
    <2>1. call # NoCall /\ Requests!Return(call.status_list) /\ UNCHANGED <<answers, accepted>>
      BY <1>7 DEF Requests!TimeOut
    <2> QED
      BY <2>1, ReturnIsAccepted DEF Requests!Return, RequestsInv
  <1>8. CASE UNCHANGED requestVars
    BY <1>8 DEF requestVars, RequestsInv
  <1> QED
    BY <1>1, <1>2, <1>3, <1>4, <1>5, <1>6, <1>7, <1>8 DEF Requests!Next, requestVars

\* uxr_run_session_until_all_status returns true only if the Agent accepted
\* every request of the list, for any range of ids and lists of any length.
THEOREM AcceptedAlways == BothSpec => []TrueIsAccepted
  <1>1. BothInit => RequestsInv
    BY RequestsInit DEF BothInit
  <1>2. RequestsInv /\ [BothNext]_<<part, vars, requestVars>> => RequestsInv'
    BY RequestsStep DEF BothNext, LoginsNext, RequestsNext
  <1>3. RequestsInv => TrueIsAccepted
    BY DEF RequestsInv, TrueIsAccepted, Requests!TrueIsAccepted
  <1> QED
    BY <1>1, <1>2, <1>3, PTL DEF BothSpec

----------------------------------------------------------------------------
(* The inductive invariant of Sessions *)

\* What is on its way to the Agent or to an endpoint, and what of an endpoint's
\* packets the Agent has not dealt with.
Elements(q) == {q[i] : i \in DOMAIN q}

OnLine(e) == Elements(to_agent[e])

Replies(e) == Elements(to_client[e])

Working == job # Nothing

Pending(e) == OnLine(e) \cup IF Working /\ job.source = e THEN {job.packet} ELSE {}

\* Logged in, or trying to be, or having been in this run of the program.
InSession == {"login", "open", "logout", "closed", "lost"}

Runs(e, k) == session[k].phase \in InSession /\ Place(k) = e

Uses(e, k) == Runs(e, k) \/ \E m \in Pending(e) : m.key = k

\* The endpoint's answer to a login is on its way to it.
Granted(e) == \E m \in Replies(e) : m.type = "STATUS_AGENT" /\ m.status = "OK"

Confirmed(e) == \E m \in Replies(e) : m.type \in {"STATUS", "STATUS_AGENT"} /\ m.status = "OK"

\* The Agent knows the client at no other endpoint, no other client at this
\* one, and the client by its newest login, if it knows it.
Settled(e, k) ==
    /\ HasClient(e) => endpoint_to_client[e] = k
    /\ HasEndpoint(k) => client_to_endpoint[k] = e
    /\ Known(k) => clients[k].login = session[k].login

Registered(k) ==
    /\ Known(k) /\ clients[k].login = session[k].login
    /\ HasEndpoint(k) /\ client_to_endpoint[k] = Place(k)

\* A login was answered, or something was sent that takes one for granted.
Entered(e, k) ==
    \/ session[k].phase \in {"open", "logout", "closed", "lost"} /\ Place(k) = e
    \/ session[k].phase = "login" /\ Place(k) = e /\ Granted(e)
    \/ \E m \in Pending(e) : m.key = k /\ m.type \in {"REQUEST", "DELETE"}

AgentPackets ==
    [type : {"CREATE_CLIENT"}, key : Keys, session_id : SessionIds, version : Builds, login : Nat]
    \cup [type : {"DELETE"}, key : Keys, session_id : SessionIds]
    \cup [type : {"REQUEST"}, key : Keys, session_id : SessionIds, login : Nat]

ClientPackets ==
    [type : {"STATUS", "STATUS_AGENT"}, key : Keys, session_id : SessionIds,
     status : {"OK", "ERR_INCOMPATIBLE", "ERR_UNKNOWN_REFERENCE"}]
    \cup [type : {"HEARTBEAT"}, key : Keys, session_id : SessionIds]

Steps == {"delete other", "destroy other", "create", "establish", "delete", "destroy"}

ProgramsTyped ==
    /\ ClientTypeOK
    /\ \A k \in Keys : Running(k) =>
          /\ session[k].endpoint \in Endpoints /\ session[k].session_id \in SessionIds
          /\ session[k].version \in Builds

AgentLine ==
    /\ to_agent \in [Endpoints -> Seq(AgentPackets)]
    /\ \A e \in Endpoints : Len(to_agent[e]) <= InFlight

ClientLine ==
    /\ to_client \in [Endpoints -> Seq(ClientPackets)]
    /\ \A e \in Endpoints : Len(to_client[e]) <= InFlight

LinesTyped == AgentLine /\ ClientLine

AgentTyped ==
    /\ SessionsTypeOK
    /\ DOMAIN clients \subseteq Keys /\ clients = [k \in DOMAIN clients |-> clients[k]]
    /\ \A k \in DOMAIN clients : clients[k].session_id \in SessionIds
    /\ job \in {Nothing} \cup [step : Steps, source : Endpoints, key : Keys, packet : AgentPackets]
    /\ beat \in {Nobody} \cup [key : Keys, session_id : SessionIds]

TypesInv == ProgramsTyped /\ LinesTyped /\ AgentTyped

\* What the processing thread found out on its way still holds.
JobInv ==
    Working =>
        /\ job.step \in {"delete other", "destroy other", "create", "establish"} =>
              job.packet.type = "CREATE_CLIENT" /\ job.key = job.packet.key
        /\ job.step \in {"delete", "destroy"} =>
              /\ job.packet.type = "DELETE"
              /\ HasClient(job.source) /\ endpoint_to_client[job.source] = job.key
        /\ job.step \in {"delete other", "destroy other"} =>
              HasClient(job.source) /\ endpoint_to_client[job.source] # job.key
        /\ job.step \in {"create", "establish"} /\ HasClient(job.source) =>
              endpoint_to_client[job.source] = job.key
        /\ job.step \in {"destroy other", "destroy"} =>
              ~Known(endpoint_to_client[job.source])

\* A registered client can be reached, or is about to be.
ReachInv ==
    DOMAIN clients \subseteq
        DOMAIN client_to_endpoint \cup IF job.step = "establish" THEN {job.key} ELSE {}

SoundInv == MapsInStep /\ JobInv /\ ReachInv

\* What is sent in a login carries its number, which is the newest.
NumbersInv ==
    \A e \in Endpoints : \A m \in Pending(e) :
        m.type # "DELETE" => m.login = session[m.key].login

\* So does the client that is being established.
EstablishInv ==
    job.step = "establish" =>
        /\ Known(job.key) => clients[job.key].login = session[job.key].login
        /\ job.key \in spared => Known(job.key)

\* An endpoint has one program at a time, and one client's packets; a client's
\* packets are at one endpoint.
UseInv ==
    /\ \A j, k \in Keys : Running(j) /\ Running(k) /\ Place(j) = Place(k) => j = k
    /\ \A e, d \in Endpoints, j, k \in Keys : Uses(e, j) /\ Uses(d, k) => (e = d <=> j = k)

KindsInv ==
    \A k \in Keys, e \in Endpoints : \A m \in Pending(e) :
        m.key = k =>
            /\ session[k].phase \in {"login", "open"} => m.type # "DELETE"
            /\ session[k].phase \in {"logout", "closed", "lost"} => m.type # "CREATE_CLIENT"

SettledInv == \A e \in Endpoints, k \in Keys : Entered(e, k) => Settled(e, k)

\* An answer tells the Client that it is logged in, or logged out.
ToldIn(k) == session[k].phase = "open" \/ (session[k].phase = "login" /\ Granted(Place(k)))

ToldOut(k) == session[k].phase = "closed" \/ (session[k].phase = "logout" /\ Confirmed(Place(k)))

KnownInv == \A k \in Keys \cap spared : ToldIn(k) => Registered(k)

GoneInv == \A k \in Keys : ToldOut(k) => ~Known(k)

LoginInv ==
    /\ NumbersInv /\ UseInv /\ KindsInv
    /\ EstablishInv /\ SettledInv /\ KnownInv /\ GoneInv

IInv == TypesInv /\ WalkStands /\ SoundInv /\ LoginInv

----------------------------------------------------------------------------
(* Lines and maps *)

\* A line takes a packet or loses it.
LEMMA SentIs ==
    ASSUME NEW S, NEW line \in [Endpoints -> Seq(S)], NEW e \in Endpoints, NEW m \in S,
           NEW after \in Sent(line, e, m)
    PROVE  /\ after \in [Endpoints -> Seq(S)]
           /\ \A d \in Endpoints : d # e => after[d] = line[d]
           /\ \A d \in Endpoints : Elements(after[d]) \subseteq Elements(line[d]) \cup {m}
           /\ (\A d \in Endpoints : Len(line[d]) <= InFlight) =>
                 \A d \in Endpoints : Len(after[d]) <= InFlight
  <1>1. CASE after = line
    BY <1>1
  <1>2. CASE Len(line[e]) < InFlight /\ after = [line EXCEPT ![e] = Append(line[e], m)]
    <2> DEFINE q == line[e]
               r == Append(q, m)
    <2>1. /\ q \in Seq(S) /\ r \in Seq(S) /\ Len(q) \in Nat /\ Len(r) = Len(q) + 1
          /\ DOMAIN r = 1 .. Len(q) + 1 /\ DOMAIN q = 1 .. Len(q)
          /\ r[Len(q) + 1] = m /\ \A i \in 1 .. Len(q) : r[i] = q[i]
      BY AppendProperties, LenProperties
    <2>2. after[e] = r /\ \A d \in Endpoints : d # e => after[d] = line[d]
      BY <1>2
    <2>3. after \in [Endpoints -> Seq(S)]
      BY <1>2, <2>1
    <2> HIDE DEF q, r
    <2>4. Elements(r) \subseteq Elements(q) \cup {m}
      BY <2>1 DEF Elements
    <2>5. Len(r) <= InFlight
      BY <1>2, <2>1, LinesAssumption DEF q
    <2> QED
      BY <2>2, <2>3, <2>4, <2>5 DEF q
  <1> QED
    BY <1>1, <1>2 DEF Sent

\* What remains of the lines when the oldest packet of e's is taken.
Shorter(S, line, e, after) ==
    /\ after \in [Endpoints -> Seq(S)]
    /\ Head(line[e]) \in S /\ Head(line[e]) \in Elements(line[e])
    /\ \A d \in Endpoints : Elements(after[d]) \subseteq Elements(line[d])
    /\ (\A d \in Endpoints : Len(line[d]) <= InFlight) =>
          \A d \in Endpoints : Len(after[d]) <= InFlight

\* What is taken off a line is its first packet, and the rest stays.
LEMMA TakenIs ==
    ASSUME NEW S, NEW line \in [Endpoints -> Seq(S)], NEW e \in Endpoints, line[e] # <<>>,
           NEW after, after = [line EXCEPT ![e] = Tail(line[e])]
    PROVE  Shorter(S, line, e, after)
  <1> DEFINE q == line[e]
             r == Tail(q)
  <1>1. /\ q \in Seq(S) /\ r \in Seq(S) /\ Len(q) \in Nat \ {0} /\ Len(r) = Len(q) - 1
        /\ DOMAIN r = 1 .. Len(q) - 1 /\ DOMAIN q = 1 .. Len(q)
        /\ Head(q) = q[1] /\ q[1] \in S /\ \A i \in 1 .. Len(q) - 1 : r[i] = q[i + 1]
    OBVIOUS
  <1>2. after[e] = r /\ (\A d \in Endpoints : d # e => after[d] = line[d])
        /\ after \in [Endpoints -> Seq(S)]
    BY <1>1
  <1> HIDE DEF q, r
  <1>3. Elements(r) \subseteq Elements(q) /\ Head(q) \in Elements(q)
    <2>1. \A i \in DOMAIN r : i + 1 \in DOMAIN q /\ r[i] = q[i + 1]
      BY <1>1
    <2>2. 1 \in DOMAIN q
      BY <1>1
    <2> QED
      BY <1>1, <2>1, <2>2, SMTT(60) DEF Elements
  <1>4. Len(q) <= InFlight => Len(r) <= InFlight
    BY <1>1, LinesAssumption
  <1> QED
    BY <1>1, <1>2, <1>3, <1>4 DEF q, Shorter

\* An empty line carries nothing.
LEMMA EmptyLine == Elements(<<>>) = {}
  BY DEF Elements

\* std::map's insertion and erasure.
LEMMA PutIs ==
    ASSUME NEW map, NEW k, NEW v
    PROVE  /\ DOMAIN Put(map, k, v) = DOMAIN map \cup {k} /\ Put(map, k, v)[k] = v
           /\ \A j \in DOMAIN map : j # k => Put(map, k, v)[j] = map[j]
           /\ Put(map, k, v) = [j \in DOMAIN Put(map, k, v) |-> Put(map, k, v)[j]]
  BY DEF Put

\* Erasure, by the key.
LEMMA EraseIs ==
    ASSUME NEW map, NEW k
    PROVE  /\ DOMAIN Erase(map, k) = DOMAIN map \ {k}
           /\ \A j \in DOMAIN map \ {k} : Erase(map, k)[j] = map[j]
           /\ Erase(map, k) = [j \in DOMAIN Erase(map, k) |-> Erase(map, k)[j]]
  BY DEF Erase

\* A set of keys has a first one.
LEMMA MinIs ==
    ASSUME NEW S \in SUBSET Nat, S # {}
    PROVE  Min(S) \in S
  <1>1. PICK x \in S : \A y \in S : ~(<<y, x>> \in OpToRel(<, Nat))
    BY WFMin, NatLessThanWellFounded
  <1>2. \A y \in S : x <= y
    <2>1. ASSUME NEW y \in S PROVE ~(y < x)
      BY <1>1, <2>1 DEF OpToRel
    <2> QED
      BY <2>1
  <1> QED
    BY <1>2 DEF Min

----------------------------------------------------------------------------
(* The heartbeat thread's walk *)

\* The client after one in the walk is the end, or another client of the map.
LEMMA FollowingIs ==
    ASSUME DOMAIN clients \subseteq Keys, NEW k \in Keys
    PROVE  Following(k) = End \/ Following(k) \in DOMAIN clients \ {k}
  <1> DEFINE later == {j \in DOMAIN clients : j > k}
  <1>0. k \in Nat /\ DOMAIN clients \subseteq Nat
    BY KeysAssumption
  <1>1. later \in SUBSET Nat /\ k \notin later /\ later \subseteq DOMAIN clients
    BY <1>0
  <1> HIDE DEF later
  <1>2. later # {} => Min(later) \in later
    BY <1>1, MinIs
  <1> QED
    BY <1>1, <1>2 DEF Following, later

\* The walk begins at the end, or at a client of the map.
LEMMA FirstIs ==
    ASSUME DOMAIN clients \subseteq Keys, clients = [k \in DOMAIN clients |-> clients[k]]
    PROVE  First = End \/ First \in DOMAIN clients
  <1>1. CASE clients = EmptyMap
    BY <1>1 DEF First
  <1>2. CASE clients # EmptyMap /\ DOMAIN clients # {}
    BY <1>2, MinIs, KeysAssumption DEF First
  <1>3. CASE DOMAIN clients = {}
    BY <1>3 DEF First, EmptyMap
  <1> QED
    BY <1>1, <1>2, <1>3

\* delete_client moves the walk off the client it erases.
LEMMA DeleteStands ==
    ASSUME AgentTyped, WalkStands, NEW k \in Keys, delete_client(k)
    PROVE  WalkStands'
  <1>1. DOMAIN clients' = DOMAIN clients \ {k} /\ current_client' = Skip(k)
    BY EraseIs DEF delete_client
  <1>2. CASE current_client = k
    <2>1. Skip(k) = Following(k)
      BY <1>2 DEF Skip
    <2>2. Following(k) = End \/ Following(k) \in DOMAIN clients \ {k}
      BY FollowingIs DEF AgentTyped
    <2> QED
      BY <1>1, <2>1, <2>2 DEF AgentTyped, WalkStands, Known
  <1>3. CASE current_client # k
    BY <1>1, <1>3 DEF AgentTyped, WalkStands, Known, Skip
  <1> QED
    BY <1>1, <1>2, <1>3

\* Whatever the Agent does with its clients, the walk stays on one that is there.
LEMMA StandsStep == ASSUME AgentTyped, WalkStands, [Next]_vars PROVE WalkStands'
  <1> USE DEF rootVars
  <1>1. CASE UNCHANGED rootVars
    BY <1>1 DEF WalkStands, Known
  <1>2. CASE DeleteOther
    BY <1>2, <1>1, DeleteStands DEF DeleteOther, AgentTyped, Known
  <1>3. CASE DeleteClient
    BY <1>3, <1>1, DeleteStands DEF DeleteClient, AgentTyped, Known
  <1>4. CASE CreateClient
    <2>1. CASE create_client(job.key, job.packet.session_id, job.packet.login)
      <3>1. DOMAIN clients' = DOMAIN clients \cup {job.key} /\ UNCHANGED current_client
        BY <2>1, PutIs, ZenonT(60) DEF create_client
      <3> QED
        BY <3>1 DEF WalkStands, Known
    <2> QED
      BY <1>1, <1>4, <2>1 DEF CreateClient
  <1>5. CASE NextClient
    <2>1. /\ current_client' = IF current_client = End THEN First ELSE Following(current_client)
          /\ UNCHANGED clients
      BY <1>5 DEF NextClient, get_next_client
    <2>2. current_client # End => current_client \in Keys
      BY DEF AgentTyped, WalkStands, Known
    <2> QED
      BY <2>1, <2>2, FirstIs, FollowingIs DEF AgentTyped, WalkStands, Known
  <1>6. CASE reset
    BY <1>6 DEF reset, EmptyMap, WalkStands, Known
  <1>7. Next => \/ UNCHANGED rootVars \/ reset
                \/ DeleteOther \/ DeleteClient \/ CreateClient \/ NextClient
    <2>1. ClientNext => UNCHANGED rootVars
      BY DEF ClientNext, StartClient, CrashClient, Login, Logout, Ask, TimeOut, Hear, agent
    <2>2. ProcessorNext => UNCHANGED rootVars \/ DeleteOther \/ DeleteClient \/ CreateClient
      BY DEF ProcessorNext, TakePacket, DestroyOther, EstablishSession, DestroySession
    <2>3. SendHeartbeat => UNCHANGED rootVars
      BY DEF SendHeartbeat
    <2>4. ResetAgent \/ RestartAgent => reset
      BY DEF ResetAgent, RestartAgent
    <2> QED
      BY <2>1, <2>2, <2>3, <2>4 DEF Next
  <1> QED
    BY <1>1, <1>2, <1>3, <1>4, <1>5, <1>6, <1>7 DEF vars, agent

----------------------------------------------------------------------------
(* The Clients' operations *)

\* The others keep everything, the client where it runs and as what.
OnlyPhase(k) ==
    /\ \A j \in Keys : j # k => session'[j] = session[j]
    /\ session'[k].endpoint = session[k].endpoint
    /\ session'[k].session_id = session[k].session_id
    /\ session'[k].version = session[k].version

\* uxr_init_session: a program starts, with the logins counted so far.
LEMMA StartIs ==
    ASSUME ClientTypeOK, NEW k \in Keys, NEW e \in Endpoints, NEW sid \in SessionIds,
           NEW v \in Versions[k], Begin(k, e, sid, v)
    PROVE  /\ ClientTypeOK' /\ \A j \in Keys : j # k => session'[j] = session[j]
           /\ session[k].phase = "off" /\ session'[k].phase = "idle"
           /\ session'[k].endpoint = e /\ session'[k].session_id = sid
           /\ session'[k].version = v /\ session'[k].login = session[k].login
  <1> DEFINE r == [session[k] EXCEPT !.phase = "idle", !.endpoint = e, !.session_id = sid,
                                     !.version = v]
  <1>1. session \in [Keys -> Programs] /\ v \in Builds /\ session[k].phase = "off"
    BY DEF ClientTypeOK, Builds, Begin, Running
  <1>2. /\ r \in Programs /\ r.phase = "idle" /\ r.endpoint = e /\ r.session_id = sid
        /\ r.version = v /\ r.login = session[k].login
    BY <1>1 DEF Programs, Phases
  <1>3. session' = [session EXCEPT ![k] = r]
    BY <1>1 DEF Begin, Programs
  <1> HIDE DEF r
  <1>4. session' \in [Keys -> Programs] /\ session'[k] = r
    BY <1>1, <1>2, <1>3
  <1> QED
    BY <1>1, <1>2, <1>3, <1>4 DEF ClientTypeOK

\* A program ends, wherever it was.
LEMMA CrashIs ==
    ASSUME ClientTypeOK, NEW k \in Keys, Crash(k)
    PROVE  /\ ClientTypeOK' /\ \A j \in Keys : j # k => session'[j] = session[j]
           /\ session'[k].phase = "off" /\ session'[k].login = session[k].login
  <1> DEFINE r == Unset(session[k].login)
  <1>1. session \in [Keys -> Programs]
    BY DEF ClientTypeOK
  <1>2. r \in Programs
    BY <1>1, AttemptsAssumption DEF Unset, Programs, Phases
  <1>3. session' = [session EXCEPT ![k] = r]
    BY DEF Crash
  <1>4. session' \in [Keys -> Programs] /\ session'[k] = r
    BY <1>1, <1>2, <1>3
  <1>5. ClientTypeOK'
    BY <1>4 DEF ClientTypeOK
  <1> QED
    BY <1>1, <1>3, <1>4, <1>5 DEF Unset

\* uxr_create_session begins a login with a number of its own.
LEMMA CreateIs ==
    ASSUME ClientTypeOK, NEW k \in Keys, create_session(k)
    PROVE  /\ ClientTypeOK' /\ OnlyPhase(k)
           /\ session[k].phase \in {"idle", "open", "closed", "lost"}
           /\ session'[k].phase = "login" /\ session'[k].login = session[k].login + 1
  <1>1. session' = [session EXCEPT ![k] = [session[k] EXCEPT !.phase = "login",
                        !.login = session[k].login + 1, !.attempts = Attempts - 1]]
    BY DEF create_session, ClientTypeOK
  <1> QED
    BY <1>1, AttemptsAssumption DEF create_session, ClientTypeOK, Programs, Phases, OnlyPhase

\* uxr_delete_session begins a logout of the same login.
LEMMA DeleteIs ==
    ASSUME ClientTypeOK, NEW k \in Keys, delete_session(k)
    PROVE  /\ ClientTypeOK' /\ OnlyPhase(k)
           /\ session[k].phase \in {"open", "lost"}
           /\ session'[k].phase = "logout" /\ session'[k].login = session[k].login
  <1>1. session' = [session EXCEPT ![k] = [session[k] EXCEPT !.phase = "logout",
                        !.attempts = Attempts - 1]]
    BY DEF delete_session, ClientTypeOK
  <1> QED
    BY <1>1, AttemptsAssumption DEF delete_session, ClientTypeOK, Programs, Phases, OnlyPhase

\* One more attempt of the same request.
LEMMA TryAgainIs ==
    ASSUME ClientTypeOK, NEW k \in Keys, TryAgain(k)
    PROVE  /\ ClientTypeOK' /\ OnlyPhase(k)
           /\ session'[k].phase = session[k].phase /\ session'[k].login = session[k].login
  <1>1. session' = [session EXCEPT ![k] = [session[k] EXCEPT !.attempts = session[k].attempts - 1]]
    BY DEF TryAgain, ClientTypeOK
  <1> QED
    BY <1>1, AttemptsAssumption DEF TryAgain, ClientTypeOK, Programs, Phases, OnlyPhase

\* The last attempt had no answer.
LEMMA GiveUpIs ==
    ASSUME ClientTypeOK, NEW k \in Keys, Waits(k), GiveUp(k)
    PROVE  /\ ClientTypeOK' /\ OnlyPhase(k)
           /\ session'[k].phase = Failed(session[k].phase)
           /\ session'[k].login = session[k].login
  <1>1. session' = [session EXCEPT ![k] = [session[k] EXCEPT !.phase = Failed(session[k].phase)]]
    BY DEF GiveUp, ClientTypeOK
  <1> QED
    BY <1>1 DEF Waits, Failed, ClientTypeOK, Programs, Phases, OnlyPhase

\* A status ends the login or the logout, well or badly.
LEMMA ConcludeIs ==
    ASSUME ClientTypeOK, NEW k \in Keys, Waits(k), NEW status, Conclude(k, status)
    PROVE  /\ ClientTypeOK' /\ OnlyPhase(k)
           /\ session'[k].phase = IF status = "OK" THEN Done(session[k].phase)
                                                  ELSE Failed(session[k].phase)
           /\ session'[k].login = session[k].login
  <1> DEFINE p == IF status = "OK" THEN Done(session[k].phase) ELSE Failed(session[k].phase)
  <1>1. session \in [Keys -> Programs] /\ p \in Phases /\ 0 \in 0 .. Attempts - 1
    BY AttemptsAssumption DEF ClientTypeOK, Waits, Done, Failed, Phases
  <1>2. session' = [session EXCEPT ![k] = [session[k] EXCEPT !.attempts = 0, !.phase = p]]
    BY <1>1 DEF Conclude, Programs
  <1> HIDE DEF p
  <1>3. /\ session' \in [Keys -> Programs] /\ session'[k].phase = p /\ OnlyPhase(k)
        /\ session'[k].login = session[k].login
    BY <1>1, <1>2 DEF Programs, OnlyPhase
  <1>4. ClientTypeOK'
    BY <1>3 DEF ClientTypeOK
  <1> QED
    BY <1>3, <1>4 DEF p

----------------------------------------------------------------------------
(* Types *)

\* The types of the invariant are those the runs check.
LEMMA TypesGiven == TypesInv => TypeOK
  <1> SUFFICES ASSUME TypesInv PROVE TypeOK
    OBVIOUS
  <1>1. job.step \in {"wait", "delete other", "destroy other", "create", "establish",
                     "delete", "destroy"}
    <2>1. CASE job = Nothing
      BY <2>1 DEF Nothing
    <2>2. CASE job \in [step : Steps, source : Endpoints, key : Keys, packet : AgentPackets]
      BY <2>2 DEF Steps
    <2> QED
      BY <2>1, <2>2 DEF TypesInv, AgentTyped
  <1>2. beat.key \in Keys \cup {End}
    BY DEF TypesInv, AgentTyped, Nobody
  <1> QED
    BY <1>1, <1>2 DEF TypesInv, ProgramsTyped, LinesTyped, AgentLine, ClientLine, AgentTyped, TypeOK

\* At the beginning nobody runs and nothing is registered.
LEMMA TypesInit == Init => TypesInv
  <1> SUFFICES ASSUME Init PROVE TypesInv
    OBVIOUS
  <1>1. ProgramsTyped
    BY AttemptsAssumption DEF Init, ClientInit, Unset, ProgramsTyped, ClientTypeOK, Programs,
       Phases, Running
  <1>2. LinesTyped
    BY LinesAssumption, EmptySeq DEF Init, LinesTyped, AgentLine, ClientLine
  <1>3. AgentTyped
    BY DEF Init, RootInit, SessionsInit, EmptyMap, AgentTyped, SessionsTypeOK
  <1> QED
    BY <1>1, <1>2, <1>3 DEF TypesInv

\* Programs keep their types, and those that run have an endpoint, an id and a version.
LEMMA ProgramsStep == ASSUME ProgramsTyped, [Next]_vars PROVE ProgramsTyped'
  <1>1. CASE UNCHANGED session
    BY <1>1 DEF ProgramsTyped, ClientTypeOK, Running
  <1>2. ASSUME NEW k \in Keys, OnlyPhase(k), ClientTypeOK', Running(k) PROVE ProgramsTyped'
    BY <1>2 DEF ProgramsTyped, OnlyPhase, Running
  <1>3. ASSUME NEW k \in Keys, NEW e \in Endpoints, NEW sid \in SessionIds, NEW v \in Versions[k],
               StartClient(k, e, sid, v)
        PROVE  ProgramsTyped'
    <2>1. Begin(k, e, sid, v) /\ v \in Builds
      BY <1>3 DEF StartClient, Builds
    <2> QED
      BY <2>1, StartIs DEF ProgramsTyped, Running
  <1>4. ASSUME NEW k \in Keys, CrashClient(k) PROVE ProgramsTyped'
    BY <1>4, CrashIs DEF CrashClient, ProgramsTyped, Running
  <1>5. ASSUME NEW k \in Keys, Login(k) PROVE ProgramsTyped'
    BY <1>2, <1>5, CreateIs DEF Login, ProgramsTyped, Running
  <1>6. ASSUME NEW k \in Keys, Logout(k) PROVE ProgramsTyped'
    BY <1>2, <1>6, DeleteIs DEF Logout, ProgramsTyped, Running
  <1>7. ASSUME NEW k \in Keys, Waits(k), NoStatus(k) PROVE ProgramsTyped'
    BY <1>2, <1>7, TryAgainIs, GiveUpIs DEF NoStatus, Waits, ProgramsTyped, Running
  <1>8. ASSUME NEW k \in Keys, Waits(k), NEW status, Conclude(k, status) PROVE ProgramsTyped'
    BY <1>2, <1>8, ConcludeIs DEF Waits, ProgramsTyped, Running
  <1>9. ASSUME NEW k \in Keys, TimeOut(k) \/ Hear(k) PROVE ProgramsTyped'
    BY <1>1, <1>7, <1>8, <1>9 DEF TimeOut, Hear
  <1>10. CASE ClientNext
    BY <1>1, <1>3, <1>4, <1>5, <1>6, <1>9, <1>10 DEF ClientNext, Ask
  <1>11. ~ClientNext => UNCHANGED session
    BY DEF Next, ProcessorNext, TakePacket, DeleteOther, DestroyOther, CreateClient,
           EstablishSession, DeleteClient, DestroySession, NextClient, SendHeartbeat, ResetAgent,
           RestartAgent, vars
  <1> QED
    BY <1>1, <1>10, <1>11

\* Line d has after the step what it had, or less, and perhaps m if it is e's.
ToAgent(e, m) ==
    \A d \in Endpoints : OnLine(d)' \subseteq OnLine(d) \cup IF d = e THEN {m} ELSE {}

ToClient(e, m) ==
    \A d \in Endpoints : Replies(d)' \subseteq Replies(d) \cup IF d = e THEN {m} ELSE {}

\* A line to the Agent takes a packet or loses it.
LEMMA AgentGains ==
    ASSUME AgentLine, NEW e \in Endpoints, NEW m \in AgentPackets, to_agent' \in Sent(to_agent, e, m)
    PROVE  AgentLine' /\ ToAgent(e, m)
  <1> DEFINE after == to_agent'
  <1>1. to_agent \in [Endpoints -> Seq(AgentPackets)] /\ after \in Sent(to_agent, e, m)
    BY DEF AgentLine
  <1> HIDE DEF after
  <1>2. /\ after \in [Endpoints -> Seq(AgentPackets)]
        /\ \A d \in Endpoints : d # e => after[d] = to_agent[d]
        /\ \A d \in Endpoints : Elements(after[d]) \subseteq Elements(to_agent[d]) \cup {m}
        /\ (\A d \in Endpoints : Len(to_agent[d]) <= InFlight) =>
              \A d \in Endpoints : Len(after[d]) <= InFlight
    BY <1>1, SentIs, ZenonT(60)
  <1> QED
    BY <1>2 DEF AgentLine, ToAgent, OnLine, after

\* A line to the Client takes a packet or loses it.
LEMMA ClientGains ==
    ASSUME ClientLine, NEW e \in Endpoints, NEW m \in ClientPackets, to_client' \in Sent(to_client, e, m)
    PROVE  ClientLine' /\ ToClient(e, m)
  <1> DEFINE after == to_client'
  <1>1. to_client \in [Endpoints -> Seq(ClientPackets)] /\ after \in Sent(to_client, e, m)
    BY DEF ClientLine
  <1> HIDE DEF after
  <1>2. /\ after \in [Endpoints -> Seq(ClientPackets)]
        /\ \A d \in Endpoints : d # e => after[d] = to_client[d]
        /\ \A d \in Endpoints : Elements(after[d]) \subseteq Elements(to_client[d]) \cup {m}
        /\ (\A d \in Endpoints : Len(to_client[d]) <= InFlight) =>
              \A d \in Endpoints : Len(after[d]) <= InFlight
    BY <1>1, SentIs, ZenonT(60)
  <1> QED
    BY <1>2 DEF ClientLine, ToClient, Replies, after

\* What the Client sends is of the session it is in.
LEMMA RequestIs ==
    ASSUME ClientTypeOK', NEW k \in Keys, session'[k].session_id \in SessionIds,
           session'[k].version \in Builds
    PROVE  /\ Request(k)' \in AgentPackets /\ Request(k)'.key = k
           /\ Request(k)'.type = IF session'[k].phase = "login" THEN "CREATE_CLIENT" ELSE "DELETE"
           /\ session'[k].phase = "login" => Request(k)'.login = session'[k].login
  <1>1. session'[k].login \in Nat
    BY DEF ClientTypeOK, Programs
  <1>2. CASE session'[k].phase = "login"
    BY <1>1, <1>2 DEF Request, LoginMessage, AgentPackets
  <1>3. CASE session'[k].phase # "login"
    BY <1>3 DEF Request, LogoutMessage, AgentPackets
  <1> QED
    BY <1>2, <1>3

\* An answer goes to the endpoint the request came from.
LEMMA ReplyIs ==
    ASSUME ClientLine, NEW e \in Endpoints, NEW m \in AgentPackets,
           NEW type \in {"STATUS", "STATUS_AGENT"},
           NEW status \in {"OK", "ERR_INCOMPATIBLE", "ERR_UNKNOWN_REFERENCE"},
           Reply(e, m, type, status)
    PROVE  /\ ClientLine'
           /\ \E r \in ClientPackets : r.type = type /\ r.status = status /\ ToClient(e, r)
  <1> DEFINE r == [type |-> type, key |-> m.key, session_id |-> m.session_id, status |-> status]
  <1>1. m.key \in Keys /\ m.session_id \in SessionIds
    BY DEF AgentPackets
  <1>2. r \in ClientPackets /\ r.type = type /\ r.status = status
    BY <1>1 DEF ClientPackets
  <1>3. to_client' \in Sent(to_client, e, r)
    BY DEF Reply
  <1> HIDE DEF r
  <1> QED
    BY <1>2, <1>3, ClientGains

\* What each kind of step does to the two lines.
LEMMA LoginLines ==
    ASSUME ProgramsTyped, LinesTyped, NEW k \in Keys, Login(k) \/ Logout(k)
    PROVE  /\ LinesTyped' /\ UNCHANGED to_client
           /\ \E m \in AgentPackets :
                 /\ ToAgent(Place(k), m) /\ m.key = k
                 /\ m.type = IF session'[k].phase = "login" THEN "CREATE_CLIENT" ELSE "DELETE"
                 /\ session'[k].phase = "login" => m.login = session'[k].login
  <1>1. /\ OnlyPhase(k) /\ ClientTypeOK' /\ Running(k) /\ Send(k) /\ UNCHANGED to_client
    BY CreateIs, DeleteIs DEF ProgramsTyped, Login, Logout, Running
  <1>2. /\ session'[k].session_id \in SessionIds /\ session'[k].version \in Builds
        /\ Place(k) \in Endpoints
    BY <1>1 DEF ProgramsTyped, OnlyPhase, Place
  <1>3. PICK m : m = Request(k)'
    OBVIOUS
  <1>4. /\ m \in AgentPackets /\ m.key = k
        /\ m.type = IF session'[k].phase = "login" THEN "CREATE_CLIENT" ELSE "DELETE"
        /\ session'[k].phase = "login" => m.login = session'[k].login
    BY <1>1, <1>2, <1>3, RequestIs
  <1>5. AgentLine' /\ ToAgent(Place(k), m)
    BY <1>1, <1>2, <1>3, <1>4, AgentGains DEF Send, LinesTyped
  <1> QED
    BY <1>1, <1>4, <1>5 DEF LinesTyped, ClientLine

\* An attempt sends the request of the login or logout it belongs to.
LEMMA AgainLines ==
    ASSUME ProgramsTyped, LinesTyped, NEW k \in Keys, Waits(k), TryAgain(k), Send(k)
    PROVE  /\ AgentLine'
           /\ \E m \in AgentPackets :
                 /\ ToAgent(Place(k), m) /\ m.key = k
                 /\ m.type = IF session[k].phase = "login" THEN "CREATE_CLIENT" ELSE "DELETE"
                 /\ session[k].phase = "login" => m.login = session[k].login
  <1>1. /\ OnlyPhase(k) /\ ClientTypeOK' /\ Running(k)
        /\ session'[k].phase = session[k].phase /\ session'[k].login = session[k].login
    BY TryAgainIs DEF ProgramsTyped, Running, Waits
  <1>2. /\ session'[k].session_id \in SessionIds /\ session'[k].version \in Builds
        /\ Place(k) \in Endpoints
    BY <1>1 DEF ProgramsTyped, OnlyPhase, Place
  <1>3. PICK m : m = Request(k)'
    OBVIOUS
  <1>4. /\ m \in AgentPackets /\ m.key = k
        /\ m.type = IF session[k].phase = "login" THEN "CREATE_CLIENT" ELSE "DELETE"
        /\ session[k].phase = "login" => m.login = session[k].login
    BY <1>1, <1>2, <1>3, RequestIs
  <1>5. AgentLine' /\ ToAgent(Place(k), m)
    BY <1>2, <1>3, <1>4, AgentGains DEF Send, LinesTyped
  <1> QED
    BY <1>4, <1>5

\* A request of a session carries its key and its login.
LEMMA AskLines ==
    ASSUME ProgramsTyped, LinesTyped, NEW k \in Keys, Ask(k)
    PROVE  /\ LinesTyped' /\ ToAgent(Place(k), AskMessage(k)) /\ UNCHANGED to_client
           /\ AskMessage(k) \in AgentPackets /\ AskMessage(k).key = k
           /\ AskMessage(k).type = "REQUEST" /\ AskMessage(k).login = session[k].login
  <1>1. /\ session[k].session_id \in SessionIds /\ Place(k) \in Endpoints
        /\ session[k].login \in Nat
    BY DEF Ask, ProgramsTyped, ClientTypeOK, Programs, Place, Running
  <1>2. AskMessage(k) \in AgentPackets
    BY <1>1 DEF AskMessage, AgentPackets
  <1>3. AgentLine' /\ ToAgent(Place(k), AskMessage(k)) /\ UNCHANGED to_client
    BY <1>1, <1>2, AgentGains DEF Ask, LinesTyped
  <1> QED
    BY <1>2, <1>3 DEF LinesTyped, ClientLine, AskMessage

\* The Client hears the first packet of its line.
LEMMA HearLines ==
    ASSUME ProgramsTyped, LinesTyped, NEW k \in Keys, Hear(k)
    PROVE  /\ ClientLine'
           /\ Head(to_client[Place(k)]) \in ClientPackets
           /\ Head(to_client[Place(k)]) \in Replies(Place(k))
           /\ \A d \in Endpoints : Replies(d)' \subseteq Replies(d)
  <1> DEFINE after == to_client'
             e == Place(k)
  <1>1. /\ e \in Endpoints /\ to_client \in [Endpoints -> Seq(ClientPackets)]
        /\ to_client[e] # <<>> /\ after = [to_client EXCEPT ![e] = Tail(to_client[e])]
    BY DEF Hear, ProgramsTyped, LinesTyped, ClientLine, Place
  <1> HIDE DEF after, e
  <1>2. Shorter(ClientPackets, to_client, e, after)
    BY <1>1, TakenIs
  <1> QED
    BY <1>2 DEF Shorter, LinesTyped, ClientLine, Replies, after, e

\* The processing thread takes the first packet of a line.
LEMMA TakeLines ==
    ASSUME LinesTyped, NEW e \in Endpoints, TakePacket(e)
    PROVE  /\ AgentLine'
           /\ Head(to_agent[e]) \in AgentPackets /\ Head(to_agent[e]) \in OnLine(e)
           /\ \A d \in Endpoints : OnLine(d)' \subseteq OnLine(d)
  <1> DEFINE after == to_agent'
  <1>1. /\ to_agent \in [Endpoints -> Seq(AgentPackets)]
        /\ to_agent[e] # <<>> /\ after = [to_agent EXCEPT ![e] = Tail(to_agent[e])]
    BY DEF TakePacket, LinesTyped, AgentLine
  <1> HIDE DEF after
  <1>2. Shorter(AgentPackets, to_agent, e, after)
    BY <1>1, TakenIs
  <1> QED
    BY <1>2 DEF Shorter, LinesTyped, AgentLine, OnLine, after

\* What each step of the processing thread answers, if it answers.
Answered(type, status) ==
    \E r \in ClientPackets :
        r.type = type /\ r.status = status /\ ToClient(job.source, r)

JobTyped == job \in [step : Steps, source : Endpoints, key : Keys, packet : AgentPackets]

\* A processing thread that works has a step, a source, a client and a packet.
LEMMA JobIs == ASSUME AgentTyped, Working PROVE JobTyped
  BY DEF AgentTyped, Working, JobTyped

\* A processing thread at a step works.
LEMMA StepWorks == ASSUME job.step \in Steps PROVE Working
  <1> SUFFICES ASSUME job = Nothing PROVE FALSE
    BY DEF Working
  <1>1. job.step = "wait"
    BY DEF Nothing
  <1> QED
    BY <1>1 DEF Steps

\* A status goes to the endpoint the request came from.
LEMMA AnswerLines ==
    ASSUME AgentTyped, ClientLine, job.step \in Steps,
           NEW type \in {"STATUS", "STATUS_AGENT"},
           NEW status \in {"OK", "ERR_INCOMPATIBLE", "ERR_UNKNOWN_REFERENCE"},
           Reply(job.source, job.packet, type, status)
    PROVE  ClientLine' /\ Answered(type, status)
  <1>1. job.source \in Endpoints /\ job.packet \in AgentPackets
    BY JobIs, StepWorks DEF JobTyped
  <1> DEFINE e == job.source
             m == job.packet
  <1>2. e \in Endpoints /\ m \in AgentPackets /\ Reply(e, m, type, status)
    BY <1>1
  <1> HIDE DEF e, m
  <1>3. ClientLine' /\ \E r \in ClientPackets : r.type = type /\ r.status = status /\ ToClient(e, r)
    BY <1>2, ReplyIs
  <1> QED
    BY <1>3 DEF Answered, e

\* A reply to what the processing thread need not work at.
LEMMA TakeReplies ==
    ASSUME LinesTyped, NEW e \in Endpoints, TakePacket(e)
    PROVE  \/ UNCHANGED to_client
           \/ /\ Head(to_agent[e]).type = "DELETE" /\ ~Known(ClientOf(Head(to_agent[e]), e))
              /\ ClientLine'
              /\ \E r \in ClientPackets : r.type = "STATUS" /\ r.status = "OK" /\ ToClient(e, r)
  <1> DEFINE m == Head(to_agent[e])
  <1>1. m \in AgentPackets
    BY TakeLines
  <1>2. \/ UNCHANGED to_client
        \/ m.type = "DELETE" /\ ~Known(ClientOf(m, e)) /\ Reply(e, m, "STATUS", "OK")
    BY <1>1 DEF TakePacket, AgentPackets
  <1> HIDE DEF m
  <1>3. ASSUME Reply(e, m, "STATUS", "OK")
        PROVE  /\ ClientLine'
               /\ \E r \in ClientPackets : r.type = "STATUS" /\ r.status = "OK" /\ ToClient(e, r)
    BY <1>1, <1>3, ReplyIs DEF LinesTyped
  <1> QED
    BY <1>2, <1>3 DEF m

\* The heartbeat thread sends to an endpoint, or not at all.
LEMMA BeatLines ==
    ASSUME LinesTyped, AgentTyped, SendHeartbeat
    PROVE  \/ UNCHANGED to_client
           \/ /\ ClientLine'
              /\ \E e \in Endpoints, r \in ClientPackets : r.type = "HEARTBEAT" /\ ToClient(e, r)
  <1> DEFINE r == [type |-> "HEARTBEAT", key |-> beat.key, session_id |-> beat.session_id]
             e == client_to_endpoint[beat.key]
  <1> SUFFICES ASSUME HasEndpoint(beat.key), to_client' \in Sent(to_client, e, r)
               PROVE  /\ ClientLine'
                      /\ \E d \in Endpoints, q \in ClientPackets :
                            q.type = "HEARTBEAT" /\ ToClient(d, q)
    BY DEF SendHeartbeat
  <1>1. beat \in [key : Keys, session_id : SessionIds]
    BY DEF AgentTyped, SendHeartbeat
  <1>3. r \in ClientPackets /\ r.type = "HEARTBEAT"
    BY <1>1 DEF ClientPackets
  <1>4. e \in Endpoints
    BY DEF HasEndpoint, AgentTyped, SessionsTypeOK
  <1> HIDE DEF r, e
  <1> QED
    BY <1>3, <1>4, ClientGains DEF LinesTyped

\* Lines carry packets of their types only, and no more than InFlight.
LEMMA LinesStep == ASSUME ProgramsTyped, LinesTyped, AgentTyped, [Next]_vars PROVE LinesTyped'
  <1>1. CASE UNCHANGED lines
    BY <1>1 DEF lines, LinesTyped, AgentLine, ClientLine
  <1>2. UNCHANGED to_agent => AgentLine'
    BY DEF LinesTyped, AgentLine
  <1>3. UNCHANGED to_client => ClientLine'
    BY DEF LinesTyped, ClientLine
  <1>4. ASSUME NEW k \in Keys, Waits(k), NoStatus(k) PROVE AgentLine'
    BY <1>2, <1>4, AgainLines DEF NoStatus
  <1>5. CASE ClientNext
    <2> PICK k \in Keys :
             \/ \E e \in Endpoints, sid \in SessionIds, v \in Versions[k] : StartClient(k, e, sid, v)
             \/ CrashClient(k)
             \/ Login(k)
             \/ Logout(k)
             \/ Ask(k)
             \/ TimeOut(k)
             \/ Hear(k)
      BY <1>5 DEF ClientNext
    <2>1. CASE TimeOut(k)
      BY <1>3, <1>4, <2>1 DEF TimeOut, LinesTyped
    <2>2. CASE Hear(k)
      <3>1. AgentLine'
        BY <1>2, <1>4, <2>2 DEF Hear
      <3> QED
        BY <2>2, <3>1, HearLines DEF LinesTyped
    <2>3. CASE Ask(k)
      BY <2>3, AskLines
    <2>4. CASE Login(k) \/ Logout(k)
      BY <2>4, LoginLines
    <2> QED
      BY <1>1, <2>1, <2>2, <2>3, <2>4 DEF StartClient, CrashClient
  <1>6. CASE \E e \in Endpoints : TakePacket(e)
    BY <1>3, <1>6, TakeLines, TakeReplies DEF LinesTyped
  <1>7. CASE CreateClient
    BY <1>2, <1>3, <1>7, AnswerLines DEF CreateClient, LinesTyped, Steps
  <1>8. CASE EstablishSession
    BY <1>2, <1>3, <1>8, AnswerLines DEF EstablishSession, LinesTyped, Steps
  <1>9. CASE DeleteClient
    BY <1>2, <1>3, <1>9, AnswerLines DEF DeleteClient, LinesTyped, Steps
  <1>10. CASE DestroySession
    BY <1>2, <1>3, <1>10, AnswerLines DEF DestroySession, LinesTyped, Steps
  <1>11. CASE SendHeartbeat
    BY <1>2, <1>3, <1>11, BeatLines DEF SendHeartbeat, LinesTyped
  <1> QED
    BY <1>1, <1>5, <1>6, <1>7, <1>8, <1>9, <1>10, <1>11
    DEF Next, ProcessorNext, DeleteOther, DestroyOther, NextClient, ResetAgent, RestartAgent,
        lines, vars

\* The same for the registers, the job and the heartbeat thread's client.
Maps(map, D, R) == DOMAIN map \subseteq D /\ \A x \in DOMAIN map : map[x] \in R

\* Insertion keeps a map between its two sets ...
LEMMA PutMaps ==
    ASSUME NEW D, NEW R, NEW map, Maps(map, D, R), NEW x \in D, NEW y \in R
    PROVE  Maps(Put(map, x, y), D, R)
  <1> DEFINE after == Put(map, x, y)
  <1>1. /\ DOMAIN after = DOMAIN map \cup {x} /\ after[x] = y
        /\ \A z \in DOMAIN map : z # x => after[z] = map[z]
    BY PutIs, SMTT(60)
  <1> HIDE DEF after
  <1>2. Maps(after, D, R)
    BY <1>1 DEF Maps
  <1> QED
    BY <1>2 DEF after

\* ... and so does erasure.
LEMMA EraseMaps ==
    ASSUME NEW D, NEW R, NEW map, Maps(map, D, R), NEW x
    PROVE  Maps(Erase(map, x), D, R)
  <1> DEFINE after == Erase(map, x)
  <1>1. /\ DOMAIN after = DOMAIN map \ {x}
        /\ \A z \in DOMAIN map \ {x} : after[z] = map[z]
    BY EraseIs
  <1> HIDE DEF after
  <1>2. Maps(after, D, R)
    BY <1>1 DEF Maps
  <1> QED
    BY <1>2 DEF after

\* The two maps of the session manager are such maps.
LEMMA RegistersAre ==
    SessionsTypeOK <=> Maps(endpoint_to_client, Endpoints, Keys)
                       /\ Maps(client_to_endpoint, Keys, Endpoints)
  BY DEF SessionsTypeOK, Maps

\* establish_session leaves them so ...
LEMMA EstablishTypes ==
    ASSUME SessionsTypeOK, NEW e \in Endpoints, NEW k \in Keys, NEW sid, establish_session(e, k, sid)
    PROVE  SessionsTypeOK'
  <1> DEFINE rest == Forget(k)
  <1>1. Maps(rest, Endpoints, Keys)
    BY RegistersAre, EraseMaps DEF Forget
  <1>2. /\ client_to_endpoint' = Put(client_to_endpoint, k, e)
        /\ endpoint_to_client' = rest \/ endpoint_to_client' = Put(rest, e, k)
    BY DEF establish_session
  <1> HIDE DEF rest
  <1>3. Maps(Put(rest, e, k), Endpoints, Keys) /\ Maps(Put(client_to_endpoint, k, e), Keys, Endpoints)
    BY <1>1, RegistersAre, PutMaps
  <1>4. Maps(endpoint_to_client', Endpoints, Keys) /\ Maps(client_to_endpoint', Keys, Endpoints)
    BY <1>1, <1>2, <1>3
  <1> QED
    BY <1>4 DEF SessionsTypeOK, Maps

\* ... and so does destroy_session.
LEMMA DestroyTypes ==
    ASSUME SessionsTypeOK, NEW e \in Endpoints, destroy_session(e)
    PROVE  SessionsTypeOK'
  <1>1. CASE HasClient(e)
    <2> DEFINE j == endpoint_to_client[e]
    <2>1. /\ client_to_endpoint' = Erase(client_to_endpoint, j)
          /\ endpoint_to_client' = Erase(endpoint_to_client, e)
      BY <1>1 DEF destroy_session
    <2> HIDE DEF j
    <2>2. Maps(endpoint_to_client', Endpoints, Keys) /\ Maps(client_to_endpoint', Keys, Endpoints)
      BY <2>1, RegistersAre, EraseMaps
    <2> QED
      BY <2>2 DEF SessionsTypeOK, Maps
  <1>2. CASE UNCHANGED sessionVars
    BY <1>2 DEF sessionVars, SessionsTypeOK
  <1> QED
    BY <1>1, <1>2 DEF destroy_session

\* The registers of the Root: whom they hold, by what sessions.
RootTyped ==
    /\ DOMAIN clients \subseteq Keys /\ clients = [k \in DOMAIN clients |-> clients[k]]
    /\ \A k \in DOMAIN clients : clients[k].session_id \in SessionIds

JobsTyped == job = Nothing \/ JobTyped

BeatTyped == beat \in {Nobody} \cup [key : Keys, session_id : SessionIds]

\* The Agent's types, register by register.
LEMMA AgentTypedIs == AgentTyped <=> SessionsTypeOK /\ RootTyped /\ JobsTyped /\ BeatTyped
  BY DEF AgentTyped, RootTyped, JobsTyped, JobTyped, BeatTyped

\* Root maps keys to clients, and its iterator stands in the map or at its end.
LEMMA RootTypedStep == ASSUME AgentTyped, WalkStands, [Next]_vars PROVE RootTyped'
  <1>0. RootTyped
    BY AgentTypedIs
  <1>1. CASE UNCHANGED clients
    BY <1>0, <1>1 DEF RootTyped
  <1>2. CASE reset
    BY <1>2 DEF reset, EmptyMap, RootTyped
  <1>3. ASSUME NEW k, delete_client(k) PROVE RootTyped'
    <2> DEFINE after == Erase(clients, k)
    <2>1. /\ DOMAIN after = DOMAIN clients \ {k} /\ after = [j \in DOMAIN after |-> after[j]]
          /\ \A j \in DOMAIN clients \ {k} : after[j] = clients[j]
      BY EraseIs
    <2>2. clients' = after
      BY <1>3 DEF delete_client
    <2> HIDE DEF after
    <2> QED
      BY <1>0, <2>1, <2>2 DEF RootTyped
  <1>4. CASE CreateClient
    <2> SUFFICES ASSUME create_client(job.key, job.packet.session_id, job.packet.login)
                 PROVE  RootTyped'
      BY <1>1, <1>4 DEF CreateClient, rootVars
    <2> DEFINE k == job.key
               v == Accepted(job.key, job.packet.session_id, job.packet.login)
    <2>1. k \in Keys /\ v.session_id \in SessionIds
      BY <1>4, JobIs, StepWorks DEF CreateClient, Steps, JobTyped, AgentPackets, Accepted
    <2> DEFINE after == Put(clients, k, v)
    <2>2. clients' = after
      BY DEF create_client
    <2> HIDE DEF k, v
    <2>3. /\ DOMAIN after = DOMAIN clients \cup {k} /\ after[k] = v
          /\ \A j \in DOMAIN clients : j # k => after[j] = clients[j]
      BY DEF Put
    <2>4. after = [j \in DOMAIN after |-> after[j]]
      BY DEF Put
    <2> HIDE DEF after
    <2> QED
      BY <1>0, <2>1, <2>2, <2>3, <2>4 DEF RootTyped
  <1>5. Next => \/ UNCHANGED clients \/ reset \/ CreateClient
                \/ \E k : delete_client(k)
    <2>1. ClientNext => UNCHANGED clients
      BY DEF ClientNext, StartClient, CrashClient, Login, Logout, Ask, TimeOut, Hear, agent, rootVars
    <2>2. ProcessorNext => UNCHANGED clients \/ CreateClient \/ \E k : delete_client(k)
      BY DEF ProcessorNext, TakePacket, DestroyOther, EstablishSession, DestroySession, DeleteOther,
             DeleteClient, rootVars
    <2>3. NextClient \/ SendHeartbeat => UNCHANGED clients
      BY DEF NextClient, get_next_client, SendHeartbeat, rootVars
    <2>4. ResetAgent \/ RestartAgent => reset
      BY DEF ResetAgent, RestartAgent
    <2> QED
      BY <2>1, <2>2, <2>3, <2>4 DEF Next
  <1> QED
    BY <1>1, <1>2, <1>3, <1>4, <1>5 DEF vars, agent, rootVars

\* The session manager maps endpoints to keys and keys to endpoints.
LEMMA RegistersTypedStep == ASSUME AgentTyped, [Next]_vars PROVE SessionsTypeOK'
  <1>0. SessionsTypeOK
    BY AgentTypedIs
  <1>1. CASE UNCHANGED sessionVars
    BY <1>0, <1>1 DEF sessionVars, SessionsTypeOK
  <1>2. CASE RestartAgent
    BY <1>2 DEF RestartAgent, EmptyMap, SessionsTypeOK
  <1>3. job.step \in Steps => job.source \in Endpoints /\ job.key \in Keys
    BY JobIs, StepWorks DEF JobTyped
  <1>4. CASE DestroyOther
    BY <1>0, <1>3, <1>4, DestroyTypes DEF DestroyOther, Steps
  <1>5. CASE DestroySession
    BY <1>0, <1>3, <1>5, DestroyTypes DEF DestroySession, Steps
  <1>6. CASE EstablishSession
    BY <1>0, <1>3, <1>6, EstablishTypes DEF EstablishSession, Steps
  <1>7. Next => UNCHANGED sessionVars \/ RestartAgent \/ DestroyOther \/ DestroySession \/ EstablishSession
    <2>1. ClientNext => UNCHANGED sessionVars
      BY DEF ClientNext, StartClient, CrashClient, Login, Logout, Ask, TimeOut, Hear, agent
    <2>2. ProcessorNext => UNCHANGED sessionVars \/ DestroyOther \/ DestroySession \/ EstablishSession
      BY DEF ProcessorNext, TakePacket, DeleteOther, CreateClient, DeleteClient
    <2> QED
      BY <2>1, <2>2 DEF Next, NextClient, SendHeartbeat, ResetAgent
  <1> QED
    BY <1>1, <1>2, <1>4, <1>5, <1>6, <1>7 DEF vars, agent

\* The heartbeat thread has a client in hand, or nobody.
LEMMA BeatTypedStep == ASSUME AgentTyped, WalkStands, [Next]_vars PROVE BeatTyped'
  <1>0. BeatTyped
    BY AgentTypedIs
  <1>1. CASE beat' = beat \/ beat' = Nobody
    BY <1>0, <1>1 DEF BeatTyped
  <1>2. CASE NextClient
    BY <1>1, <1>2 DEF NextClient, BeatTyped, AgentTyped, WalkStands, Known
  <1>3. ClientNext => UNCHANGED beat
    BY DEF ClientNext, StartClient, CrashClient, Login, Logout, Ask, TimeOut, Hear, agent
  <1>4. ProcessorNext => UNCHANGED beat
    BY DEF ProcessorNext, TakePacket, DeleteOther, DestroyOther, CreateClient, EstablishSession,
           DeleteClient, DestroySession
  <1> QED
    BY <1>1, <1>2, <1>3, <1>4 DEF Next, SendHeartbeat, ResetAgent, RestartAgent, vars, agent

\* A packet is the client's whose key it carries, or of the client of its endpoint.
LEMMA ClientOfIs ==
    ASSUME SessionsTypeOK, NEW e \in Endpoints, NEW m \in AgentPackets
    PROVE  ClientOf(m, e) \in Keys \cup {0}
  BY DEF ClientOf, AgentPackets, SessionsTypeOK, HasClient

\* A packet that is taken leaves the processing thread idle, or at work for its key.
LEMMA TakeJob ==
    ASSUME LinesTyped, AgentTyped, NEW e \in Endpoints, TakePacket(e)
    PROVE  LET m == Head(to_agent[e])
           IN  \/ UNCHANGED job
               \/ /\ m.type = "CREATE_CLIENT"
                  /\ job' = At(IF HasClient(e) /\ endpoint_to_client[e] # m.key
                               THEN "delete other" ELSE "create", m, e, m.key)
               \/ /\ m.type = "DELETE" /\ Known(ClientOf(m, e))
                  /\ job' = At("delete", m, e, ClientOf(m, e))
  <1> DEFINE m == Head(to_agent[e])
  <1>1. m \in AgentPackets
    BY TakeLines
  <1> QED
    BY <1>1 DEF TakePacket, AgentPackets

\* The processing thread has nothing in hand, or a step of a request.
LEMMA JobsTypedStep == ASSUME LinesTyped, AgentTyped, [Next]_vars PROVE JobsTyped'
  <1>0. JobsTyped
    BY AgentTypedIs
  <1>1. CASE job' = job \/ job' = Nothing
    BY <1>0, <1>1 DEF JobsTyped, JobTyped
  <1>2. ASSUME NEW step \in Steps, job.step \in Steps, Go(step) PROVE JobsTyped'
    <2>1. JobTyped
      BY <1>2, JobIs, StepWorks
    <2>2. job' \in [step : Steps, source : Endpoints, key : Keys, packet : AgentPackets]
      BY <1>2, <2>1 DEF Go, JobTyped
    <2> QED
      BY <2>2 DEF JobsTyped, JobTyped
  <1>3. ASSUME NEW e \in Endpoints, TakePacket(e) PROVE JobsTyped'
    <2> DEFINE m == Head(to_agent[e])
    <2>1. m \in AgentPackets /\ m.key \in Keys
      BY <1>3, TakeLines DEF AgentPackets
    <2>2. Known(ClientOf(m, e)) => ClientOf(m, e) \in Keys
      BY DEF Known, AgentTyped
    <2>3. ASSUME NEW step \in Steps, NEW k \in Keys, job' = At(step, m, e, k) PROVE JobsTyped'
      BY <2>1, <2>3 DEF At, JobsTyped, JobTyped
    <2>4. {"delete other", "create", "delete"} \subseteq Steps
      BY DEF Steps
    <2> QED
      BY <1>1, <1>3, <2>1, <2>2, <2>3, <2>4, TakeJob
  <1>4. CASE DeleteOther \/ DestroyOther \/ CreateClient \/ EstablishSession \/ DeleteClient
               \/ DestroySession
    BY <1>1, <1>2, <1>4 DEF DeleteOther, DestroyOther, CreateClient, EstablishSession, DeleteClient,
       DestroySession, Steps
  <1>5. CASE ClientNext
    BY <1>1, <1>5 DEF ClientNext, StartClient, CrashClient, Login, Logout, Ask, TimeOut, Hear, agent
  <1>6. CASE NextClient \/ SendHeartbeat \/ ResetAgent \/ RestartAgent \/ UNCHANGED vars
    BY <1>1, <1>6 DEF NextClient, SendHeartbeat, ResetAgent, RestartAgent, vars, agent
  <1> QED
    BY <1>3, <1>4, <1>5, <1>6 DEF Next, ProcessorNext

\* Every step keeps the types.
LEMMA TypesStep == ASSUME TypesInv, WalkStands, [Next]_vars PROVE TypesInv'
  <1>1. ProgramsTyped' /\ LinesTyped'
    BY ProgramsStep, LinesStep DEF TypesInv
  <1>2. SessionsTypeOK' /\ RootTyped' /\ JobsTyped' /\ BeatTyped'
    BY RootTypedStep, RegistersTypedStep, BeatTypedStep, JobsTypedStep DEF TypesInv
  <1>3. AgentTyped'
    BY <1>2 DEF AgentTyped, RootTyped, JobsTyped, JobTyped, BeatTyped
  <1> QED
    BY <1>1, <1>3 DEF TypesInv

\* The heartbeat thread's iterator is never left standing on a client that was
\* deleted by the other thread, whatever the programs, the lines and the Agent do.
THEOREM WalkAlways == Spec => []WalkStands
  <1>1. Init => TypesInv /\ WalkStands
    BY TypesInit DEF Init, RootInit, WalkStands
  <1>2. TypesInv /\ WalkStands /\ [Next]_vars => TypesInv' /\ WalkStands'
    BY TypesStep, StandsStep DEF TypesInv
  <1> QED
    BY <1>1, <1>2, PTL DEF Spec

----------------------------------------------------------------------------
(* The registers *)

\* establish_session at an endpoint that is free or the client's own: the two
\* maps have the client there, and nobody else is touched.
EstablishedAt(e, k) ==
    /\ DOMAIN client_to_endpoint' = DOMAIN client_to_endpoint \cup {k}
    /\ client_to_endpoint'[k] = e
    /\ \A j \in DOMAIN client_to_endpoint : j # k => client_to_endpoint'[j] = client_to_endpoint[j]
    /\ e \in DOMAIN endpoint_to_client' /\ endpoint_to_client'[e] = k
    /\ \A d \in DOMAIN endpoint_to_client' :
          d # e => /\ d \in DOMAIN endpoint_to_client
                   /\ endpoint_to_client'[d] = endpoint_to_client[d]

\* establish_session joins a client and an endpoint, and parts each from whoever had it before.
LEMMA EstablishIs ==
    ASSUME Keyed = {}, MapsInStep, NEW e \in Endpoints, NEW k \in Keys, NEW sid,
           HasClient(e) => endpoint_to_client[e] = k, establish_session(e, k, sid)
    PROVE  MapsInStep' /\ EstablishedAt(e, k)
  <1> DEFINE rest == Forget(k)
  <1>1. /\ \A d \in DOMAIN rest : d \in DOMAIN endpoint_to_client /\ rest[d] = endpoint_to_client[d]
        /\ \A d \in DOMAIN endpoint_to_client : endpoint_to_client[d] # k => d \in DOMAIN rest
        /\ \A d \in DOMAIN rest : rest[d] # k
    <2>1. CASE HasEndpoint(k)
      <3> DEFINE d0 == client_to_endpoint[k]
      <3>1. /\ DOMAIN rest = DOMAIN endpoint_to_client \ {d0}
            /\ \A d \in DOMAIN endpoint_to_client \ {d0} : rest[d] = endpoint_to_client[d]
        BY <2>1 DEF Forget, Erase
      <3> HIDE DEF rest
      <3> QED
        BY <2>1, <3>1 DEF MapsInStep, HasEndpoint, HasClient
    <2>2. CASE ~HasEndpoint(k)
      <3>1. rest = endpoint_to_client
        BY <2>2 DEF Forget
      <3> HIDE DEF rest
      <3> QED
        BY <2>2, <3>1 DEF MapsInStep, HasEndpoint
    <2> QED
      BY <2>1, <2>2
  <1> HIDE DEF rest
  <1> DEFINE etc == Put(rest, e, k)
             cte == Put(client_to_endpoint, k, e)
  <1>2. /\ DOMAIN etc = DOMAIN rest \cup {e} /\ etc[e] = k
        /\ \A d \in DOMAIN rest : d # e => etc[d] = rest[d]
    BY DEF Put
  <1>3. /\ DOMAIN cte = DOMAIN client_to_endpoint \cup {k} /\ cte[k] = e
        /\ \A j \in DOMAIN client_to_endpoint : j # k => cte[j] = client_to_endpoint[j]
    BY DEF Put
  <1>4. endpoint_to_client' = etc /\ client_to_endpoint' = cte
    BY DEF establish_session, rest
  <1> HIDE DEF etc, cte
  <1>5. EstablishedAt(e, k)
    BY <1>1, <1>2, <1>3, <1>4 DEF EstablishedAt
  <1>6. ASSUME NEW d \in DOMAIN etc
        PROVE  etc[d] \in DOMAIN cte /\ cte[etc[d]] = d
    BY <1>1, <1>2, <1>3 DEF MapsInStep, HasEndpoint
  <1>7. ASSUME NEW j \in DOMAIN cte
        PROVE  cte[j] \in DOMAIN etc /\ etc[cte[j]] = j
    <2>1. CASE j = k
      BY <1>2, <1>3, <2>1
    <2>2. CASE j # k
      <3>1. /\ j \in DOMAIN client_to_endpoint /\ cte[j] = client_to_endpoint[j]
        BY <1>3, <2>2
      <3>2. /\ client_to_endpoint[j] \in DOMAIN endpoint_to_client
            /\ endpoint_to_client[client_to_endpoint[j]] = j
        BY <3>1 DEF MapsInStep, HasClient
      <3>3. client_to_endpoint[j] # e
        BY <2>2, <3>2 DEF HasClient
      <3> QED
        BY <1>1, <1>2, <2>2, <3>1, <3>2, <3>3
    <2> QED
      BY <2>1, <2>2
  <1>8. MapsInStep'
    BY <1>4, <1>6, <1>7 DEF MapsInStep, HasEndpoint, HasClient
  <1> QED
    BY <1>5, <1>8

\* destroy_session at an endpoint that has a client: both maps lose the two.
DestroyedAt(e) ==
    /\ DOMAIN endpoint_to_client' = DOMAIN endpoint_to_client \ {e}
    /\ \A d \in DOMAIN endpoint_to_client' : endpoint_to_client'[d] = endpoint_to_client[d]
    /\ DOMAIN client_to_endpoint' = DOMAIN client_to_endpoint \ {endpoint_to_client[e]}
    /\ \A j \in DOMAIN client_to_endpoint' : client_to_endpoint'[j] = client_to_endpoint[j]

\* destroy_session parts a client and its endpoint and touches no others.
LEMMA DestroyIs ==
    ASSUME MapsInStep, NEW e \in Endpoints, HasClient(e), destroy_session(e)
    PROVE  MapsInStep' /\ DestroyedAt(e)
  <1> DEFINE k == endpoint_to_client[e]
             etc == Erase(endpoint_to_client, e)
             cte == Erase(client_to_endpoint, k)
  <1>1. /\ DOMAIN etc = DOMAIN endpoint_to_client \ {e}
        /\ \A d \in DOMAIN etc : etc[d] = endpoint_to_client[d]
    BY DEF Erase
  <1>2. /\ DOMAIN cte = DOMAIN client_to_endpoint \ {k}
        /\ \A j \in DOMAIN cte : cte[j] = client_to_endpoint[j]
    BY DEF Erase
  <1>3. endpoint_to_client' = etc /\ client_to_endpoint' = cte
    BY DEF destroy_session
  <1> HIDE DEF etc, cte
  <1>4. DestroyedAt(e)
    BY <1>1, <1>2, <1>3 DEF DestroyedAt
  <1>5. \A d \in DOMAIN etc : etc[d] \in DOMAIN cte /\ cte[etc[d]] = d
    BY <1>1, <1>2 DEF MapsInStep, HasEndpoint, HasClient
  <1>6. \A j \in DOMAIN cte : cte[j] \in DOMAIN etc /\ etc[cte[j]] = j
    BY <1>1, <1>2 DEF MapsInStep, HasEndpoint, HasClient
  <1>7. MapsInStep'
    BY <1>3, <1>5, <1>6 DEF MapsInStep, HasEndpoint, HasClient
  <1> QED
    BY <1>4, <1>7

\* The session manager's answer for an endpoint without client is no client of Root.
LEMMA NobodyIsUnknown == ASSUME AgentTyped PROVE ~Known(0)
  BY KeysAssumption DEF AgentTyped, Known

\* What a job is at while it lasts.
LEMMA NothingIs == Nothing.step = "wait" /\ "wait" \notin Steps
  BY DEF Nothing, Steps

\* From one step of a request to the next only the step changes.
LEMMA GoIs ==
    ASSUME AgentTyped, job.step \in Steps, NEW step \in Steps, Go(step)
    PROVE  /\ job'.step = step /\ job'.source = job.source /\ job'.key = job.key
           /\ job'.packet = job.packet
  BY JobIs, StepWorks DEF Go, JobTyped

\* A packet that is taken changes no register.
LEMMA SoundTake ==
    ASSUME Keyed = {}, TypesInv, SoundInv, NEW e \in Endpoints, TakePacket(e)
    PROVE  SoundInv'
  <1> DEFINE m == Head(to_agent[e])
  <1>1. job = Nothing /\ UNCHANGED <<clients, endpoint_to_client, client_to_endpoint>>
    BY DEF TakePacket, rootVars, sessionVars
  <1>2. MapsInStep'
    BY <1>1 DEF SoundInv, MapsInStep, HasEndpoint, HasClient
  <1>3. DOMAIN clients \subseteq DOMAIN client_to_endpoint
    BY <1>1, NothingIs DEF SoundInv, ReachInv, Steps
  <1>4. ReachInv'
    BY <1>1, <1>3 DEF ReachInv
  <1>5. CASE UNCHANGED job
    BY <1>1, <1>2, <1>4, <1>5 DEF SoundInv, JobInv, Working
  <1>6. CASE /\ m.type = "CREATE_CLIENT"
             /\ job' = At(IF HasClient(e) /\ endpoint_to_client[e] # m.key
                          THEN "delete other" ELSE "create", m, e, m.key)
    BY <1>1, <1>2, <1>4, <1>6 DEF SoundInv, JobInv, At, HasClient
  <1>7. CASE m.type = "DELETE" /\ Known(ClientOf(m, e)) /\ job' = At("delete", m, e, ClientOf(m, e))
    <2>1. HasClient(e) /\ ClientOf(m, e) = endpoint_to_client[e]
      BY <1>7, NobodyIsUnknown DEF ClientOf, TypesInv
    <2>2. JobInv'
      BY <1>1, <1>7, <2>1 DEF JobInv, At, HasClient
    <2> QED
      BY <1>2, <1>4, <2>2 DEF SoundInv
  <1> QED
    BY <1>5, <1>6, <1>7, TakeJob DEF TypesInv

\* The client that had the endpoint leaves Root first ...
LEMMA SoundDeleteOther == ASSUME TypesInv, SoundInv, DeleteOther PROVE SoundInv'
  <1> DEFINE other == endpoint_to_client[job.source]
  <1>1. /\ job.step = "delete other" /\ UNCHANGED <<endpoint_to_client, client_to_endpoint>>
        /\ Go("destroy other")
    BY DEF DeleteOther, sessionVars
  <1>2. /\ job'.step = "destroy other" /\ job'.source = job.source /\ job'.key = job.key
        /\ job'.packet = job.packet
    BY <1>1, GoIs DEF TypesInv, Steps
  <1>3. DOMAIN clients' = DOMAIN clients \ {other}
    <2>1. CASE Known(other)
      <3>1. clients' = Erase(clients, other)
        BY <2>1 DEF DeleteOther, delete_client
      <3> QED
        BY <3>1, EraseIs
    <2>2. CASE ~Known(other)
      <3>1. UNCHANGED rootVars
        BY <2>2 DEF DeleteOther
      <3> QED
        BY <2>2, <3>1 DEF rootVars, Known
    <2> QED
      BY <2>1, <2>2
  <1>4. JobInv'
    BY <1>1, <1>2, <1>3, StepWorks DEF SoundInv, JobInv, Steps, Known, HasClient
  <1>5. ReachInv'
    BY <1>1, <1>3 DEF SoundInv, ReachInv
  <1> QED
    BY <1>1, <1>4, <1>5 DEF SoundInv, MapsInStep, HasEndpoint, HasClient

\* ... and then the session manager.
LEMMA SoundDestroyOther == ASSUME TypesInv, SoundInv, DestroyOther PROVE SoundInv'
  <1>1. /\ job.step = "destroy other" /\ UNCHANGED clients /\ destroy_session(job.source)
        /\ Go("create")
    BY DEF DestroyOther, rootVars
  <1>2. /\ job'.step = "create" /\ job'.source = job.source /\ job'.key = job.key
        /\ job'.packet = job.packet
    BY <1>1, GoIs DEF TypesInv, Steps
  <1>3. /\ job.source \in Endpoints /\ HasClient(job.source)
        /\ ~Known(endpoint_to_client[job.source])
        /\ job.packet.type = "CREATE_CLIENT" /\ job.key = job.packet.key
    BY <1>1, JobIs, StepWorks DEF TypesInv, JobTyped, SoundInv, JobInv, Steps
  <1>4. MapsInStep' /\ DestroyedAt(job.source)
    BY <1>1, <1>3, DestroyIs DEF SoundInv
  <1>5. JobInv'
    BY <1>2, <1>3, <1>4 DEF JobInv, DestroyedAt, HasClient
  <1>6. ReachInv'
    BY <1>1, <1>3, <1>4 DEF SoundInv, ReachInv, DestroyedAt, Known
  <1> QED
    BY <1>4, <1>5, <1>6 DEF SoundInv

\* create_client: the client is in Root and not at an endpoint yet.
LEMMA SoundCreate == ASSUME TypesInv, SoundInv, CreateClient PROVE SoundInv'
  <1>1. job.step = "create" /\ UNCHANGED <<endpoint_to_client, client_to_endpoint>>
    BY DEF CreateClient, sessionVars
  <1>2. MapsInStep'
    BY <1>1 DEF SoundInv, MapsInStep, HasEndpoint, HasClient
  <1>3. CASE job' = Nothing /\ UNCHANGED rootVars
    BY <1>1, <1>2, <1>3 DEF SoundInv, JobInv, ReachInv, Working, rootVars
  <1>4. CASE create_client(job.key, job.packet.session_id, job.packet.login) /\ Go("establish")
    <2>1. /\ job'.step = "establish" /\ job'.source = job.source /\ job'.key = job.key
          /\ job'.packet = job.packet
      BY <1>1, <1>4, GoIs DEF TypesInv, Steps
    <2>2. DOMAIN clients' = DOMAIN clients \cup {job.key}
      BY <1>4, PutIs, ZenonT(60) DEF create_client
    <2>3. JobInv'
      BY <1>1, <2>1, StepWorks DEF SoundInv, JobInv, Steps, HasClient
    <2>4. ReachInv'
      BY <1>1, <2>1, <2>2 DEF SoundInv, ReachInv
    <2> QED
      BY <1>2, <2>3, <2>4 DEF SoundInv
  <1> QED
    BY <1>3, <1>4 DEF CreateClient

\* establish_session: the two maps become inverse again.
LEMMA SoundEstablish == ASSUME Keyed = {}, TypesInv, SoundInv, EstablishSession PROVE SoundInv'
  <1>1. /\ job.step = "establish" /\ UNCHANGED clients /\ job' = Nothing
        /\ establish_session(job.source, job.key, job.packet.session_id)
    BY DEF EstablishSession, rootVars
  <1>2. /\ job.source \in Endpoints /\ job.key \in Keys
        /\ HasClient(job.source) => endpoint_to_client[job.source] = job.key
    BY <1>1, JobIs, StepWorks DEF TypesInv, JobTyped, SoundInv, JobInv, Steps
  <1>3. MapsInStep' /\ EstablishedAt(job.source, job.key)
    BY <1>1, <1>2, EstablishIs DEF SoundInv
  <1>4. ReachInv'
    BY <1>1, <1>3 DEF SoundInv, ReachInv, EstablishedAt
  <1> QED
    BY <1>1, <1>3, <1>4 DEF SoundInv, JobInv, Working

\* delete_client: the client is at an endpoint and not in Root any more.
LEMMA SoundDelete == ASSUME TypesInv, SoundInv, DeleteClient PROVE SoundInv'
  <1>1. job.step = "delete" /\ UNCHANGED <<endpoint_to_client, client_to_endpoint>>
    BY DEF DeleteClient, sessionVars
  <1>2. MapsInStep'
    BY <1>1 DEF SoundInv, MapsInStep, HasEndpoint, HasClient
  <1>3. CASE job' = Nothing /\ UNCHANGED rootVars
    BY <1>1, <1>2, <1>3 DEF SoundInv, JobInv, ReachInv, Working, rootVars
  <1>4. CASE delete_client(job.key) /\ Go("destroy")
    <2>1. /\ job'.step = "destroy" /\ job'.source = job.source /\ job'.key = job.key
          /\ job'.packet = job.packet
      BY <1>1, <1>4, GoIs DEF TypesInv, Steps
    <2>2. DOMAIN clients' = DOMAIN clients \ {job.key}
      BY <1>4, EraseIs DEF delete_client
    <2>3. JobInv'
      BY <1>1, <2>1, <2>2, StepWorks DEF SoundInv, JobInv, Steps, HasClient, Known
    <2>4. ReachInv'
      BY <1>1, <2>1, <2>2 DEF SoundInv, ReachInv
    <2> QED
      BY <1>2, <2>3, <2>4 DEF SoundInv
  <1> QED
    BY <1>3, <1>4 DEF DeleteClient

\* destroy_session: it is in none.
LEMMA SoundDestroy == ASSUME TypesInv, SoundInv, DestroySession PROVE SoundInv'
  <1>1. /\ job.step = "destroy" /\ UNCHANGED clients /\ destroy_session(job.source)
        /\ job' = Nothing
    BY DEF DestroySession, rootVars
  <1>2. /\ job.source \in Endpoints /\ HasClient(job.source)
        /\ ~Known(endpoint_to_client[job.source])
    BY <1>1, JobIs, StepWorks DEF TypesInv, JobTyped, SoundInv, JobInv, Steps
  <1>3. MapsInStep' /\ DestroyedAt(job.source)
    BY <1>1, <1>2, DestroyIs DEF SoundInv
  <1>4. ReachInv'
    BY <1>1, <1>2, <1>3 DEF SoundInv, ReachInv, DestroyedAt, Known
  <1> QED
    BY <1>1, <1>3, <1>4 DEF SoundInv, JobInv, Working

\* Every step keeps the registers in step, but for the client in hand.
LEMMA SoundStep == ASSUME Keyed = {}, TypesInv, SoundInv, [Next]_vars PROVE SoundInv'
  <1>1. CASE UNCHANGED <<clients, endpoint_to_client, client_to_endpoint, job>>
    BY <1>1 DEF SoundInv, MapsInStep, JobInv, ReachInv, Working, Known, HasEndpoint, HasClient
  <1>2. CASE ResetAgent
    <2>1. /\ clients' = EmptyMap /\ UNCHANGED <<endpoint_to_client, client_to_endpoint, job>>
      BY <1>2 DEF ResetAgent, reset, sessionVars
    <2>2. DOMAIN clients' = {}
      BY <2>1 DEF EmptyMap
    <2> QED
      BY <2>1, <2>2 DEF SoundInv, MapsInStep, JobInv, ReachInv, Working, Known, HasEndpoint, HasClient
  <1>3. CASE RestartAgent
    <2>1. /\ DOMAIN clients' = {} /\ DOMAIN endpoint_to_client' = {} /\ DOMAIN client_to_endpoint' = {}
          /\ job' = Nothing
      BY <1>3 DEF RestartAgent, reset, EmptyMap
    <2> QED
      BY <2>1 DEF SoundInv, MapsInStep, JobInv, ReachInv, Working
  <1>4. ClientNext \/ NextClient \/ SendHeartbeat \/ UNCHANGED vars =>
            UNCHANGED <<clients, endpoint_to_client, client_to_endpoint, job>>
    BY DEF ClientNext, StartClient, CrashClient, Login, Logout, Ask, TimeOut, Hear, NextClient,
           get_next_client, SendHeartbeat, vars, agent, rootVars, sessionVars
  <1> QED
    BY <1>1, <1>2, <1>3, <1>4, SoundTake, SoundDeleteOther, SoundDestroyOther, SoundCreate,
       SoundEstablish, SoundDelete, SoundDestroy
    DEF Next, ProcessorNext

\* Empty registers agree.
LEMMA SoundInit == Init => SoundInv
  BY DEF Init, RootInit, SessionsInit, EmptyMap, SoundInv, MapsInStep, JobInv, ReachInv, Working,
         HasClient, HasEndpoint

\* If the session ids are 128 or above (below, messages carry the client's key
\* and the SessionManager does not map the endpoint), its two maps agree with
\* each other between any two steps, and every client the Root holds can be
\* sent to between any two packets: for any number of clients and endpoints,
\* whatever packets are lost, and whenever the Agent is reset.
THEOREM RegistersAlways == ASSUME Keyed = {} PROVE Spec => []RegistersSound
  <1>1. Init => TypesInv /\ WalkStands /\ SoundInv
    BY TypesInit, SoundInit DEF Init, RootInit, WalkStands
  <1>2. TypesInv /\ WalkStands /\ SoundInv /\ [Next]_vars => (TypesInv /\ WalkStands /\ SoundInv)'
    BY TypesStep, StandsStep, SoundStep DEF TypesInv
  <1>3. TypesInv /\ SoundInv => RegistersSound
    BY TypesGiven, NothingIs DEF SoundInv, ReachInv, RegistersSound, RegisteredIsReached, Steps
  <1> QED
    BY <1>1, <1>2, <1>3, PTL DEF Spec

----------------------------------------------------------------------------
(* The logins: the Agent's steps *)

\* The Agent sends nothing to itself: what it has to do only gets less.
PendingShrinks == \A e \in Endpoints : Pending(e)' \subseteq Pending(e)

\* A packet that is taken stays the thread's until it is dealt with: nothing is added to what is
\* pending.
LEMMA TakeShrinks ==
    ASSUME LinesTyped, AgentTyped, NEW e \in Endpoints, TakePacket(e)
    PROVE  PendingShrinks
  <1>1. /\ Head(to_agent[e]) \in OnLine(e) /\ job = Nothing
        /\ \A d \in Endpoints : OnLine(d)' \subseteq OnLine(d)
    BY TakeLines DEF TakePacket
  <1>2. \/ job' = Nothing
        \/ job'.source = e /\ job'.packet = Head(to_agent[e])
    <2> DEFINE m == Head(to_agent[e])
    <2>1. \/ UNCHANGED job
          \/ \E step, k : job' = At(step, m, e, k)
      BY TakeJob
    <2>2. \A step, k : At(step, m, e, k).source = e /\ At(step, m, e, k).packet = m
      BY DEF At
    <2> QED
      BY <1>1, <2>1, <2>2
  <1> QED
    BY <1>1, <1>2 DEF PendingShrinks, Pending, Working

\* Working at a request adds nothing to what is pending.
LEMMA WorkShrinks ==
    ASSUME AgentTyped, UNCHANGED to_agent,
           \/ UNCHANGED job
           \/ job' = Nothing
           \/ job.step \in Steps /\ \E step \in Steps : Go(step)
    PROVE  PendingShrinks
  <1>1. \A e \in Endpoints : OnLine(e)' = OnLine(e)
    BY DEF OnLine
  <1>2. CASE UNCHANGED job
    BY <1>1, <1>2 DEF PendingShrinks, Pending, Working
  <1>3. CASE job' = Nothing
    BY <1>1, <1>3 DEF PendingShrinks, Pending, Working
  <1>4. CASE job.step \in Steps /\ \E step \in Steps : Go(step)
    <2>1. job'.source = job.source /\ job'.packet = job.packet /\ Working
      BY <1>4, GoIs, StepWorks
    <2> QED
      BY <1>1, <2>1 DEF PendingShrinks, Pending
  <1> QED
    BY <1>2, <1>3, <1>4

\* Where a step may have answered OK to a login, and to anything.
GrantsAt(E) == \A d \in Endpoints : Granted(d)' => Granted(d) \/ d \in E

ConfirmsAt(E) == \A d \in Endpoints : Confirmed(d)' => Confirmed(d) \/ d \in E

\* Without an answer nobody is granted or confirmed anything.
LEMMA SilentGrants == ASSUME UNCHANGED to_client PROVE GrantsAt({}) /\ ConfirmsAt({})
  BY DEF GrantsAt, ConfirmsAt, Granted, Confirmed, Replies

\* An answer grants or confirms at its endpoint only, and only if it says OK.
LEMMA ReplyGrants ==
    ASSUME NEW e \in Endpoints, NEW r \in ClientPackets, ToClient(e, r)
    PROVE  /\ GrantsAt({e}) /\ ConfirmsAt({e})
           /\ (r.type = "STATUS_AGENT" => r.status # "OK") => GrantsAt({})
           /\ (r.type # "HEARTBEAT" => r.status # "OK") => ConfirmsAt({})
  <1>1. \A d \in Endpoints : \A q : q \in Replies(d)' => q \in Replies(d) \/ (d = e /\ q = r)
    BY DEF ToClient
  <1>2. GrantsAt({e}) /\ ((r.type = "STATUS_AGENT" => r.status # "OK") => GrantsAt({}))
    BY <1>1 DEF GrantsAt, Granted
  <1>3. ConfirmsAt({e}) /\ ((r.type # "HEARTBEAT" => r.status # "OK") => ConfirmsAt({}))
    BY <1>1 DEF ConfirmsAt, Confirmed
  <1> QED
    BY <1>2, <1>3

\* What an Agent's step leaves as it is.
LEMMA AgentKeeps ==
    ASSUME LoginInv, UNCHANGED session, PendingShrinks
    PROVE  /\ NumbersInv' /\ UseInv' /\ KindsInv'
           /\ \A E : GrantsAt(E) => \A e \in Endpoints, k \in Keys :
                 Entered(e, k)' => \/ Entered(e, k)
                                   \/ e \in E /\ session[k].phase = "login" /\ Place(k) = e
  <1>1. NumbersInv'
    BY DEF LoginInv, NumbersInv, PendingShrinks
  <1>2. \A e \in Endpoints, k \in Keys : Uses(e, k)' => Uses(e, k)
    BY DEF PendingShrinks, Uses, Runs, Place
  <1>3. \A j, k \in Keys : Running(j) /\ Running(k) /\ Place(j) = Place(k) => j = k
    BY DEF LoginInv, UseInv
  <1>4. UseInv'
    <2>1. \A j, k \in Keys : Running(j)' /\ Running(k)' /\ Place(j)' = Place(k)' => j = k
      BY <1>3 DEF Running, Place
    <2>2. \A e, d \in Endpoints, j, k \in Keys : Uses(e, j)' /\ Uses(d, k)' => (e = d <=> j = k)
      BY <1>2 DEF LoginInv, UseInv
    <2> QED
      BY <2>1, <2>2 DEF UseInv
  <1>5. KindsInv'
    BY DEF LoginInv, KindsInv, PendingShrinks
  <1>6. ASSUME NEW E, GrantsAt(E), NEW e \in Endpoints, NEW k \in Keys, Entered(e, k)'
        PROVE  Entered(e, k) \/ (e \in E /\ session[k].phase = "login" /\ Place(k) = e)
    BY <1>6 DEF GrantsAt, PendingShrinks, Entered, Place
  <1> QED
    BY <1>1, <1>4, <1>5, <1>6

\* Whoever runs where the Agent has something to do is whom it is from.
LEMMA EnteredUses ==
    ASSUME NEW e \in Endpoints, NEW k \in Keys, Entered(e, k)
    PROVE  Uses(e, k)
  BY DEF Entered, Uses, Runs, InSession

\* While a request is dealt with, nobody else uses its endpoint, and its client no other.
LEMMA JobOf ==
    ASSUME TypesInv, SoundInv, LoginInv, job.step \in Steps
    PROVE  /\ job.source \in Endpoints /\ job.key \in Keys /\ job.packet.key = job.key
           /\ job.packet \in Pending(job.source) /\ Uses(job.source, job.key)
           /\ \A k \in Keys, e \in Endpoints : Uses(e, k) => (e = job.source <=> k = job.key)
  <1>1. /\ Working /\ job.source \in Endpoints /\ job.key \in Keys /\ job.packet.key \in Keys
    BY JobIs, StepWorks DEF TypesInv, JobTyped, AgentPackets
  <1>2. job.packet \in Pending(job.source) /\ Uses(job.source, job.packet.key)
    BY <1>1 DEF Pending, Uses
  <1>3. job.packet.key = job.key
    <2>1. CASE job.step \in {"delete", "destroy"}
      <3>1. /\ job.packet.type = "DELETE" /\ HasClient(job.source)
            /\ endpoint_to_client[job.source] = job.key
        BY <1>1, <2>1 DEF SoundInv, JobInv
      <3>2. Entered(job.source, job.packet.key)
        BY <1>2, <3>1 DEF Entered
      <3> QED
        BY <1>1, <3>1, <3>2 DEF LoginInv, SettledInv, Settled
    <2>2. CASE job.step \notin {"delete", "destroy"}
      BY <1>1, <2>2 DEF SoundInv, JobInv, Steps
    <2> QED
      BY <2>1, <2>2
  <1> QED
    BY <1>1, <1>2, <1>3 DEF LoginInv, UseInv

\* What is left to show of an Agent's step.
RestInv == EstablishInv /\ SettledInv /\ KnownInv /\ GoneInv

\* Who was told to be in or out has entered its endpoint.
LEMMA ToldIs ==
    ASSUME ProgramsTyped, NEW k \in Keys, ToldIn(k) \/ ToldOut(k)
    PROVE  /\ Place(k) \in Endpoints /\ Entered(Place(k), k) /\ Uses(Place(k), k)
  <1>1. /\ session[k].phase \in {"login", "open", "logout", "closed"}
        /\ session[k].phase = "login" => Granted(Place(k))
    BY DEF ToldIn, ToldOut
  <1>2. Place(k) \in Endpoints
    BY <1>1 DEF ProgramsTyped, Running, Place
  <1>3. Entered(Place(k), k)
    BY <1>1 DEF Entered
  <1> QED
    BY <1>2, <1>3, EnteredUses

\* Whom the Agent answers now was told nothing before.
LEMMA ToldStep ==
    ASSUME UNCHANGED session, NEW E, NEW k \in Keys
    PROVE  /\ GrantsAt(E) /\ Place(k) \in Endpoints /\ ToldIn(k)' =>
                 ToldIn(k) \/ (Place(k) \in E /\ session[k].phase = "login")
           /\ ConfirmsAt(E) /\ Place(k) \in Endpoints /\ ToldOut(k)' =>
                 ToldOut(k) \/ (Place(k) \in E /\ session[k].phase = "logout")
  <1>1. session'[k] = session[k] /\ Place(k)' = Place(k)
    BY DEF Place
  <1>2. PICK p : p = Place(k)
    OBVIOUS
  <1>3. ToldIn(k)' <=> session[k].phase = "open" \/ (session[k].phase = "login" /\ Granted(p)')
    BY <1>1, <1>2 DEF ToldIn, Granted, Replies
  <1>4. ToldOut(k)' <=> session[k].phase = "closed" \/ (session[k].phase = "logout" /\ Confirmed(p)')
    BY <1>1, <1>2 DEF ToldOut, Confirmed, Replies
  <1>5. GrantsAt(E) /\ p \in Endpoints => (Granted(p)' => Granted(p) \/ p \in E)
    BY DEF GrantsAt
  <1>6. ConfirmsAt(E) /\ p \in Endpoints => (Confirmed(p)' => Confirmed(p) \/ p \in E)
    BY DEF ConfirmsAt
  <1> QED
    BY <1>2, <1>3, <1>4, <1>5, <1>6 DEF ToldIn, ToldOut

\* Told or not, its place is an endpoint.
LEMMA ToldPlace ==
    ASSUME ProgramsTyped, UNCHANGED session, NEW k \in Keys, ToldIn(k)' \/ ToldOut(k)'
    PROVE  /\ Place(k) \in Endpoints
           /\ session[k].phase \in {"login", "open", "logout", "closed"}
           /\ Uses(Place(k), k)
  <1>1. session[k].phase \in {"login", "open", "logout", "closed"}
    BY DEF ToldIn, ToldOut
  <1> QED
    BY <1>1 DEF ProgramsTyped, Running, Place, Uses, Runs, InSession

\* Nobody enters without an answer.
LEMMA SettledStays ==
    ASSUME LoginInv, UNCHANGED session, PendingShrinks, GrantsAt({}),
           \A e \in Endpoints, k \in Keys : Settled(e, k) => Settled(e, k)'
    PROVE  SettledInv'
  <1>1. \A e \in Endpoints, k \in Keys : Entered(e, k)' => Entered(e, k)
    BY AgentKeeps
  <1>2. \A e \in Endpoints, k \in Keys : Entered(e, k) => Settled(e, k)
    BY DEF LoginInv, SettledInv
  <1>3. \A e \in Endpoints, k \in Keys : Entered(e, k)' => Settled(e, k)'
    BY <1>1, <1>2
  <1> QED
    BY <1>3 DEF SettledInv

\* A step that tells nobody, and changes no register, changes nothing.
LEMMA RestQuiet ==
    ASSUME TypesInv, LoginInv, UNCHANGED <<session, spared, clients, endpoint_to_client, client_to_endpoint>>,
           PendingShrinks, GrantsAt({}), ConfirmsAt({}),
           job'.step = "establish" => UNCHANGED job
    PROVE  RestInv'
  <1>1. EstablishInv'
    BY DEF LoginInv, EstablishInv, Known
  <1>2. \A e \in Endpoints, k \in Keys : Settled(e, k)' <=> Settled(e, k)
    BY DEF Settled, HasClient, HasEndpoint, Known
  <1>3. \A e \in Endpoints, k \in Keys : Entered(e, k)' => Entered(e, k)
    BY AgentKeeps
  <1>4. SettledInv'
    BY <1>2, <1>3 DEF LoginInv, SettledInv
  <1>5. ASSUME NEW k \in Keys
        PROVE  /\ ToldIn(k)' => ToldIn(k) /\ (Registered(k) <=> Registered(k)')
               /\ ToldOut(k)' => ToldOut(k) /\ (Known(k) <=> Known(k)')
    BY ToldPlace, ToldStep DEF TypesInv, Registered, Known, HasEndpoint, Place
  <1>6. KnownInv' /\ GoneInv'
    BY <1>5 DEF LoginInv, KnownInv, GoneInv
  <1> QED
    BY <1>1, <1>4, <1>6 DEF RestInv

\* A DELETE is answered OK at once if the Agent does not know the client of its
\* endpoint: the client that hears it is not known.
LEMMA RestTake ==
    ASSUME Keyed = {}, TypesInv, SoundInv, LoginInv, NEW e \in Endpoints, TakePacket(e)
    PROVE  RestInv'
  <1> DEFINE m == Head(to_agent[e])
  <1>1. /\ PendingShrinks /\ job = Nothing
        /\ UNCHANGED <<session, spared, clients, endpoint_to_client, client_to_endpoint>>
    BY TakeShrinks DEF TakePacket, TypesInv, rootVars, sessionVars
  <1>2. job'.step = "establish" => UNCHANGED job
    <2>1. \/ UNCHANGED job
          \/ \E k : \E step \in {"delete other", "create", "delete"} : job' = At(step, m, e, k)
      BY TakeJob DEF TypesInv
    <2>2. \A step, k : At(step, m, e, k).step = step
      BY DEF At
    <2> QED
      BY <2>1, <2>2
  <1>3. CASE UNCHANGED to_client
    BY <1>1, <1>2, <1>3, SilentGrants, RestQuiet
  <1>4. CASE /\ m.type = "DELETE" /\ ~Known(ClientOf(m, e))
             /\ \E r \in ClientPackets : r.type = "STATUS" /\ r.status = "OK" /\ ToClient(e, r)
    <2>1. GrantsAt({}) /\ ConfirmsAt({e})
      BY <1>4, ReplyGrants
    <2>2. m \in AgentPackets /\ m \in Pending(e)
      BY TakeLines DEF TypesInv, Pending
    <2>3. EstablishInv'
      BY <1>1, <1>2 DEF LoginInv, EstablishInv, Known
    <2>4. SettledInv'
      BY <1>1, <2>1, AgentKeeps DEF LoginInv, SettledInv, Settled, HasClient, HasEndpoint, Known
    <2>5. KnownInv'
      BY <1>1, <2>1, ToldPlace, ToldStep
      DEF TypesInv, LoginInv, KnownInv, Registered, Known, HasEndpoint, Place
    <2>6. ASSUME NEW k \in Keys, session[k].phase = "logout", Place(k) = e, Known(k) PROVE FALSE
      <3>1. Entered(e, k)
        BY <2>6 DEF Entered
      <3>2. HasEndpoint(k) /\ client_to_endpoint[k] = e
        BY <1>1, <2>6, <3>1, NothingIs
        DEF SoundInv, ReachInv, Known, HasEndpoint, Steps, LoginInv, SettledInv, Settled
      <3>3. HasClient(e) /\ endpoint_to_client[e] = k
        BY <3>2 DEF SoundInv, MapsInStep, HasEndpoint
      <3> QED
        BY <1>4, <2>6, <3>3 DEF ClientOf
    <2>7. GoneInv'
      <3>1. ASSUME NEW k \in Keys, ToldOut(k)' PROVE ~Known(k)
        BY <1>1, <2>1, <2>6, <3>1, ToldPlace, ToldStep DEF TypesInv, LoginInv, GoneInv
      <3> QED
        BY <1>1, <3>1 DEF GoneInv, Known
    <2> QED
      BY <2>3, <2>4, <2>5, <2>7 DEF RestInv
  <1> QED
    BY <1>3, <1>4, TakeReplies DEF TypesInv

\* The client that loses its endpoint to another is not one that was told it is in.
LEMMA RestDeleteOther == ASSUME TypesInv, SoundInv, LoginInv, DeleteOther PROVE RestInv'
  <1> DEFINE other == endpoint_to_client[job.source]
  <1>1. /\ job.step = "delete other" /\ Go("destroy other")
        /\ UNCHANGED <<session, spared, endpoint_to_client, client_to_endpoint, to_agent, to_client>>
    BY DEF DeleteOther, sessionVars, lines
  <1>2. job.step \in Steps /\ "destroy other" \in Steps /\ job'.step = "destroy other"
    BY <1>1, GoIs DEF TypesInv, Steps
  <1>3. PendingShrinks /\ GrantsAt({}) /\ ConfirmsAt({})
    BY <1>1, <1>2, WorkShrinks, SilentGrants DEF TypesInv
  <1>4. /\ DOMAIN clients' = DOMAIN clients \ {other}
        /\ \A k \in DOMAIN clients \ {other} : clients'[k] = clients[k]
    <2>1. CASE Known(other)
      <3>1. clients' = Erase(clients, other)
        BY <2>1 DEF DeleteOther, delete_client
      <3> QED
        BY <3>1, EraseIs, ZenonT(60)
    <2>2. CASE ~Known(other)
      <3>1. UNCHANGED rootVars
        BY <2>2 DEF DeleteOther
      <3> QED
        BY <2>2, <3>1 DEF rootVars, Known
    <2> QED
      BY <2>1, <2>2
  <1>5. HasClient(job.source) /\ other # job.key
    BY <1>1, <1>2, StepWorks DEF SoundInv, JobInv
  <1>6. EstablishInv'
    BY <1>2 DEF EstablishInv
  <1>7. SettledInv'
    <2>1. \A e \in Endpoints, k \in Keys : Settled(e, k) => Settled(e, k)'
      BY <1>1, <1>4 DEF Settled, HasClient, HasEndpoint, Known
    <2> QED
      BY <1>1, <1>3, <2>1, SettledStays
  <1>8. ASSUME NEW k \in Keys, ToldIn(k), Registered(k) PROVE k # other
    <2>1. Place(k) \in Endpoints /\ Uses(Place(k), k)
      BY <1>8, ToldIs DEF TypesInv
    <2>2. k = other => Place(k) = job.source
      BY <1>5, <1>8 DEF Registered, SoundInv, MapsInStep, HasClient
    <2> QED
      BY <1>2, <1>5, <2>1, <2>2, JobOf
  <1>9. KnownInv'
    <2>1. ASSUME NEW k \in Keys \cap spared, ToldIn(k)' PROVE Registered(k)'
      <3>1. ToldIn(k) /\ Registered(k) /\ k # other
        BY <1>1, <1>3, <1>8, <2>1, ToldPlace, ToldStep DEF TypesInv, LoginInv, KnownInv
      <3> QED
        BY <1>1, <1>4, <3>1 DEF Registered, Known, HasEndpoint, Place
    <2> QED
      BY <1>1, <2>1 DEF KnownInv
  <1>10. GoneInv'
    <2>1. ASSUME NEW k \in Keys, ToldOut(k)' PROVE ~Known(k)
      BY <1>1, <1>3, <2>1, ToldPlace, ToldStep DEF TypesInv, LoginInv, GoneInv
    <2> QED
      BY <1>4, <2>1 DEF GoneInv, Known
  <1> QED
    BY <1>6, <1>7, <1>9, <1>10 DEF RestInv

\* Sending away the client that had the endpoint changes nothing for those who were told.
LEMMA RestDestroyOther == ASSUME TypesInv, SoundInv, LoginInv, DestroyOther PROVE RestInv'
  <1>1. /\ job.step = "destroy other" /\ Go("create") /\ destroy_session(job.source)
        /\ UNCHANGED <<session, spared, clients, to_agent, to_client>>
    BY DEF DestroyOther, rootVars, lines
  <1>2. job.step \in Steps /\ "create" \in Steps /\ job'.step = "create"
    BY <1>1, GoIs DEF TypesInv, Steps
  <1>3. PendingShrinks /\ GrantsAt({}) /\ ConfirmsAt({})
    BY <1>1, <1>2, WorkShrinks, SilentGrants DEF TypesInv
  <1>4. HasClient(job.source) /\ ~Known(endpoint_to_client[job.source])
    BY <1>1, <1>2, StepWorks DEF SoundInv, JobInv
  <1>5. DestroyedAt(job.source)
    BY <1>1, <1>2, <1>4, DestroyIs, JobOf DEF SoundInv
  <1>6. EstablishInv'
    BY <1>2 DEF EstablishInv
  <1>7. SettledInv'
    <2>1. \A e \in Endpoints, k \in Keys : Settled(e, k) => Settled(e, k)'
      BY <1>1, <1>5 DEF Settled, DestroyedAt, HasClient, HasEndpoint, Known
    <2> QED
      BY <1>1, <1>3, <2>1, SettledStays
  <1>8. KnownInv'
    <2>1. ASSUME NEW k \in Keys \cap spared, ToldIn(k)' PROVE Registered(k)'
      <3>1. ToldIn(k) /\ Registered(k)
        BY <1>1, <1>3, <2>1, ToldPlace, ToldStep DEF TypesInv, LoginInv, KnownInv
      <3> QED
        BY <1>1, <1>4, <1>5, <3>1 DEF Registered, DestroyedAt, Known, HasEndpoint, Place
    <2> QED
      BY <1>1, <2>1 DEF KnownInv
  <1>9. GoneInv'
    <2>1. ASSUME NEW k \in Keys, ToldOut(k)' PROVE ~Known(k)
      BY <1>1, <1>3, <2>1, ToldPlace, ToldStep DEF TypesInv, LoginInv, GoneInv
    <2> QED
      BY <1>1, <2>1 DEF GoneInv, Known
  <1> QED
    BY <1>6, <1>7, <1>8, <1>9 DEF RestInv

\* What an answer of the processing thread grants and confirms.
LEMMA AnswerGrants ==
    ASSUME AgentTyped, job.step \in Steps, NEW type \in {"STATUS", "STATUS_AGENT"}, NEW status,
           Answered(type, status)
    PROVE  /\ GrantsAt({job.source}) /\ ConfirmsAt({job.source})
           /\ type = "STATUS" => GrantsAt({})
           /\ status # "OK" => GrantsAt({}) /\ ConfirmsAt({})
  <1>1. job.source \in Endpoints
    BY JobIs, StepWorks DEF JobTyped
  <1> PICK r \in ClientPackets : r.type = type /\ r.status = status /\ ToClient(job.source, r)
    BY DEF Answered
  <1> QED
    BY <1>1, ReplyGrants

\* The client that is created has not been told that it is out.
LEMMA RestCreate == ASSUME TypesInv, SoundInv, LoginInv, CreateClient PROVE RestInv'
  <1>1. /\ job.step = "create"
        /\ UNCHANGED <<session, spared, endpoint_to_client, client_to_endpoint, to_agent>>
    BY DEF CreateClient, sessionVars
  <1>2. job.step \in Steps /\ "establish" \in Steps
    BY <1>1 DEF Steps
  <1>3. CASE /\ Reply(job.source, job.packet, "STATUS_AGENT", "ERR_INCOMPATIBLE")
             /\ job' = Nothing /\ UNCHANGED rootVars
    <2>1. Answered("STATUS_AGENT", "ERR_INCOMPATIBLE")
      BY <1>2, <1>3, AnswerLines DEF TypesInv, LinesTyped
    <2>2. GrantsAt({}) /\ ConfirmsAt({})
      BY <1>2, <2>1, AnswerGrants DEF TypesInv
    <2>3. PendingShrinks
      BY <1>1, <1>3, WorkShrinks DEF TypesInv
    <2> QED
      BY <1>1, <1>3, <2>2, <2>3, RestQuiet, NothingIs DEF rootVars, Steps
  <1>4. CASE /\ create_client(job.key, job.packet.session_id, job.packet.login)
             /\ Go("establish") /\ UNCHANGED to_client
    <2>1. /\ job'.step = "establish" /\ job'.key = job.key
          /\ PendingShrinks /\ GrantsAt({}) /\ ConfirmsAt({})
      BY <1>1, <1>2, <1>4, GoIs, WorkShrinks, SilentGrants DEF TypesInv
    <2>2. /\ job.packet.type = "CREATE_CLIENT" /\ job.packet.login = session[job.key].login
          /\ job.packet \in Pending(job.source) /\ job.packet.key = job.key /\ job.key \in Keys
          /\ job.source \in Endpoints
      BY <1>1, <1>2, StepWorks, JobOf DEF SoundInv, JobInv, LoginInv, NumbersInv
    <2>3. /\ DOMAIN clients' = DOMAIN clients \cup {job.key}
          /\ clients'[job.key].login = session[job.key].login
          /\ \A k \in DOMAIN clients : k # job.key => clients'[k] = clients[k]
      <3> DEFINE v == Accepted(job.key, job.packet.session_id, job.packet.login)
      <3>1. v.login = session[job.key].login
        BY <2>2 DEF Accepted
      <3>2. clients' = Put(clients, job.key, v)
        BY <1>4 DEF create_client
      <3> HIDE DEF v
      <3> QED
        BY <3>1, <3>2 DEF Put
    <2>4. EstablishInv'
      BY <1>1, <2>1, <2>3 DEF EstablishInv, Known
    <2>5. SettledInv'
      <3>1. \A e \in Endpoints, k \in Keys : Settled(e, k) => Settled(e, k)'
        BY <1>1, <2>3 DEF Settled, HasClient, HasEndpoint, Known
      <3> QED
        BY <1>1, <2>1, <3>1, SettledStays
    <2>6. KnownInv'
      <3>1. ASSUME NEW k \in Keys \cap spared, ToldIn(k)' PROVE Registered(k)'
        <4>1. ToldIn(k) /\ Registered(k)
          BY <1>1, <2>1, <3>1, ToldPlace, ToldStep DEF TypesInv, LoginInv, KnownInv
        <4> QED
          BY <1>1, <2>3, <4>1 DEF Registered, Known, HasEndpoint, Place
      <3> QED
        BY <1>1, <3>1 DEF KnownInv
    <2>7. GoneInv'
      <3>1. ASSUME NEW k \in Keys, ToldOut(k)' PROVE ~Known(k) /\ k # job.key
        <4>1. ToldOut(k) /\ session[k].phase \in {"logout", "closed"}
          BY <1>1, <2>1, <3>1, ToldPlace, ToldStep DEF TypesInv, ToldOut
        <4> QED
          BY <2>2, <4>1 DEF LoginInv, GoneInv, KindsInv
      <3> QED
        BY <2>3, <3>1 DEF GoneInv, Known
    <2> QED
      BY <2>4, <2>5, <2>6, <2>7 DEF RestInv
  <1> QED
    BY <1>3, <1>4 DEF CreateClient

\* Who hears that it is in has just been entered in the maps, where it runs.
LEMMA RestEstablish ==
    ASSUME Keyed = {}, TypesInv, SoundInv, LoginInv, EstablishSession
    PROVE  RestInv'
  <1>1. /\ job.step = "establish" /\ job' = Nothing
        /\ UNCHANGED <<session, spared, clients, to_agent>>
        /\ establish_session(job.source, job.key, job.packet.session_id)
        /\ Reply(job.source, job.packet, "STATUS_AGENT", "OK")
    BY DEF EstablishSession, rootVars
  <1>2. job.step \in Steps /\ Working
    BY <1>1, StepWorks DEF Steps
  <1>3. /\ PendingShrinks /\ GrantsAt({job.source}) /\ ConfirmsAt({job.source})
    BY <1>1, <1>2, AnswerLines, AnswerGrants, WorkShrinks DEF TypesInv, LinesTyped
  <1>4. /\ job.source \in Endpoints /\ job.key \in Keys /\ job.packet.key = job.key
        /\ job.packet \in Pending(job.source) /\ job.packet.type = "CREATE_CLIENT"
        /\ \A k \in Keys, e \in Endpoints : Uses(e, k) => (e = job.source <=> k = job.key)
        /\ HasClient(job.source) => endpoint_to_client[job.source] = job.key
    BY <1>1, <1>2, JobOf DEF SoundInv, JobInv
  <1>5. EstablishedAt(job.source, job.key)
    BY <1>1, <1>4, EstablishIs DEF SoundInv
  <1>6. EstablishInv'
    BY <1>1, NothingIs DEF EstablishInv, Steps
  <1>7. ASSUME NEW e \in Endpoints, NEW k \in Keys, Entered(e, k)'
        PROVE  Settled(e, k)'
    <2>1. Entered(e, k) \/ (e = job.source /\ session[k].phase = "login" /\ Place(k) = e)
      BY <1>1, <1>3, <1>7, AgentKeeps
    <2>2. Uses(e, k)
      BY <2>1, EnteredUses DEF Uses, Runs, InSession
    <2>3. CASE k = job.key
      <3>1. e = job.source
        BY <1>4, <2>2, <2>3
      <3> QED
        BY <1>1, <1>5, <2>3, <3>1
        DEF LoginInv, EstablishInv, EstablishedAt, Settled, HasClient, HasEndpoint, Known
    <2>4. CASE k # job.key
      <3>1. e # job.source /\ Settled(e, k)
        BY <1>4, <2>1, <2>2, <2>4 DEF LoginInv, SettledInv
      <3> QED
        BY <1>1, <1>5, <2>4, <3>1 DEF EstablishedAt, Settled, HasClient, HasEndpoint, Known
    <2> QED
      BY <2>3, <2>4
  <1>8. SettledInv'
    BY <1>7 DEF SettledInv
  <1>9. ASSUME NEW k \in Keys \cap spared, ToldIn(k)' PROVE Registered(k)'
    <2>1. Place(k) \in Endpoints /\ Uses(Place(k), k)
      BY <1>1, <1>9, ToldPlace DEF TypesInv
    <2>2. CASE k = job.key
      BY <1>1, <1>4, <1>5, <2>1, <2>2
      DEF LoginInv, EstablishInv, EstablishedAt, Registered, HasEndpoint, Known, Place
    <2>3. CASE k # job.key
      <3>1. Place(k) # job.source
        BY <1>4, <2>1, <2>3
      <3>2. ToldIn(k) /\ Registered(k)
        BY <1>1, <1>3, <1>9, <2>1, <3>1, ToldStep DEF LoginInv, KnownInv
      <3> QED
        BY <1>1, <1>5, <2>3, <3>2 DEF EstablishedAt, Registered, HasEndpoint, Known, Place
    <2> QED
      BY <2>2, <2>3
  <1>10. KnownInv'
    BY <1>1, <1>9 DEF KnownInv
  <1>11. ASSUME NEW k \in Keys, ToldOut(k)' PROVE ~Known(k)
    <2>1. Place(k) \in Endpoints /\ Uses(Place(k), k)
      BY <1>1, <1>11, ToldPlace DEF TypesInv
    <2>2. session[k].phase = "logout" => k # job.key
      BY <1>4 DEF LoginInv, KindsInv
    <2> QED
      BY <1>1, <1>3, <1>4, <1>11, <2>1, <2>2, ToldStep DEF LoginInv, GoneInv
  <1>12. GoneInv'
    BY <1>1, <1>11 DEF GoneInv, Known
  <1> QED
    BY <1>6, <1>8, <1>10, <1>12 DEF RestInv

\* delete_client: the client is told only afterwards.
LEMMA RestDelete == ASSUME TypesInv, SoundInv, LoginInv, DeleteClient PROVE RestInv'
  <1>1. /\ job.step = "delete"
        /\ UNCHANGED <<session, spared, endpoint_to_client, client_to_endpoint, to_agent>>
    BY DEF DeleteClient, sessionVars
  <1>2. job.step \in Steps /\ "destroy" \in Steps /\ Working
    BY <1>1, StepWorks DEF Steps
  <1>3. CASE /\ Reply(job.source, job.packet, "STATUS", "ERR_UNKNOWN_REFERENCE")
             /\ job' = Nothing /\ UNCHANGED rootVars
    <2>1. Answered("STATUS", "ERR_UNKNOWN_REFERENCE")
      BY <1>2, <1>3, AnswerLines DEF TypesInv, LinesTyped
    <2>2. GrantsAt({}) /\ ConfirmsAt({})
      BY <1>2, <2>1, AnswerGrants DEF TypesInv
    <2>3. PendingShrinks
      BY <1>1, <1>3, WorkShrinks DEF TypesInv
    <2> QED
      BY <1>1, <1>3, <2>2, <2>3, RestQuiet, NothingIs DEF rootVars, Steps
  <1>4. CASE delete_client(job.key) /\ Go("destroy") /\ UNCHANGED to_client
    <2>1. /\ job'.step = "destroy"
          /\ PendingShrinks /\ GrantsAt({}) /\ ConfirmsAt({})
      BY <1>1, <1>2, <1>4, GoIs, WorkShrinks, SilentGrants DEF TypesInv
    <2>2. /\ job.packet.type = "DELETE" /\ job.packet \in Pending(job.source)
          /\ job.packet.key = job.key /\ job.key \in Keys /\ job.source \in Endpoints
      BY <1>1, <1>2, JobOf DEF SoundInv, JobInv
    <2>3. /\ DOMAIN clients' = DOMAIN clients \ {job.key}
          /\ \A k \in DOMAIN clients \ {job.key} : clients'[k] = clients[k]
      BY <1>4, EraseIs DEF delete_client
    <2>4. EstablishInv'
      BY <2>1 DEF EstablishInv
    <2>5. SettledInv'
      <3>1. \A e \in Endpoints, k \in Keys : Settled(e, k) => Settled(e, k)'
        BY <1>1, <2>3 DEF Settled, HasClient, HasEndpoint, Known
      <3> QED
        BY <1>1, <2>1, <3>1, SettledStays
    <2>6. KnownInv'
      <3>1. ASSUME NEW k \in Keys \cap spared, ToldIn(k)' PROVE Registered(k)'
        <4>1. ToldIn(k) /\ Registered(k)
          BY <1>1, <2>1, <3>1, ToldPlace, ToldStep DEF TypesInv, LoginInv, KnownInv
        <4>2. k # job.key
          BY <2>2, <4>1 DEF ToldIn, LoginInv, KindsInv
        <4> QED
          BY <1>1, <2>3, <4>1, <4>2 DEF Registered, Known, HasEndpoint, Place
      <3> QED
        BY <1>1, <3>1 DEF KnownInv
    <2>7. GoneInv'
      <3>1. ASSUME NEW k \in Keys, ToldOut(k)' PROVE ~Known(k)
        BY <1>1, <2>1, <3>1, ToldPlace, ToldStep DEF TypesInv, LoginInv, GoneInv
      <3> QED
        BY <2>3, <3>1 DEF GoneInv, Known
    <2> QED
      BY <2>4, <2>5, <2>6, <2>7 DEF RestInv
  <1> QED
    BY <1>3, <1>4 DEF DeleteClient

\* Who hears that it is out is the client whose session was just destroyed.
LEMMA RestDestroy == ASSUME TypesInv, SoundInv, LoginInv, DestroySession PROVE RestInv'
  <1>1. /\ job.step = "destroy" /\ job' = Nothing
        /\ UNCHANGED <<session, spared, clients, to_agent>>
        /\ destroy_session(job.source) /\ Reply(job.source, job.packet, "STATUS", "OK")
    BY DEF DestroySession, rootVars
  <1>2. job.step \in Steps /\ Working
    BY <1>1, StepWorks DEF Steps
  <1>3. /\ PendingShrinks /\ GrantsAt({}) /\ ConfirmsAt({job.source})
    BY <1>1, <1>2, AnswerLines, AnswerGrants, WorkShrinks DEF TypesInv, LinesTyped
  <1>4. /\ job.source \in Endpoints /\ HasClient(job.source)
        /\ \A k \in Keys, e \in Endpoints : Uses(e, k) => (e = job.source <=> k = job.key)
        /\ endpoint_to_client[job.source] = job.key /\ ~Known(job.key)
    BY <1>1, <1>2, JobOf DEF SoundInv, JobInv
  <1>5. DestroyedAt(job.source)
    BY <1>1, <1>4, DestroyIs DEF SoundInv
  <1>6. EstablishInv'
    BY <1>1, NothingIs DEF EstablishInv, Steps
  <1>7. SettledInv'
    <2>1. \A e \in Endpoints, k \in Keys : Settled(e, k) => Settled(e, k)'
      BY <1>1, <1>5 DEF Settled, DestroyedAt, HasClient, HasEndpoint, Known
    <2> QED
      BY <1>1, <1>3, <2>1, SettledStays
  <1>8. KnownInv'
    <2>1. ASSUME NEW k \in Keys \cap spared, ToldIn(k)' PROVE Registered(k)'
      <3>1. ToldIn(k) /\ Registered(k)
        BY <1>1, <1>3, <2>1, ToldPlace, ToldStep DEF TypesInv, LoginInv, KnownInv
      <3> QED
        BY <1>1, <1>4, <1>5, <3>1 DEF Registered, DestroyedAt, Known, HasEndpoint, Place
    <2> QED
      BY <1>1, <2>1 DEF KnownInv
  <1>9. GoneInv'
    <2>1. ASSUME NEW k \in Keys, ToldOut(k)' PROVE ~Known(k)
      <3>1. Place(k) \in Endpoints /\ Uses(Place(k), k)
        BY <1>1, <2>1, ToldPlace DEF TypesInv
      <3> QED
        BY <1>1, <1>3, <1>4, <2>1, <3>1, ToldStep DEF LoginInv, GoneInv
    <2> QED
      BY <1>1, <2>1 DEF GoneInv, Known
  <1> QED
    BY <1>6, <1>7, <1>8, <1>9 DEF RestInv

\* The heartbeat thread tells nobody anything, and an Agent that lost its
\* clients forgets what it told.
LEMMA RestBeat == ASSUME TypesInv, LoginInv, NextClient \/ SendHeartbeat PROVE RestInv' /\ PendingShrinks
  <1>1. /\ UNCHANGED <<session, spared, clients, endpoint_to_client, client_to_endpoint, job, to_agent>>
    BY DEF NextClient, get_next_client, SendHeartbeat, lines, rootVars, sessionVars
  <1>2. PendingShrinks
    BY <1>1, WorkShrinks DEF TypesInv
  <1>3. GrantsAt({}) /\ ConfirmsAt({})
    <2>1. CASE UNCHANGED to_client
      BY <2>1, SilentGrants
    <2>2. CASE \E e \in Endpoints, r \in ClientPackets : r.type = "HEARTBEAT" /\ ToClient(e, r)
      <3>1. PICK e \in Endpoints, r \in ClientPackets : r.type = "HEARTBEAT" /\ ToClient(e, r)
        BY <2>2
      <3> QED
        BY <3>1, ReplyGrants
    <2> QED
      BY <2>1, <2>2, BeatLines DEF TypesInv, NextClient, lines
  <1> QED
    BY <1>1, <1>2, <1>3, RestQuiet

\* Agent::reset or a restart: nobody counts on what they were told any more.
LEMMA RestReset == ASSUME TypesInv, LoginInv, ResetAgent \/ RestartAgent PROVE RestInv' /\ PendingShrinks
  <1>1. /\ DOMAIN clients' = {} /\ spared' = {} /\ UNCHANGED <<session, to_agent, to_client>>
        /\ \/ UNCHANGED <<endpoint_to_client, client_to_endpoint, job>>
           \/ DOMAIN endpoint_to_client' = {} /\ DOMAIN client_to_endpoint' = {} /\ job' = Nothing
    BY DEF ResetAgent, RestartAgent, reset, EmptyMap, lines, sessionVars
  <1>2. PendingShrinks /\ GrantsAt({})
    BY <1>1, WorkShrinks, SilentGrants DEF TypesInv
  <1>3. EstablishInv' /\ KnownInv' /\ GoneInv'
    BY <1>1 DEF EstablishInv, KnownInv, GoneInv, Known
  <1>4. \A e \in Endpoints, k \in Keys : Settled(e, k) => Settled(e, k)'
    BY <1>1 DEF Settled, HasClient, HasEndpoint, Known
  <1>5. SettledInv'
    BY <1>1, <1>2, <1>4, SettledStays
  <1> QED
    BY <1>2, <1>3, <1>5 DEF RestInv

\* The Agent's steps keep what Clients were told true.
LEMMA AgentLogin ==
    ASSUME Keyed = {}, TypesInv, SoundInv, LoginInv,
           ProcessorNext \/ NextClient \/ SendHeartbeat \/ ResetAgent \/ RestartAgent
    PROVE  LoginInv'
  <1>1. UNCHANGED session
    BY DEF ProcessorNext, TakePacket, DeleteOther, DestroyOther, CreateClient, EstablishSession,
           DeleteClient, DestroySession, NextClient, SendHeartbeat, ResetAgent, RestartAgent
  <1>2. RestInv'
    BY RestTake, RestDeleteOther, RestDestroyOther, RestCreate, RestEstablish, RestDelete, RestDestroy,
       RestBeat, RestReset
    DEF ProcessorNext
  <1>3. PendingShrinks
    <2>1. CASE \E e \in Endpoints : TakePacket(e)
      BY <2>1, TakeShrinks DEF TypesInv
    <2>2. CASE DeleteOther \/ DestroyOther \/ CreateClient \/ EstablishSession \/ DeleteClient
               \/ DestroySession
      <3>1. UNCHANGED to_agent
        BY <2>2 DEF DeleteOther, DestroyOther, CreateClient, EstablishSession, DeleteClient,
           DestroySession, lines
      <3>2. job.step \in Steps
        BY <2>2 DEF DeleteOther, DestroyOther, CreateClient, EstablishSession, DeleteClient,
           DestroySession, Steps
      <3>3. job' = Nothing \/ \E step \in Steps : Go(step)
        BY <2>2 DEF DeleteOther, DestroyOther, CreateClient, EstablishSession, DeleteClient,
           DestroySession, Steps
      <3> QED
        BY <3>1, <3>2, <3>3, WorkShrinks DEF TypesInv
    <2> QED
      BY <2>1, <2>2, RestBeat, RestReset DEF ProcessorNext
  <1>4. NumbersInv' /\ UseInv' /\ KindsInv'
    BY <1>1, <1>3, AgentKeeps
  <1> QED
    BY <1>2, <1>4 DEF RestInv, LoginInv

----------------------------------------------------------------------------
(* The logins: the Clients' steps *)

\* A Client's step leaves the Agent alone, its line gains what it sends, and
\* the other line may lose a packet.
Sends(k, msgs) ==
    /\ UNCHANGED <<clients, endpoint_to_client, client_to_endpoint, job>>
    /\ \A e \in Endpoints : Pending(e)' \subseteq Pending(e) \cup IF e = Place(k) THEN msgs ELSE {}
    /\ \A e \in Endpoints : Replies(e)' \subseteq Replies(e)

\* How a call proceeds: what it waits for may come, or may not.
Proceeds(k, p) ==
    \/ p = session[k].phase
    \/ session[k].phase = "login" /\ (p = "idle" \/ (p = "open" /\ Granted(Place(k))))
    \/ session[k].phase = "logout" /\ (p = "lost" \/ (p = "closed" /\ Confirmed(Place(k))))

\* A packet that suits the phase the Client is in.
Suits(k, m) ==
    /\ m.key = k
    /\ m.type = CASE session[k].phase = "login" -> "CREATE_CLIENT"
                  [] session[k].phase = "logout" -> "DELETE"
                  [] session[k].phase = "open" -> "REQUEST"
    /\ m.type # "DELETE" => m.login = session[k].login

\* What is pending is a packet with a key.
LEMMA PendingTyped ==
    ASSUME TypesInv
    PROVE  /\ \A e \in Endpoints : Pending(e) \subseteq AgentPackets
           /\ \A e \in Endpoints : \A m \in Pending(e) : m.key \in Keys
           /\ Working => job.key \in Keys /\ job.source \in Endpoints
  <1>1. \A e \in Endpoints : OnLine(e) \subseteq AgentPackets
    BY DEF TypesInv, LinesTyped, AgentLine, OnLine, Elements
  <1>2. Working => JobTyped
    BY JobIs DEF TypesInv
  <1>3. \A e \in Endpoints : Pending(e) \subseteq AgentPackets
    BY <1>1, <1>2 DEF Pending, JobTyped
  <1> QED
    BY <1>2, <1>3 DEF JobTyped, AgentPackets

\* Sending grants nothing.
LEMMA SendsGrants ==
    ASSUME NEW k, NEW msgs, Sends(k, msgs)
    PROVE  GrantsAt({}) /\ ConfirmsAt({})
  BY DEF Sends, GrantsAt, ConfirmsAt, Granted, Confirmed

\* The client that is being established goes on being by its newest login.
LEMMA EstablishStays ==
    ASSUME TypesInv, LoginInv, NEW k \in Keys, NEW msgs, Sends(k, msgs), spared' \subseteq spared \cup {k},
           \A j \in Keys : j # k => session'[j].login = session[j].login,
           \/ spared' \subseteq spared /\ session'[k].login = session[k].login
           \/ Working => job.key # k
    PROVE  EstablishInv'
  <1>1. SUFFICES ASSUME job.step = "establish"
                 PROVE  /\ Known(job.key) => clients[job.key].login = session'[job.key].login
                        /\ job.key \in spared' => Known(job.key)
    BY DEF Sends, EstablishInv, Known
  <1>2. Working /\ job.key \in Keys
    BY <1>1, StepWorks, PendingTyped DEF Steps
  <1> QED
    BY <1>1, <1>2 DEF LoginInv, EstablishInv

\* A Client that goes on within its login keeps what it was told.
LEMMA WithinLogin ==
    ASSUME TypesInv, LoginInv, NEW k \in Keys, Running(k), OnlyPhase(k),
           session'[k].login = session[k].login, UNCHANGED spared, NEW msgs, Sends(k, msgs),
           Proceeds(k, session'[k].phase),
           msgs = {} \/ (session'[k].phase = session[k].phase
                         /\ session[k].phase \in {"login", "open", "logout"}),
           \A m \in msgs : Suits(k, m)
    PROVE  LoginInv'
  <1>1. \A j \in Keys : Place(j)' = Place(j) /\ session'[j].login = session[j].login
    BY DEF OnlyPhase, Place
  <1>2. Place(k) \in Endpoints
    BY DEF TypesInv, ProgramsTyped, Place
  <1>3. \A j \in Keys : Running(j)' => Running(j)
    BY DEF OnlyPhase, Running
  <1>4. NumbersInv'
    <2>1. ASSUME NEW e \in Endpoints, NEW m \in Pending(e)', m.type # "DELETE"
          PROVE  m.login = session'[m.key].login
      <3>1. CASE m \in Pending(e)
        BY <1>1, <2>1, <3>1, PendingTyped DEF LoginInv, NumbersInv
      <3>2. CASE m \in msgs
        BY <1>1, <2>1, <3>2 DEF Suits
      <3> QED
        BY <3>1, <3>2 DEF Sends
    <2> QED
      BY <2>1 DEF NumbersInv
  <1>5. \A e \in Endpoints, j \in Keys : Uses(e, j)' => Uses(e, j)
    <2>1. \A e \in Endpoints, j \in Keys : Runs(e, j)' => Runs(e, j)
      BY <1>1 DEF Runs, OnlyPhase, Proceeds, InSession
    <2>2. ASSUME NEW e \in Endpoints, NEW m \in Pending(e)' PROVE Uses(e, m.key)
      BY DEF Sends, Suits, Uses, Runs, InSession
    <2> QED
      BY <2>1, <2>2 DEF Uses
  <1>6. UseInv'
    <2>1. \A j, h \in Keys : Running(j)' /\ Running(h)' /\ Place(j)' = Place(h)' => j = h
      BY <1>1, <1>3 DEF LoginInv, UseInv
    <2>2. \A e, d \in Endpoints, j, h \in Keys : Uses(e, j)' /\ Uses(d, h)' => (e = d <=> j = h)
      BY <1>5 DEF LoginInv, UseInv
    <2> QED
      BY <2>1, <2>2 DEF UseInv
  <1>7. KindsInv'
    <2>1. ASSUME NEW j \in Keys, NEW e \in Endpoints, NEW m \in Pending(e)', m.key = j
          PROVE  /\ session'[j].phase \in {"login", "open"} => m.type # "DELETE"
                 /\ session'[j].phase \in {"logout", "closed", "lost"} => m.type # "CREATE_CLIENT"
      <3>1. CASE m \in Pending(e)
        BY <2>1, <3>1 DEF LoginInv, KindsInv, OnlyPhase, Proceeds
      <3>2. CASE m \in msgs
        BY <2>1, <3>2 DEF Suits
      <3> QED
        BY <3>1, <3>2 DEF Sends
    <2> QED
      BY <2>1 DEF KindsInv
  <1>8. EstablishInv'
    BY <1>1, EstablishStays
  <1>9. GrantsAt({}) /\ ConfirmsAt({})
    BY SendsGrants
  <1>10. ASSUME NEW e \in Endpoints, NEW j \in Keys, Entered(e, j)' PROVE Entered(e, j)
    <2>1. CASE \E m \in Pending(e)' : m.key = j /\ m.type \in {"REQUEST", "DELETE"}
      <3>1. PICK m \in Pending(e)' : m.key = j /\ m.type \in {"REQUEST", "DELETE"}
        BY <2>1
      <3>2. CASE m \in Pending(e)
        BY <3>1, <3>2 DEF Entered
      <3>3. CASE e = Place(k) /\ m \in msgs
        BY <3>1, <3>3 DEF Suits, Entered
      <3> QED
        BY <3>2, <3>3 DEF Sends
    <2>2. CASE session'[j].phase \in {"open", "logout", "closed", "lost"} /\ Place(j)' = e
      <3>1. CASE j = k
        BY <1>1, <2>2, <3>1 DEF Proceeds, Entered
      <3>2. CASE j # k
        BY <1>1, <2>2, <3>2 DEF OnlyPhase, Entered
      <3> QED
        BY <3>1, <3>2
    <2>3. CASE session'[j].phase = "login" /\ Place(j)' = e /\ Granted(e)'
      <3>1. session[j].phase = "login"
        BY <2>3 DEF OnlyPhase, Proceeds
      <3>2. Place(j) = e /\ Granted(e)
        BY <1>1, <1>9, <2>3 DEF GrantsAt
      <3> QED
        BY <3>1, <3>2 DEF Entered
    <2> QED
      BY <1>10, <2>1, <2>2, <2>3 DEF Entered
  <1>11. \A e \in Endpoints, j \in Keys : Settled(e, j) => Settled(e, j)'
    BY <1>1 DEF Sends, Settled, HasClient, HasEndpoint, Known
  <1>12. SettledInv'
    BY <1>10, <1>11 DEF LoginInv, SettledInv
  <1>13. ASSUME NEW j \in Keys
         PROVE  /\ ToldIn(j)' => ToldIn(j)
                /\ ToldOut(j)' => ToldOut(j)
    <2>1. PICK p : p = Place(j)
      OBVIOUS
    <2>2. ToldIn(j)' <=> session'[j].phase = "open" \/ (session'[j].phase = "login" /\ Granted(p)')
      BY <1>1, <2>1 DEF ToldIn, Granted, Replies
    <2>3. ToldOut(j)' <=> session'[j].phase = "closed" \/ (session'[j].phase = "logout" /\ Confirmed(p)')
      BY <1>1, <2>1 DEF ToldOut, Confirmed, Replies
    <2>4. session'[j].phase \in {"login", "logout"} => p \in Endpoints
      <3>1. session'[j].phase \in {"login", "logout"} => Running(j)
        BY <1>3 DEF Running
      <3> QED
        BY <2>1, <3>1 DEF TypesInv, ProgramsTyped, Place
    <2>5. p \in Endpoints => (Granted(p)' => Granted(p)) /\ (Confirmed(p)' => Confirmed(p))
      BY <1>9 DEF GrantsAt, ConfirmsAt
    <2>6. CASE j # k
      BY <2>1, <2>2, <2>3, <2>4, <2>5, <2>6 DEF OnlyPhase, ToldIn, ToldOut
    <2>7. CASE j = k
      BY <2>1, <2>2, <2>3, <2>4, <2>5, <2>7 DEF Proceeds, ToldIn, ToldOut
    <2> QED
      BY <2>6, <2>7
  <1>14. KnownInv'
    <2>1. \A j \in Keys : Registered(j) => Registered(j)'
      BY <1>1 DEF Sends, Registered, HasEndpoint, Known
    <2> QED
      BY <1>13, <2>1 DEF LoginInv, KnownInv
  <1>15. GoneInv'
    BY <1>13 DEF LoginInv, GoneInv, Sends, Known
  <1> QED
    BY <1>4, <1>6, <1>7, <1>8, <1>12, <1>14, <1>15 DEF LoginInv

\* What a Client's step adds to what is pending.
LEMMA SendsIs ==
    ASSUME UNCHANGED agent, NEW k \in Keys, \A e \in Endpoints : Replies(e)' \subseteq Replies(e)
    PROVE  /\ UNCHANGED to_agent => Sends(k, {})
           /\ \A m : ToAgent(Place(k), m) => Sends(k, {m})
  <1>1. /\ UNCHANGED <<clients, endpoint_to_client, client_to_endpoint, job>>
    BY DEF agent, rootVars, sessionVars
  <1>2. ASSUME UNCHANGED to_agent PROVE Sends(k, {})
    <2>1. \A e \in Endpoints : OnLine(e)' = OnLine(e)
      BY <1>2 DEF OnLine
    <2>2. \A e \in Endpoints : Pending(e)' = Pending(e)
      BY <1>1, <2>1 DEF Pending, Working
    <2> QED
      BY <1>1, <2>2 DEF Sends
  <1>3. ASSUME NEW m, ToAgent(Place(k), m) PROVE Sends(k, {m})
    <2>1. \A e \in Endpoints : Pending(e)' \subseteq Pending(e) \cup IF e = Place(k) THEN {m} ELSE {}
      BY <1>1, <1>3 DEF Pending, Working, ToAgent
    <2> QED
      BY <1>1, <2>1 DEF Sends
  <1> QED
    BY <1>2, <1>3

\* A line that does not change answers nothing new.
LEMMA SilentReplies == ASSUME UNCHANGED to_client PROVE \A e \in Endpoints : Replies(e)' \subseteq Replies(e)
  BY DEF Replies

\* A request of a session changes nothing of the login.
LEMMA AskLogin == ASSUME TypesInv, LoginInv, NEW k \in Keys, Ask(k) PROVE LoginInv'
  <1> DEFINE m == AskMessage(k)
  <1>1. /\ session[k].phase = "open" /\ UNCHANGED <<session, spared, agent, to_client>>
    BY DEF Ask
  <1>2. ToAgent(Place(k), m) /\ m.key = k /\ m.type = "REQUEST" /\ m.login = session[k].login
    BY AskLines DEF TypesInv
  <1> HIDE DEF m
  <1>3. Sends(k, {m})
    BY <1>1, <1>2, SendsIs, SilentReplies
  <1>4. Suits(k, m)
    BY <1>1, <1>2 DEF Suits
  <1>5. /\ Running(k) /\ OnlyPhase(k) /\ session'[k] = session[k] /\ Proceeds(k, session'[k].phase)
    BY <1>1 DEF Running, OnlyPhase, Proceeds
  <1> QED
    BY <1>1, <1>3, <1>4, <1>5, WithinLogin

\* A wait that ends without a status: one more attempt, or giving up.
LEMMA NoStatusLogin ==
    ASSUME TypesInv, LoginInv, NEW k \in Keys, Waits(k), NoStatus(k), UNCHANGED <<spared, agent>>,
           \A e \in Endpoints : Replies(e)' \subseteq Replies(e)
    PROVE  LoginInv'
  <1>0. ClientTypeOK /\ Running(k)
    BY DEF TypesInv, ProgramsTyped, Waits, Running
  <1>1. CASE TryAgain(k) /\ Send(k)
    <2>1. /\ OnlyPhase(k) /\ session'[k].phase = session[k].phase
          /\ session'[k].login = session[k].login
      BY <1>0, <1>1, TryAgainIs
    <2>2. PICK m \in AgentPackets :
             /\ ToAgent(Place(k), m) /\ m.key = k
             /\ m.type = IF session[k].phase = "login" THEN "CREATE_CLIENT" ELSE "DELETE"
             /\ session[k].phase = "login" => m.login = session[k].login
      BY <1>1, AgainLines DEF TypesInv
    <2>3. Sends(k, {m})
      BY <2>2, SendsIs
    <2>4. Suits(k, m)
      BY <2>2 DEF Suits, Waits
    <2>5. Proceeds(k, session'[k].phase) /\ session[k].phase \in {"login", "open", "logout"}
      BY <2>1 DEF Proceeds, Waits
    <2> QED
      BY <1>0, <2>1, <2>3, <2>4, <2>5, WithinLogin
  <1>2. CASE GiveUp(k) /\ UNCHANGED to_agent
    <2>1. /\ OnlyPhase(k) /\ session'[k].phase = Failed(session[k].phase)
          /\ session'[k].login = session[k].login
      BY <1>0, <1>2, GiveUpIs
    <2>2. Proceeds(k, session'[k].phase)
      BY <2>1 DEF Proceeds, Failed, Waits
    <2>3. Sends(k, {})
      BY <1>2, SendsIs
    <2> QED
      BY <1>0, <2>1, <2>2, <2>3, WithinLogin
  <1> QED
    BY <1>1, <1>2 DEF NoStatus

\* A status is the answer to this login or logout, because nothing older is on its way.
LEMMA HearLogin == ASSUME TypesInv, LoginInv, NEW k \in Keys, Hear(k) PROVE LoginInv'
  <1> DEFINE m == Head(to_client[Place(k)])
             status == IF Accepts(k, m) THEN StatusOf(k, m) ELSE "NONE"
  <1>1. /\ Running(k) /\ UNCHANGED <<agent, spared>>
        /\ IF ~Waits(k) THEN UNCHANGED <<session, to_agent>>
           ELSE IF status = "NONE" THEN NoStatus(k)
           ELSE Conclude(k, status) /\ UNCHANGED to_agent
    BY DEF Hear
  <1>2. /\ m \in ClientPackets /\ m \in Replies(Place(k))
        /\ \A e \in Endpoints : Replies(e)' \subseteq Replies(e)
    BY HearLines DEF TypesInv
  <1>3. /\ status = "OK" /\ session[k].phase = "login" => Granted(Place(k))
        /\ status = "OK" /\ session[k].phase = "logout" => Confirmed(Place(k))
    <2>1. ASSUME status = "OK"
          PROVE  /\ m.status = "OK"
                 /\ m.type = "STATUS_AGENT" \/ (m.type = "STATUS" /\ session[k].phase = "logout")
      BY <2>1 DEF StatusOf
    <2> HIDE DEF m, status
    <2> QED
      BY <1>2, <2>1 DEF Granted, Confirmed
  <1> HIDE DEF m, status
  <1>4. CASE ~Waits(k)
    <2>1. Sends(k, {}) /\ OnlyPhase(k) /\ session'[k] = session[k] /\ Proceeds(k, session'[k].phase)
      BY <1>1, <1>2, <1>4, SendsIs DEF OnlyPhase, Proceeds
    <2> QED
      BY <1>1, <2>1, WithinLogin
  <1>5. CASE Waits(k) /\ NoStatus(k)
    BY <1>1, <1>2, <1>5, NoStatusLogin
  <1>6. CASE Waits(k) /\ Conclude(k, status) /\ UNCHANGED to_agent
    <2>1. /\ OnlyPhase(k)
          /\ session'[k].phase = IF status = "OK" THEN Done(session[k].phase)
                                                 ELSE Failed(session[k].phase)
          /\ session'[k].login = session[k].login
      BY <1>6, ConcludeIs DEF TypesInv, ProgramsTyped
    <2>2. Proceeds(k, session'[k].phase)
      BY <1>3, <1>6, <2>1 DEF Proceeds, Done, Failed, Waits
    <2>3. Sends(k, {})
      BY <1>1, <1>2, <1>6, SendsIs
    <2> QED
      BY <1>1, <2>1, <2>2, <2>3, WithinLogin
  <1> QED
    BY <1>1, <1>4, <1>5, <1>6

\* A Client that starts, or ends, is in no session.
LEMMA ApartLogin ==
    ASSUME TypesInv, LoginInv, NEW k \in Keys, UNCHANGED <<agent, lines>>, spared' \subseteq spared,
           \A j \in Keys : j # k => session'[j] = session[j],
           session'[k].phase \in {"off", "idle"}, session'[k].login = session[k].login,
           \A j \in Keys : Running(k)' /\ Running(j) /\ session[j].endpoint = session'[k].endpoint => j = k
    PROVE  LoginInv'
  <1>1. /\ \A e \in Endpoints : Replies(e)' = Replies(e)
        /\ UNCHANGED <<to_agent, to_client>>
    BY DEF lines, Replies
  <1>2. Sends(k, {})
    BY <1>1, SendsIs
  <1>3. \A e \in Endpoints : Pending(e)' \subseteq Pending(e)
    BY <1>2 DEF Sends
  <1>4. \A j \in Keys : session'[j].login = session[j].login
    OBVIOUS
  <1>5. NumbersInv'
    BY <1>3, <1>4, PendingTyped DEF LoginInv, NumbersInv
  <1>6. \A e \in Endpoints, j \in Keys : Uses(e, j)' => Uses(e, j)
    <2>1. \A e \in Endpoints, j \in Keys : Runs(e, j)' => Runs(e, j)
      BY DEF Runs, InSession, Place
    <2> QED
      BY <1>3, <2>1 DEF Uses
  <1>7. UseInv'
    <2>1. ASSUME NEW j \in Keys, NEW h \in Keys, Running(j)', Running(h)', Place(j)' = Place(h)'
          PROVE  j = h
      BY <2>1 DEF LoginInv, UseInv, Running, Place
    <2>2. \A e, d \in Endpoints, j, h \in Keys : Uses(e, j)' /\ Uses(d, h)' => (e = d <=> j = h)
      BY <1>6 DEF LoginInv, UseInv
    <2> QED
      BY <2>1, <2>2 DEF UseInv
  <1>8. KindsInv'
    BY <1>3 DEF LoginInv, KindsInv
  <1>9. EstablishInv'
    BY <1>2, <1>4, EstablishStays
  <1>10. SettledInv'
    <2>1. \A e \in Endpoints, j \in Keys : Entered(e, j)' => Entered(e, j)
      BY <1>1, <1>3 DEF Entered, Granted, Place
    <2>2. \A e \in Endpoints, j \in Keys : Settled(e, j) => Settled(e, j)'
      BY <1>2, <1>4 DEF Sends, Settled, HasClient, HasEndpoint, Known
    <2> QED
      BY <2>1, <2>2 DEF LoginInv, SettledInv
  <1>11. \A j \in Keys : (ToldIn(j)' => ToldIn(j) /\ j # k) /\ (ToldOut(j)' => ToldOut(j))
    BY <1>1 DEF ToldIn, ToldOut, Granted, Confirmed, Replies, Place
  <1>12. KnownInv'
    <2>1. \A j \in Keys : j # k /\ Registered(j) => Registered(j)'
      BY <1>2, <1>4 DEF Sends, Registered, HasEndpoint, Known, Place
    <2> QED
      BY <1>11, <2>1 DEF LoginInv, KnownInv
  <1>13. GoneInv'
    BY <1>2, <1>11 DEF LoginInv, GoneInv, Sends, Known
  <1> QED
    BY <1>5, <1>7, <1>8, <1>9, <1>10, <1>12, <1>13 DEF LoginInv

\* On a line that died out nothing is pending, nor is anything of the client.
LEMMA DiedOutIs ==
    ASSUME TypesInv, SoundInv, LoginInv, NEW k \in Keys, Running(k), DiedOut(k)
    PROVE  /\ Place(k) \in Endpoints /\ Pending(Place(k)) = {} /\ Replies(Place(k)) = {}
           /\ \A e \in Endpoints : \A m \in Pending(e) : m.key # k
           /\ Working => job.key # k
  <1>1. Place(k) \in Endpoints
    BY DEF TypesInv, ProgramsTyped, Place
  <1>2. OnLine(Place(k)) = {} /\ Replies(Place(k)) = {}
    BY EmptyLine DEF DiedOut, OnLine, Replies
  <1>3. Working => job.source # Place(k) /\ job.key # k
    BY DEF DiedOut, Working
  <1>4. ASSUME NEW e \in Endpoints, NEW m \in OnLine(e) PROVE m.key # k
    <2>1. PICK i \in DOMAIN to_agent[e] : m = to_agent[e][i]
      BY DEF OnLine, Elements
    <2>2. i \in 1 .. InFlight
      BY LinesAssumption DEF TypesInv, LinesTyped, AgentLine
    <2> QED
      BY <2>1, <2>2 DEF DiedOut
  <1>5. Working => job.packet.key # k
    <2>1. Working => job.step \in Steps
      BY JobIs DEF TypesInv, JobTyped
    <2> QED
      BY <1>3, <2>1, JobOf
  <1> QED
    BY <1>1, <1>2, <1>3, <1>4, <1>5 DEF Pending

\* A login or logout begins: m is what the Client sends.
Begins(k, m) ==
    \/ /\ session'[k].phase = "login" /\ session'[k].login = session[k].login + 1
       /\ m.type = "CREATE_CLIENT" /\ m.login = session'[k].login
       /\ spared' = spared \cup {k}
    \/ /\ session[k].phase \in {"open", "lost"}
       /\ session'[k].phase = "logout" /\ session'[k].login = session[k].login
       /\ m.type = "DELETE" /\ UNCHANGED spared

\* A login or logout that begins on such a line finds nobody granted or confirmed.
LEMMA BeginLogin ==
    ASSUME TypesInv, SoundInv, LoginInv, NEW k \in Keys, Running(k), DiedOut(k), OnlyPhase(k),
           NEW m \in AgentPackets, m.key = k, Begins(k, m), Sends(k, {m})
    PROVE  LoginInv'
  <1>0. PICK p : p = Place(k)
    OBVIOUS
  <1>1. /\ p \in Endpoints /\ Pending(p) = {} /\ Replies(p) = {}
        /\ \A e \in Endpoints : \A n \in Pending(e) : n.key # k
        /\ Working => job.key # k
    BY <1>0, DiedOutIs
  <1>2. /\ \A j \in Keys : Place(j)' = Place(j)
        /\ \A j \in Keys : j # k => session'[j] = session[j]
        /\ \A j \in Keys : Running(j)' => Running(j)
        /\ session'[k].phase \in {"login", "logout"}
    BY DEF OnlyPhase, Place, Running, Begins
  <1>3. /\ \A e \in Endpoints : \A n \in Pending(e)' : n \in Pending(e) \/ (n = m /\ e = p)
        /\ \A e \in Endpoints : Replies(e)' \subseteq Replies(e)
        /\ UNCHANGED <<clients, endpoint_to_client, client_to_endpoint, job>>
    BY <1>0 DEF Sends
  <1>4. GrantsAt({}) /\ ConfirmsAt({}) /\ ~Granted(p)' /\ ~Confirmed(p)'
    <2>1. Replies(p)' = {}
      BY <1>1, <1>3
    <2>2. ~Granted(p)' /\ ~Confirmed(p)'
      BY <2>1 DEF Granted, Confirmed
    <2> QED
      BY <2>2, SendsGrants
  <1>5. NumbersInv'
    <2>1. ASSUME NEW e \in Endpoints, NEW n \in Pending(e)', n.type # "DELETE"
          PROVE  n.login = session'[n.key].login
      <3>1. CASE n \in Pending(e)
        <4>1. n.key \in Keys /\ n.key # k
          BY <1>1, <3>1, PendingTyped
        <4> QED
          BY <1>2, <2>1, <3>1, <4>1 DEF LoginInv, NumbersInv
      <3>2. CASE n = m
        BY <2>1, <3>2 DEF Begins
      <3> QED
        BY <1>3, <3>1, <3>2
    <2> QED
      BY <2>1 DEF NumbersInv
  <1>6. \A e \in Endpoints, j \in Keys : Uses(e, j)' => (IF j = k THEN e = p ELSE e # p /\ Uses(e, j))
    <2>1. ASSUME NEW e \in Endpoints, NEW j \in Keys, Runs(e, j)'
          PROVE  IF j = k THEN e = p ELSE e # p /\ Uses(e, j)
      <3>1. Running(j) /\ Place(j) = e
        BY <1>2, <2>1 DEF Runs, Running, InSession
      <3>2. j # k => Place(j) # p
        BY <1>0, <3>1 DEF LoginInv, UseInv
      <3>3. j # k => Runs(e, j)
        BY <1>2, <2>1 DEF Runs
      <3> QED
        BY <1>0, <3>1, <3>2, <3>3 DEF Uses
    <2>2. ASSUME NEW e \in Endpoints, NEW n \in Pending(e)'
          PROVE  IF n.key = k THEN e = p ELSE e # p /\ Uses(e, n.key)
      BY <1>1, <1>3 DEF Uses
    <2> QED
      BY <2>1, <2>2 DEF Uses
  <1>7. UseInv'
    <2>1. \A j, h \in Keys : Running(j)' /\ Running(h)' /\ Place(j)' = Place(h)' => j = h
      BY <1>2 DEF LoginInv, UseInv
    <2>2. \A e, d \in Endpoints, j, h \in Keys : Uses(e, j)' /\ Uses(d, h)' => (e = d <=> j = h)
      BY <1>6 DEF LoginInv, UseInv
    <2> QED
      BY <2>1, <2>2 DEF UseInv
  <1>8. KindsInv'
    <2>1. ASSUME NEW j \in Keys, NEW e \in Endpoints, NEW n \in Pending(e)', n.key = j
          PROVE  /\ session'[j].phase \in {"login", "open"} => n.type # "DELETE"
                 /\ session'[j].phase \in {"logout", "closed", "lost"} => n.type # "CREATE_CLIENT"
      <3>1. CASE n \in Pending(e)
        BY <1>1, <1>2, <2>1, <3>1 DEF LoginInv, KindsInv
      <3>2. CASE n = m
        BY <2>1, <3>2 DEF Begins
      <3> QED
        BY <1>3, <3>1, <3>2
    <2> QED
      BY <2>1 DEF KindsInv
  <1>9. EstablishInv'
    <2>1. spared' \subseteq spared \cup {k}
      BY DEF Begins
    <2> QED
      BY <1>1, <1>2, <2>1, EstablishStays
  <1>10. ASSUME NEW e \in Endpoints, NEW j \in Keys, Entered(e, j)'
         PROVE  Entered(e, j) /\ (j = k => session'[k].login = session[k].login)
    <2>1. CASE j # k
      BY <1>2, <1>3, <1>4, <1>10, <2>1 DEF Entered, GrantsAt
    <2>2. CASE j = k
      <3>1. Place(k) = e /\ session'[k].phase = "logout"
        BY <1>0, <1>1, <1>2, <1>3, <1>4, <1>10, <2>2 DEF Entered, Begins
      <3> QED
        BY <2>2, <3>1 DEF Entered, Begins
    <2> QED
      BY <2>1, <2>2
  <1>11. SettledInv'
    <2>1. \A e \in Endpoints, j \in Keys :
              Settled(e, j) /\ session'[j].login = session[j].login => Settled(e, j)'
      BY <1>3 DEF Settled, HasClient, HasEndpoint, Known
    <2> QED
      BY <1>2, <1>10, <2>1 DEF LoginInv, SettledInv
  <1>12. ASSUME NEW j \in Keys
         PROVE  /\ ToldIn(j)' => ToldIn(j) /\ j # k
                /\ ToldOut(j)' => ToldOut(j) /\ j # k
    <2>1. CASE j = k
      BY <1>0, <1>2, <1>4, <2>1 DEF ToldIn, ToldOut, Granted, Confirmed, Replies
    <2>2. CASE j # k
      <3>1. PICK q : q = Place(j)
        OBVIOUS
      <3>2. /\ ToldIn(j)' <=> session[j].phase = "open" \/ (session[j].phase = "login" /\ Granted(q)')
            /\ ToldOut(j)' <=> session[j].phase = "closed" \/ (session[j].phase = "logout" /\ Confirmed(q)')
        BY <1>2, <2>2, <3>1 DEF ToldIn, ToldOut, Granted, Confirmed, Replies
      <3>3. session[j].phase \in {"login", "logout"} => q \in Endpoints
        BY <3>1 DEF TypesInv, ProgramsTyped, Running, Place
      <3> QED
        BY <1>4, <2>2, <3>1, <3>2, <3>3 DEF ToldIn, ToldOut, GrantsAt, ConfirmsAt
    <2> QED
      BY <2>1, <2>2
  <1>13. KnownInv'
    <2>1. \A j \in Keys : j # k /\ Registered(j) => Registered(j)'
      BY <1>2, <1>3 DEF Registered, HasEndpoint, Known
    <2>2. spared' \subseteq spared \cup {k}
      BY DEF Begins
    <2> QED
      BY <1>12, <2>1, <2>2 DEF LoginInv, KnownInv
  <1>14. GoneInv'
    BY <1>3, <1>12 DEF LoginInv, GoneInv, Known
  <1> QED
    BY <1>5, <1>7, <1>8, <1>9, <1>11, <1>13, <1>14 DEF LoginInv

\* Every step keeps what Clients were told true.
LEMMA LoginStep == ASSUME Keyed = {}, Drained, TypesInv, SoundInv, LoginInv, [Next]_vars PROVE LoginInv'
  <1>1. ASSUME NEW k \in Keys, NEW e \in Endpoints, NEW sid \in SessionIds, NEW v \in Versions[k],
               StartClient(k, e, sid, v)
        PROVE  LoginInv'
    <2>1. Begin(k, e, sid, v) /\ UNCHANGED <<agent, lines, spared>>
      BY <1>1 DEF StartClient
    <2>2. \A j \in Keys : Running(j) => session[j].endpoint # e
      BY <2>1 DEF Begin
    <2>3. /\ \A j \in Keys : j # k => session'[j] = session[j]
          /\ session'[k].phase = "idle" /\ session'[k].endpoint = e
          /\ session'[k].login = session[k].login
      BY <2>1, StartIs DEF TypesInv, ProgramsTyped
    <2> QED
      BY <2>1, <2>2, <2>3, ApartLogin
  <1>2. ASSUME NEW k \in Keys, CrashClient(k) PROVE LoginInv'
    <2>1. Crash(k) /\ UNCHANGED <<agent, lines>> /\ spared' \subseteq spared
      BY <1>2 DEF CrashClient
    <2>2. /\ \A j \in Keys : j # k => session'[j] = session[j]
          /\ session'[k].phase = "off" /\ session'[k].login = session[k].login
      BY <2>1, CrashIs DEF TypesInv, ProgramsTyped
    <2>3. ~Running(k)'
      BY <2>2 DEF Running
    <2> QED
      BY <2>1, <2>2, <2>3, ApartLogin
  <1>3. ASSUME NEW k \in Keys, Login(k) \/ Logout(k) PROVE LoginInv'
    <2>1. /\ DiedOut(k) /\ UNCHANGED <<agent, to_client>>
      BY <1>3 DEF Login, Logout
    <2>2. \/ /\ OnlyPhase(k) /\ Running(k) /\ session'[k].phase = "login"
             /\ session'[k].login = session[k].login + 1 /\ spared' = spared \cup {k}
          \/ /\ OnlyPhase(k) /\ Running(k) /\ session[k].phase \in {"open", "lost"}
             /\ session'[k].phase = "logout" /\ session'[k].login = session[k].login
             /\ UNCHANGED spared
      BY <1>3, CreateIs, DeleteIs DEF Login, Logout, TypesInv, ProgramsTyped, Running
    <2>3. PICK m \in AgentPackets :
             /\ ToAgent(Place(k), m) /\ m.key = k
             /\ m.type = IF session'[k].phase = "login" THEN "CREATE_CLIENT" ELSE "DELETE"
             /\ session'[k].phase = "login" => m.login = session'[k].login
      BY <1>3, LoginLines DEF TypesInv
    <2>4. Sends(k, {m})
      BY <2>1, <2>3, SendsIs, SilentReplies
    <2>5. Begins(k, m) /\ OnlyPhase(k) /\ Running(k)
      BY <2>2, <2>3 DEF Begins
    <2> QED
      BY <2>1, <2>3, <2>4, <2>5, BeginLogin
  <1>4. ASSUME NEW k \in Keys, TimeOut(k) PROVE LoginInv'
    BY <1>4, NoStatusLogin, SilentReplies DEF TimeOut
  <1>5. CASE ClientNext
    BY <1>1, <1>2, <1>3, <1>4, <1>5, AskLogin, HearLogin DEF ClientNext
  <1>6. CASE UNCHANGED vars
    <2>1. UNCHANGED <<session, spared, clients, endpoint_to_client, client_to_endpoint, job, to_agent, to_client>>
      BY <1>6 DEF vars, agent, lines, rootVars, sessionVars
    <2>2. PendingShrinks /\ GrantsAt({}) /\ ConfirmsAt({})
      BY <2>1, WorkShrinks, SilentGrants DEF TypesInv
    <2>3. RestInv' /\ NumbersInv' /\ UseInv' /\ KindsInv'
      BY <2>1, <2>2, RestQuiet, AgentKeeps
    <2> QED
      BY <2>3 DEF RestInv, LoginInv
  <1> QED
    BY <1>5, <1>6, AgentLogin DEF Next

\* At the beginning nobody was told anything.
LEMMA LoginInit == Init => LoginInv
  <1> SUFFICES ASSUME Init PROVE LoginInv
    OBVIOUS
  <1>1. /\ \A k \in Keys : session[k].phase = "off"
        /\ \A e \in Endpoints : OnLine(e) = {} /\ Replies(e) = {}
        /\ job = Nothing /\ DOMAIN clients = {}
    BY EmptyLine DEF Init, ClientInit, Unset, RootInit, EmptyMap, OnLine, Replies
  <1>2. \A e \in Endpoints : Pending(e) = {}
    BY <1>1 DEF Pending, Working
  <1>3. NumbersInv /\ KindsInv
    BY <1>2 DEF NumbersInv, KindsInv
  <1>4. UseInv
    BY <1>1, <1>2 DEF UseInv, Uses, Runs, Running, InSession
  <1>5. EstablishInv /\ SettledInv
    BY <1>1, <1>2, NothingIs DEF EstablishInv, SettledInv, Entered, Steps
  <1>6. KnownInv /\ GoneInv
    BY <1>1 DEF KnownInv, GoneInv, ToldIn, ToldOut
  <1> QED
    BY <1>3, <1>4, <1>5, <1>6 DEF LoginInv

\* Who was told it is logged in is registered, with its session id and at its endpoint.
LEMMA LoginIs == ASSUME Keyed = {}, TypesInv, SoundInv, LoginInv PROVE LoginTrue
  <1>1. CreatedIsKnown
    BY DEF LoginInv, KnownInv, ToldIn, Registered, CreatedIsKnown
  <1>2. DeletedIsGone
    BY DEF LoginInv, GoneInv, ToldOut, DeletedIsGone
  <1>3. ASSUME NEW e \in Endpoints, to_agent[e] # <<>>, Head(to_agent[e]).type = "REQUEST",
               Known(ClientOf(Head(to_agent[e]), e))
        PROVE  LET m == Head(to_agent[e])
                   k == ClientOf(m, e)
               IN  k = m.key /\ clients[k].login = m.login
    <2> DEFINE q == to_agent[e]
               m == Head(q)
    <2>1. q \in Seq(AgentPackets) /\ q # <<>>
      BY <1>3 DEF TypesInv, LinesTyped, AgentLine
    <2>2. m = q[1] /\ 1 \in DOMAIN q
      BY <2>1
    <2>3. m \in Pending(e)
      BY <2>2 DEF Pending, OnLine, Elements
    <2>4. m.key \in Keys /\ m.login = session[m.key].login
      BY <1>3, <2>3, PendingTyped DEF LoginInv, NumbersInv
    <2>5. Entered(e, m.key)
      BY <1>3, <2>3 DEF Entered
    <2>6. Settled(e, m.key)
      BY <2>4, <2>5 DEF LoginInv, SettledInv
    <2>7. HasClient(e) /\ ClientOf(m, e) = endpoint_to_client[e]
      BY <1>3, NobodyIsUnknown DEF TypesInv, ClientOf
    <2> QED
      BY <1>3, <2>4, <2>6, <2>7 DEF Settled
  <1>4. AskedOfItsOwn
    BY <1>3 DEF AskedOfItsOwn
  <1> QED
    BY <1>1, <1>2, <1>4 DEF LoginTrue

\* With the same session ids, and if what a Client sent before has died out when
\* it logs in or out, the Agent has a client whose uxr_create_session returned
\* true registered where it runs, with the streams of that login, until it
\* restarts or is reset; it has none whose uxr_delete_session returned true; and
\* it takes nobody's requests for another client's or an earlier login's.
THEOREM LoginAlways == ASSUME Keyed = {}, Drained PROVE Spec => []LoginTrue
  <1>1. Init => IInv
    BY TypesInit, SoundInit, LoginInit DEF Init, RootInit, WalkStands, IInv
  <1>2. IInv /\ [Next]_vars => IInv'
    BY TypesStep, StandsStep, SoundStep, LoginStep DEF TypesInv, IInv
  <1>3. IInv => LoginTrue
    BY LoginIs DEF IInv
  <1> QED
    BY <1>1, <1>2, <1>3, PTL DEF Spec

----------------------------------------------------------------------------
(* Entities *)

\* How many samples a reader has taken or passed over.
Position(reader) == Wrap(reader.last_read + 1)

\* The slots of a ring hold the newest samples, each in its place.
RingSound(topic) ==
    /\ topic \in [domain_id : Domains, name : Names, last_write : SeqNums,
                  history : [Slots -> 0 .. MaxWrites], srcs : [Slots -> Sources]]
    /\ Written(topic) \in 0 .. MaxWrites
    /\ \A n \in 1 .. Written(topic) :
          Written(topic) < n + HistorySize => topic.history[(n - 1) % HistorySize] = n
    /\ \A k \in Slots :
          topic.history[k] # 0 =>
              /\ topic.history[k] <= Written(topic)
              /\ Written(topic) < topic.history[k] + HistorySize
              /\ k = (topic.history[k] - 1) % HistorySize

\* A reader has had the last sample it got; what it passed over since is not for
\* it.  What a reader that waits has not passed over is in the ring.
ReaderSound(topic, reader, access) ==
    /\ reader \in [last_read : SeqNums, waiting : BOOLEAN, got : Nat,
                   ordered : {TRUE}, complete : {TRUE}]
    /\ reader.got <= Position(reader)
    /\ Position(reader) <= Written(topic)
    /\ reader.waiting => Written(topic) <= Position(reader) + HistorySize
    /\ \A k \in Slots :
          topic.history[k] > reader.got /\ topic.history[k] <= Position(reader) =>
              ~Allows(access, topic.srcs[k])

\* The middleware is a record of maps.
Shaped(m) ==
    /\ m = [entities |-> m.entities, participants |-> m.participants, topics |-> m.topics,
            registered |-> m.registered, leaked |-> m.leaked]
    /\ m.entities = [c \in Clients |-> m.entities[c]]
    /\ m.participants = [c \in Clients |-> m.participants[c]]

KeyOf(topic) == <<topic.domain_id, topic.name>>

\* The topics alive are those registered.
TopicsSound(m) ==
    /\ \A t \in DOMAIN m.topics :
          /\ t \in Topics /\ RingSound(m.topics[t])
          /\ KeyOf(m.topics[t]) \in DOMAIN m.registered
          /\ m.registered[KeyOf(m.topics[t])] = t
    /\ \A key \in DOMAIN m.registered :
          /\ m.registered[key] \in DOMAIN m.topics
          /\ KeyOf(m.topics[m.registered[key]]) = key
    /\ m.leaked \subseteq DOMAIN m.topics

\* A participant alive is referred to, and its register is of topics it holds.
ParticipantSound(m, c, p) ==
    LET participant == m.participants[c][p]
    IN  /\ p \in Participants /\ p \in KeptParticipants(m, c)
        /\ participant.domain_id \in Domains
        /\ participant = [domain_id |-> participant.domain_id,
                          topic_register |-> participant.topic_register]
        /\ \A name \in DOMAIN participant.topic_register :
              /\ [participant |-> p, topic |-> participant.topic_register[name]] \in Held(m, c)
              /\ m.topics[participant.topic_register[name]].name = name

\* What a topic, writer or reader refers to is alive and registered.
PairSound(m, c, pair) ==
    /\ pair \in [participant : DOMAIN m.participants[c], topic : DOMAIN m.topics]
    /\ LET participant == m.participants[c][pair.participant]
           topic       == m.topics[pair.topic]
       IN  /\ topic.domain_id = participant.domain_id
           /\ topic.name \in DOMAIN participant.topic_register
           /\ participant.topic_register[topic.name] = pair.topic

RightKind(id, entity) ==
    /\ id \in ObjectIds
    /\ id \in ParticipantIds => entity.kind = "participant"
    /\ id \in TopicIds => entity.kind = "topic"
    /\ id \in PublisherIds => entity.kind = "publisher"
    /\ id \in SubscriberIds => entity.kind = "subscriber"
    /\ id \in DataWriterIds => entity.kind = "datawriter"
    /\ id \in DataReaderIds => entity.kind = "datareader"

EntitySound(m, c, id) ==
    LET entity == m.entities[c][id]
    IN  /\ id \in IdsOf[c] /\ RightKind(id, entity)
        /\ HasTopic(entity) => PairSound(m, c, entity.topic)
        /\ id \in ParticipantIds \cup PublisherIds => entity.participant \in DOMAIN m.participants[c]
        /\ id \in SubscriberIds => entity.entry \in ParticipantIds
        /\ id \in DataReaderIds =>
              /\ entity = [kind |-> "datareader", topic |-> entity.topic, reader |-> entity.reader]
              /\ ~Overrun => ReaderSound(m.topics[entity.topic.topic], entity.reader, ReadAccess[c])

Sound(m) ==
    /\ Shaped(m)
    /\ TopicsSound(m)
    /\ \A c \in Clients :
          /\ \A p \in DOMAIN m.participants[c] : ParticipantSound(m, c, p)
          /\ \A id \in DOMAIN m.entities[c] : EntitySound(m, c, id)

\* The objects of a client are those of its middleware.
ObjectsInv ==
    /\ objects \in [Clients -> SUBSET ObjectIds]
    /\ \A c \in Clients : objects[c] = DOMAIN middleware.entities[c]

EntitiesInv == Sound(middleware) /\ ObjectsInv

----------------------------------------------------------------------------
(* Rings *)

LEMMA RingConstants ==
    /\ Half \in Nat \ {0} /\ HistorySize \in Nat \ {0} /\ HistorySize < Half
    /\ MaxWrites \in Nat /\ MaxWrites < Half /\ Modulus = 2 * Half
    /\ Slots = 0 .. HistorySize - 1
  BY HalfAssumption, HistoryAssumption DEF Slots, Modulus

LEMMA SlotIs ==
    ASSUME NEW n \in Nat
    PROVE  n % HistorySize \in Slots
  BY RingConstants

\* Numbers of the same slot are a turn of the ring apart.
LEMMA SameSlot ==
    ASSUME NEW n \in Nat, NEW k \in Nat, n < k, k < n + HistorySize
    PROVE  n % HistorySize # k % HistorySize
  <1>1. PICK d \in 1 .. HistorySize, e \in 1 .. HistorySize, x \in Int : n = x + d /\ k = x + e /\ d # e
    <2>1. PICK x \in Int, e \in Int : x = n - 1 /\ e = k - x
      OBVIOUS
    <2>2. 1 \in 1 .. HistorySize /\ e \in 1 .. HistorySize /\ n = x + 1 /\ k = x + e /\ 1 # e
      BY <2>1, RingConstants
    <2> QED
      BY <2>2
  <1>2. (x + d) % HistorySize = (x + e) % HistorySize => d = e
    BY <1>1, RingConstants, ModInjective
  <1> QED
    BY <1>1, <1>2

LEMMA RingTyped ==
    ASSUME NEW topic, RingSound(topic)
    PROVE  /\ topic.last_write \in SeqNums /\ Written(topic) \in Nat /\ Written(topic) <= MaxWrites
           /\ topic.domain_id \in Domains /\ topic.name \in Names
           /\ \A k \in Slots : topic.history[k] \in Nat /\ topic.history[k] <= MaxWrites
           /\ \A k \in Slots : topic.srcs[k] \in Sources
  BY RingConstants DEF RingSound

\* A new topic is an empty ring.
LEMMA NewTopicSound ==
    ASSUME NEW domain \in Domains, NEW name \in Names
    PROVE  /\ RingSound(NewTopic(domain, name)) /\ KeyOf(NewTopic(domain, name)) = <<domain, name>>
           /\ Written(NewTopic(domain, name)) = 0
  <1> DEFINE topic == NewTopic(domain, name)
  <1>1. /\ topic \in [domain_id : Domains, name : Names, last_write : SeqNums,
                      history : [Slots -> 0 .. MaxWrites], srcs : [Slots -> Sources]]
        /\ topic.last_write = MaxSeq /\ \A k \in Slots : topic.history[k] = 0
        /\ topic.domain_id = domain /\ topic.name = name
    BY RingConstants DEF NewTopic, SeqNums, MaxSeq, Sources
  <1> HIDE DEF topic
  <1>2. Written(topic) = 0
    BY <1>1, RingConstants DEF Written, Wrap, MaxSeq
  <1>3. RingSound(topic)
    BY <1>1, <1>2, RingConstants DEF RingSound
  <1> QED
    BY <1>1, <1>2, <1>3 DEF KeyOf, topic

\* A sample goes into the ring in place of the oldest.
LEMMA WriteIs ==
    ASSUME NEW topic, RingSound(topic), Written(topic) < MaxWrites, NEW source \in Sources
    PROVE  LET after == Write(topic, source)
               index == Written(topic) % HistorySize
           IN  /\ Written(after) = Written(topic) + 1
               /\ after.domain_id = topic.domain_id /\ after.name = topic.name
               /\ after \in [domain_id : Domains, name : Names, last_write : SeqNums,
                             history : [Slots -> 0 .. MaxWrites], srcs : [Slots -> Sources]]
               /\ after.history[index] = Written(topic) + 1
               /\ \A k \in Slots : k # index =>
                     after.history[k] = topic.history[k] /\ after.srcs[k] = topic.srcs[k]
  <1> DEFINE after == Write(topic, source)
             index == Written(topic) % HistorySize
  <1>1. PICK w \in Nat : w = Written(topic) /\ w < MaxWrites
    BY RingTyped
  <1>2. index \in Slots
    BY <1>1, SlotIs
  <1>3. topic \in [domain_id : Domains, name : Names, last_write : SeqNums,
                   history : [Slots -> 0 .. MaxWrites], srcs : [Slots -> Sources]]
    BY DEF RingSound
  <1>4. after = [topic EXCEPT !.last_write = Wrap(topic.last_write + 1),
                              !.history[index] = w + 1, !.srcs[index] = source]
    BY <1>1 DEF Write
  <1> HIDE DEF after, index
  <1>5. Wrap(topic.last_write + 1) = w /\ w \in SeqNums /\ w + 1 \in 0 .. MaxWrites
    BY <1>1, RingConstants DEF Written, SeqNums
  <1>6. /\ after.last_write = w /\ after.domain_id = topic.domain_id /\ after.name = topic.name
        /\ after.history = [topic.history EXCEPT ![index] = w + 1]
        /\ after.srcs = [topic.srcs EXCEPT ![index] = source]
        /\ after = [topic EXCEPT !.last_write = w, !.history = after.history, !.srcs = after.srcs]
    BY <1>3, <1>4, <1>5
  <1>7. /\ after.history \in [Slots -> 0 .. MaxWrites] /\ after.srcs \in [Slots -> Sources]
        /\ after.history[index] = w + 1
        /\ \A k \in Slots : k # index =>
               after.history[k] = topic.history[k] /\ after.srcs[k] = topic.srcs[k]
    BY <1>2, <1>3, <1>5, <1>6
  <1>8. after \in [domain_id : Domains, name : Names, last_write : SeqNums,
                   history : [Slots -> 0 .. MaxWrites], srcs : [Slots -> Sources]]
    BY <1>3, <1>5, <1>6, <1>7
  <1>9. Written(after) = w + 1
    BY <1>1, <1>6, RingConstants DEF Written, Wrap
  <1> QED
    BY <1>1, <1>6, <1>7, <1>8, <1>9 DEF after, index

LEMMA WriteSound ==
    ASSUME NEW topic, RingSound(topic), Written(topic) < MaxWrites, NEW source \in Sources
    PROVE  RingSound(Write(topic, source))
  <1> DEFINE after == Write(topic, source)
             index == Written(topic) % HistorySize
  <1>1. PICK w \in Nat : w = Written(topic) /\ w < MaxWrites
    BY RingTyped
  <1>2. /\ Written(after) = w + 1
        /\ after \in [domain_id : Domains, name : Names, last_write : SeqNums,
                      history : [Slots -> 0 .. MaxWrites], srcs : [Slots -> Sources]]
        /\ after.history[index] = w + 1
        /\ \A k \in Slots : k # index =>
              after.history[k] = topic.history[k] /\ after.srcs[k] = topic.srcs[k]
        /\ index \in Slots /\ index = w % HistorySize
    BY <1>1, WriteIs, SlotIs
  <1> HIDE DEF after, index
  <1>3. ASSUME NEW n \in 1 .. w + 1, w + 1 < n + HistorySize
        PROVE  after.history[(n - 1) % HistorySize] = n
    <2>1. CASE n = w + 1
      <3>1. (n - 1) % HistorySize = index
        <4>1. n - 1 = w
          BY <1>1, <2>1
        <4> QED
          BY <1>2, <4>1
      <3> QED
        BY <1>2, <2>1, <3>1
    <2>2. CASE n # w + 1
      <3>1. PICK j \in Nat : j = n - 1 /\ j < w /\ w < j + HistorySize
        BY <1>1, <1>3, <2>2, RingConstants
      <3>2. j % HistorySize \in Slots /\ j % HistorySize # index
        BY <1>1, <1>2, <3>1, SlotIs, SameSlot
      <3>3. n \in 1 .. Written(topic) /\ Written(topic) < n + HistorySize
        BY <1>1, <1>3, <2>2, <3>1, RingConstants
      <3>4. topic.history[j % HistorySize] = n
        BY <3>1, <3>3 DEF RingSound
      <3> QED
        BY <1>2, <3>1, <3>2, <3>4
    <2> QED
      BY <2>1, <2>2
  <1>4. ASSUME NEW k \in Slots, after.history[k] # 0
        PROVE  /\ after.history[k] <= w + 1 /\ w + 1 < after.history[k] + HistorySize
               /\ k = (after.history[k] - 1) % HistorySize
    <2>1. CASE k = index
      <3>1. after.history[k] = w + 1 /\ (w + 1) - 1 = w
        BY <1>1, <1>2, <2>1
      <3> QED
        BY <1>1, <1>2, <2>1, <3>1, RingConstants
    <2>2. CASE k # index
      <3>1. PICK h \in Nat : h = after.history[k] /\ h = topic.history[k] /\ h # 0
        BY <1>2, <1>4, <2>2, RingTyped
      <3>2. h <= w /\ w < h + HistorySize /\ k = (h - 1) % HistorySize
        BY <1>1, <3>1 DEF RingSound
      <3>3. w \in Int /\ h \in Int /\ HistorySize \in Int
        BY <1>1, <3>1, RingConstants
      <3>4. w + 1 # h + HistorySize
        <4> SUFFICES ASSUME w + 1 = h + HistorySize PROVE FALSE
          OBVIOUS
        <4>1. PICK j \in Int, q \in Int : j = h - 1 /\ q = 1
          BY <3>1
        <4>2. w = j + q * HistorySize
          BY <3>3, <4>1
        <4>3. w % HistorySize = j % HistorySize
          BY <4>1, <4>2, RingConstants, ModTurn
        <4> QED
          BY <1>2, <2>2, <3>2, <4>1, <4>3
      <3>5. h <= w + 1 /\ w + 1 < h + HistorySize
        BY <3>2, <3>3, <3>4
      <3> QED
        BY <3>1, <3>2, <3>5
    <2> QED
      BY <2>1, <2>2
  <1>5. Written(after) \in 0 .. MaxWrites
    BY <1>1, <1>2, RingConstants
  <1>6. RingSound(after)
    <2>1. \A n \in 1 .. Written(after) :
             Written(after) < n + HistorySize => after.history[(n - 1) % HistorySize] = n
      BY <1>2, <1>3
    <2>2. \A k \in Slots : after.history[k] # 0 =>
              /\ after.history[k] <= Written(after)
              /\ Written(after) < after.history[k] + HistorySize
              /\ k = (after.history[k] - 1) % HistorySize
      BY <1>2, <1>4
    <2> QED
      BY <1>2, <1>5, <2>1, <2>2 DEF RingSound
  <1> QED
    BY <1>6 DEF after
----------------------------------------------------------------------------
(* Readers *)

LEMMA ReaderTyped ==
    ASSUME NEW topic, RingSound(topic), NEW reader, NEW access, ReaderSound(topic, reader, access)
    PROVE  /\ reader.last_read \in SeqNums /\ reader.got \in Nat /\ Position(reader) \in Nat
           /\ reader.got <= Position(reader) /\ Position(reader) <= Written(topic)
  BY RingConstants DEF ReaderSound, Position, SeqNums, Wrap

\* The numbers after a position p: what is w ahead of it, and where they are.
LEMMA NumbersAhead ==
    ASSUME NEW from \in SeqNums, NEW p \in Nat, p = Wrap(from + 1),
           NEW n \in Nat \ {0}, p + n <= MaxWrites
    PROVE  /\ Wrap(from + n) = p + n - 1 /\ Wrap(from + n) \in SeqNums
           /\ SlotAt(from, n) = (p + n - 1) % HistorySize
           /\ Wrap(Wrap(from + n) + 1) = p + n
  <1>1. Wrap(from + n) = p + n - 1 /\ Wrap(from + n) \in SeqNums
    BY RingConstants DEF Wrap, SeqNums
  <1>2. Wrap(Wrap(from + n) + 1) = p + n
    BY <1>1, RingConstants DEF Wrap, SeqNums
  <1> QED
    BY <1>1, <1>2 DEF SlotAt

LEMMA BehindIs ==
    ASSUME NEW topic, RingSound(topic), NEW from \in SeqNums, Wrap(from + 1) <= Written(topic)
    PROVE  /\ SeqSub(topic.last_write, from) = Written(topic) - Wrap(from + 1)
           /\ from = topic.last_write <=> Wrap(from + 1) = Written(topic)
  <1>1. PICK l \in SeqNums : l = topic.last_write
    BY RingTyped
  <1>2. Wrap(l + 1) <= MaxWrites /\ Wrap(l + 1) \in Nat /\ Written(topic) = Wrap(l + 1)
    BY <1>1, RingTyped DEF Written
  <1>3. /\ SeqSub(l, from) = Wrap(l + 1) - Wrap(from + 1)
        /\ from = l <=> Wrap(from + 1) = Wrap(l + 1)
    BY <1>2, RingConstants DEF SeqSub, Wrap, SeqNums
  <1> QED
    BY <1>1, <1>2, <1>3

\* A reader goes on where it is, or at the oldest sample.
LEMMA FixIs ==
    ASSUME NEW topic, RingSound(topic), NEW last_read \in SeqNums,
           Wrap(last_read + 1) < Written(topic)
    PROVE  LET from == FixLastRead(topic, last_read)
           IN  /\ from \in SeqNums
               /\ Wrap(last_read + 1) <= Wrap(from + 1) /\ Wrap(from + 1) <= Written(topic)
               /\ Written(topic) <= Wrap(from + 1) + HistorySize
               /\ from = last_read \/ Written(topic) = Wrap(from + 1) + HistorySize
  <1>1. PICK l \in SeqNums : l = topic.last_write
    BY RingTyped
  <1>2. PICK w \in Nat : w = Written(topic) /\ w = Wrap(l + 1) /\ w <= MaxWrites
    BY <1>1, RingTyped DEF Written
  <1>3. PICK p \in Nat : p = Wrap(last_read + 1) /\ p < w
    BY <1>2, RingConstants DEF Wrap, SeqNums
  <1>4. l = w - 1 /\ last_read = IF p = 0 THEN MaxSeq ELSE p - 1
    BY <1>2, <1>3, RingConstants DEF Wrap, SeqNums, MaxSeq
  <1>5. ~SeqLt(l, last_read)
    BY <1>2, <1>3, <1>4, RingConstants DEF SeqLt, SeqNums, MaxSeq
  <1>6. PICK o \in SeqNums : /\ o = SeqSub(l, HistorySize)
                            /\ o = IF HistorySize > w - 1 THEN w - 1 - HistorySize + Modulus
                                   ELSE w - 1 - HistorySize
    BY <1>2, <1>4, RingConstants DEF SeqSub, SeqNums
  <1>10. SeqLeq(last_read, o) <=> ~(SeqSub(last_read, o) \in 1 .. Half - 1)
    BY LtIsAhead DEF SeqLeq
  <1>11. PICK b \in Int : b = HistorySize - (w - p) /\ b < Half /\ b > -Half
    BY <1>2, <1>3, RingConstants
  <1>12. SeqSub(last_read, o) = IF b < 0 THEN b + Modulus ELSE b
    <2>1. PICK M \in Nat, H \in Nat : M = Modulus /\ M = 2 * Half /\ H = HistorySize /\ MaxSeq = M - 1
      BY RingConstants DEF MaxSeq
    <2>2. PICK x \in Int, y \in Int : x = last_read /\ y = o
      <3>1. o \in SeqNums /\ last_read \in SeqNums
        BY <1>6
      <3>2. o \in Int /\ last_read \in Int
        BY <3>1 DEF SeqNums
      <3> QED
        BY <3>2
    <2>3. /\ SeqSub(x, y) = IF y > x THEN x - y + M ELSE x - y
          /\ x = IF p = 0 THEN M - 1 ELSE p - 1
          /\ y = IF H > w - 1 THEN w - 1 - H + M ELSE w - 1 - H
          /\ b = H - (w - p) /\ b < Half /\ b > -Half
      BY <1>4, <1>6, <1>11, <2>1, <2>2 DEF SeqSub
    <2>4. w \in Nat /\ p \in Nat /\ p < w /\ w < Half /\ H < Half /\ Half \in Nat
      BY <1>2, <1>3, <2>1, RingConstants
    <2>5. CASE H > w - 1 /\ p = 0
      BY <2>1, <2>2, <2>3, <2>4, <2>5
    <2>6. CASE H > w - 1 /\ p # 0
      BY <2>1, <2>2, <2>3, <2>4, <2>6
    <2>7. CASE ~(H > w - 1) /\ p = 0
      BY <2>1, <2>2, <2>3, <2>4, <2>7
    <2>8. CASE ~(H > w - 1) /\ p # 0
      BY <2>1, <2>2, <2>3, <2>4, <2>8
    <2> QED
      BY <2>5, <2>6, <2>7, <2>8
  <1>7. FixLastRead(topic, last_read) = IF SeqLeq(last_read, o) THEN o ELSE last_read
    BY <1>1, <1>5, <1>6, Zenon DEF FixLastRead
  <1>8. CASE w - p < HistorySize
    <2>1. ~SeqLeq(last_read, o)
      BY <1>2, <1>3, <1>8, <1>10, <1>11, <1>12, RingConstants
    <2> QED
      BY <1>2, <1>3, <1>7, <1>8, <2>1, RingConstants
  <1>9. CASE ~(w - p < HistorySize)
    <2>1. Wrap(o + 1) = w - HistorySize
      BY <1>2, <1>3, <1>4, <1>6, <1>9, RingConstants DEF Wrap, SeqSub, SeqNums, MaxSeq
    <2>2. SeqLeq(last_read, o)
      <3>1. b \in Int /\ b <= 0 /\ b > -Half /\ Modulus = 2 * Half /\ Half \in Nat
        BY <1>2, <1>3, <1>9, <1>11, RingConstants
      <3>2. SeqSub(last_read, o) = 0 \/ SeqSub(last_read, o) > Half
        BY <1>12, <3>1
      <3>3. ~(SeqSub(last_read, o) \in 1 .. Half - 1)
        BY <3>1, <3>2
      <3> QED
        BY <1>10, <3>3
    <2>3. FixLastRead(topic, last_read) = o
      BY <1>7, <2>2
    <2> QED
      BY <1>2, <1>3, <1>9, <2>1, <2>3, RingConstants
  <1> QED
    BY <1>8, <1>9

\* A sample of the ring that is not overwritten.
LEMMA SampleIs ==
    ASSUME NEW topic, RingSound(topic), NEW s \in Nat \ {0},
           s <= Written(topic), Written(topic) < s + HistorySize
    PROVE  (s - 1) % HistorySize \in Slots /\ topic.history[(s - 1) % HistorySize] = s
  <1>1. s \in 1 .. Written(topic) /\ s - 1 \in Nat
    BY RingTyped
  <1> QED
    BY <1>1, SlotIs DEF RingSound

\* Taking a sample: those between it and the last are not for the reader.
LEMMA TakeSound ==
    ASSUME NEW topic, RingSound(topic), NEW access,
           NEW reader, ReaderSound(topic, reader, access),
           NEW from \in SeqNums, NEW p \in Nat, p = Wrap(from + 1), Position(reader) <= p,
           NEW n \in Nat \ {0}, p + n <= Written(topic), Written(topic) <= p + HistorySize,
           \A k \in Slots : topic.history[k] > reader.got /\ topic.history[k] < p + n =>
              ~Allows(access, topic.srcs[k])
    PROVE  ReaderSound(topic, Take(topic, reader, from, n, access), access)
  <1>1. PICK w \in Nat : w = Written(topic) /\ w <= MaxWrites
    BY RingTyped
  <1>2. PICK s \in Nat \ {0} : s = p + n /\ s <= w /\ w < s + HistorySize
    <2>1. p + n \in Nat \ {0} /\ p + n <= w /\ w < (p + n) + HistorySize
      BY <1>1, RingConstants
    <2> QED
      BY <2>1
  <1>15. p + n <= MaxWrites
    BY <1>1, <1>2, RingConstants
  <1>3. /\ Wrap(from + n) \in SeqNums /\ SlotAt(from, n) = (s - 1) % HistorySize
        /\ Wrap(Wrap(from + n) + 1) = s
    BY <1>2, <1>15, NumbersAhead
  <1>4. topic.history[SlotAt(from, n)] = s
    BY <1>1, <1>2, <1>3, SampleIs
  <1>5. reader.got \in Nat /\ reader.got < s
    BY <1>2, ReaderTyped
  <1>6. {k \in Slots : /\ topic.history[k] > reader.got /\ topic.history[k] < s
                       /\ Allows(access, topic.srcs[k])} = {}
    BY <1>2
  <1>7. PICK after : after = Take(topic, reader, from, n, access)
    OBVIOUS
  <1>8. reader \in [last_read : SeqNums, waiting : BOOLEAN, got : Nat,
                    ordered : {TRUE}, complete : {TRUE}]
    BY DEF ReaderSound
  <1>9. after = [reader EXCEPT !.last_read = Wrap(from + n), !.waiting = FALSE, !.got = s,
                               !.ordered = @ /\ s > reader.got, !.complete = @ /\ TRUE]
    BY <1>4, <1>6, <1>7 DEF Take
  <1>10. s > reader.got
    BY <1>5
  <1>11. /\ after \in [last_read : SeqNums, waiting : BOOLEAN, got : Nat,
                      ordered : {TRUE}, complete : {TRUE}]
         /\ after.last_read = Wrap(from + n) /\ after.waiting = FALSE /\ after.got = s
    BY <1>3, <1>8, <1>9, <1>10
  <1>12. Position(after) = s
    BY <1>3, <1>11 DEF Position
  <1>13. \A k \in Slots : ~(topic.history[k] > s /\ topic.history[k] <= s)
    BY RingTyped
  <1>14. ReaderSound(topic, after, access)
    <2>1. after.got <= Position(after) /\ Position(after) <= Written(topic) /\ ~after.waiting
      BY <1>1, <1>2, <1>11, <1>12
    <2>2. \A k \in Slots : topic.history[k] > after.got /\ topic.history[k] <= Position(after) =>
             ~Allows(access, topic.srcs[k])
      BY <1>11, <1>12, <1>13
    <2> QED
      BY <1>11, <2>1, <2>2 DEF ReaderSound
  <1> QED
    BY <1>7, <1>14

\* read: the samples are taken in order, and none that is for the reader is
\* passed over as long as it is in the ring.
LEMMA ReadSound ==
    ASSUME NEW topic, RingSound(topic), NEW access,
           NEW reader, ReaderSound(topic, reader, access)
    PROVE  ReaderSound(topic, Read(topic, reader, access), access)
  <1>1. PICK w \in Nat, q \in Nat, g \in Nat :
           w = Written(topic) /\ w <= MaxWrites /\ q = Position(reader) /\ q <= w
           /\ g = reader.got /\ g <= q
    BY RingTyped, ReaderTyped
  <1>2. q = Wrap(reader.last_read + 1) /\ reader.last_read \in SeqNums
    BY <1>1, ReaderTyped DEF Position
  <1> DEFINE from == IF reader.last_read = topic.last_write THEN reader.last_read
                     ELSE FixLastRead(topic, reader.last_read)
             mine == {n \in Ahead(topic, from) : Allows(access, topic.srcs[SlotAt(from, n)])}
  <1>7. Read(topic, reader, access) =
            IF mine = {} THEN [reader EXCEPT !.last_read = topic.last_write, !.waiting = TRUE]
            ELSE Take(topic, reader, from, CHOOSE n \in mine : \A m \in mine : n <= m, access)
    BY DEF Read
  <1> HIDE DEF mine
  <1>3. from = IF reader.last_read = topic.last_write THEN reader.last_read
               ELSE FixLastRead(topic, reader.last_read)
    OBVIOUS
  <1> HIDE DEF from
  <1>4. PICK p \in Nat : /\ from \in SeqNums /\ p = Wrap(from + 1)
                         /\ q <= p /\ p <= w /\ w <= p + HistorySize
                         /\ p = q \/ w = p + HistorySize
    <2>1. CASE reader.last_read = topic.last_write
      BY <1>1, <1>2, <1>3, <2>1, BehindIs, RingConstants
    <2>2. CASE reader.last_read # topic.last_write
      <3>1. q < w
        BY <1>1, <1>2, <2>2, BehindIs
      <3>2. from = FixLastRead(topic, reader.last_read)
        BY <1>3, <2>2
      <3>3. /\ from \in SeqNums
            /\ q <= Wrap(from + 1) /\ Wrap(from + 1) <= w
            /\ w <= Wrap(from + 1) + HistorySize
            /\ from = reader.last_read \/ w = Wrap(from + 1) + HistorySize
        BY <1>1, <1>2, <3>1, <3>2, FixIs
      <3>4. Wrap(from + 1) \in Nat
        BY <3>3, RingConstants DEF Wrap, SeqNums
      <3> QED
        BY <1>2, <3>3, <3>4
    <2> QED
      BY <2>1, <2>2
  <1>5. Ahead(topic, from) = 1 .. w - p
    BY <1>1, <1>4, BehindIs DEF Ahead
  <1>6. mine = {n \in 1 .. w - p : Allows(access, topic.srcs[SlotAt(from, n)])}
    BY <1>5 DEF mine
  <1>8. ASSUME NEW k \in Slots, topic.history[k] > g, Allows(access, topic.srcs[k])
        PROVE  topic.history[k] - p \in mine
    <2>1. PICK h \in Nat : h = topic.history[k] /\ h > g /\ h # 0
      BY <1>1, <1>8, RingTyped
    <2>2. h <= w /\ w < h + HistorySize /\ k = (h - 1) % HistorySize
      BY <1>1, <2>1 DEF RingSound
    <2>3. ~(h <= q)
      BY <1>1, <1>8, <2>1 DEF ReaderSound
    <2>4. h > p
      BY <1>1, <1>4, <2>1, <2>2, <2>3, RingConstants
    <2>5. PICK n \in Nat \ {0} : n = h - p /\ n \in 1 .. w - p
      BY <1>1, <1>4, <2>1, <2>2, <2>4
    <2>8. p + n <= MaxWrites
      BY <1>1, <1>4, <2>5, RingConstants
    <2>6. SlotAt(from, n) = (p + n - 1) % HistorySize
      BY <1>4, <2>8, NumbersAhead
    <2>7. p + n - 1 = h - 1
      BY <2>1, <1>4, <2>5
    <2> QED
      BY <1>6, <1>8, <2>1, <2>2, <2>5, <2>6, <2>7
  <1>9. CASE mine = {}
    <2>1. PICK after : after = Read(topic, reader, access)
      OBVIOUS
    <2>2. after = [reader EXCEPT !.last_read = topic.last_write, !.waiting = TRUE]
      BY <1>7, <1>9, <2>1
    <2>3. reader \in [last_read : SeqNums, waiting : BOOLEAN, got : Nat,
                      ordered : {TRUE}, complete : {TRUE}]
      BY DEF ReaderSound
    <2>4. topic.last_write \in SeqNums
      BY RingTyped
    <2>5. /\ after \in [last_read : SeqNums, waiting : BOOLEAN, got : Nat,
                        ordered : {TRUE}, complete : {TRUE}]
          /\ after.last_read = topic.last_write /\ after.got = g
      BY <1>1, <2>2, <2>3, <2>4
    <2>6. Position(after) = w
      BY <1>1, <2>5 DEF Position, Written
    <2>7. \A k \in Slots : topic.history[k] > g => ~Allows(access, topic.srcs[k])
      BY <1>8, <1>9
    <2>8. ReaderSound(topic, after, access)
      <3>1. /\ after.got <= Position(after) /\ Position(after) <= Written(topic)
            /\ Written(topic) <= Position(after) + HistorySize
        BY <1>1, <2>5, <2>6, RingConstants
      <3>2. \A k \in Slots : topic.history[k] > after.got /\ topic.history[k] <= Position(after) =>
               ~Allows(access, topic.srcs[k])
        BY <2>5, <2>7
      <3> QED
        BY <2>5, <3>1, <3>2 DEF ReaderSound
    <2> QED
      BY <2>1, <2>8
  <1>10. CASE mine # {}
    <2>1. mine \in SUBSET Nat
      BY <1>1, <1>4, <1>6
    <2>2. \E n \in mine : \A m \in mine : n <= m
      BY <1>10, <2>1, LeastIs
    <2>3. PICK n : n = CHOOSE j \in mine : \A m \in mine : j <= m
      OBVIOUS
    <2>4. n \in mine /\ \A m \in mine : n <= m
      BY <2>2, <2>3
    <2>5. n \in Nat \ {0} /\ p + n <= w
      BY <1>1, <1>4, <1>6, <2>4
    <2>6. \A k \in Slots : topic.history[k] > g /\ topic.history[k] < p + n =>
             ~Allows(access, topic.srcs[k])
      <3> SUFFICES ASSUME NEW k \in Slots, topic.history[k] > g, topic.history[k] < p + n,
                          Allows(access, topic.srcs[k])
                   PROVE  FALSE
        OBVIOUS
      <3>1. n <= topic.history[k] - p /\ topic.history[k] \in Nat
        BY <1>8, <2>4, RingTyped
      <3> QED
        BY <1>4, <2>5, <3>1
    <2>7. ReaderSound(topic, Take(topic, reader, from, n, access), access)
      BY <1>1, <1>4, <2>5, <2>6, TakeSound
    <2> QED
      BY <1>7, <1>10, <2>3, <2>7
  <1> QED
    BY <1>9, <1>10

\* What wakes a reader up moves it on by one number, to the next sample.
LEMMA WakeSound ==
    ASSUME NEW topic, RingSound(topic), NEW access,
           NEW reader, ReaderSound(topic, reader, access),
           reader.waiting, reader.last_read # topic.last_write
    PROVE  ReaderSound(topic, Wake(topic, reader, access), access)
  <1>1. PICK w \in Nat, q \in Nat, g \in Nat :
           w = Written(topic) /\ w <= MaxWrites /\ q = Position(reader) /\ q <= w
           /\ g = reader.got /\ g <= q
    BY RingTyped, ReaderTyped
  <1>2. q = Wrap(reader.last_read + 1) /\ reader.last_read \in SeqNums
    BY <1>1, ReaderTyped DEF Position
  <1>3. q < w /\ w <= q + HistorySize
    <2>1. q # w
      BY <1>1, <1>2, BehindIs
    <2> QED
      BY <1>1, <2>1 DEF ReaderSound
  <1>4. q + 1 <= MaxWrites /\ 1 \in Nat \ {0} /\ q + 1 - 1 = q
    BY <1>1, <1>3, RingConstants
  <1>5. /\ Wrap(reader.last_read + 1) \in SeqNums /\ SlotAt(reader.last_read, 1) = q % HistorySize
        /\ Wrap(Wrap(reader.last_read + 1) + 1) = q + 1
    BY <1>2, <1>4, NumbersAhead
  <1>6. \A k \in Slots : topic.history[k] > g /\ topic.history[k] <= q => ~Allows(access, topic.srcs[k])
    BY <1>1 DEF ReaderSound
  <1>7. CASE Allows(access, topic.srcs[SlotAt(reader.last_read, 1)])
    <2>1. \A k \in Slots : topic.history[k] > g /\ topic.history[k] < q + 1 => ~Allows(access, topic.srcs[k])
      BY <1>1, <1>6, RingTyped
    <2>2. ReaderSound(topic, Take(topic, reader, reader.last_read, 1, access), access)
      <3>1. Position(reader) <= q /\ q + 1 <= Written(topic) /\ Written(topic) <= q + HistorySize
        BY <1>1, <1>3
      <3>2. \A k \in Slots : topic.history[k] > reader.got /\ topic.history[k] < q + 1 =>
               ~Allows(access, topic.srcs[k])
        BY <1>1, <2>1
      <3> QED
        BY <1>2, <1>4, <3>1, <3>2, TakeSound
    <2> QED
      BY <1>7, <2>2 DEF Wake
  <1>8. CASE ~Allows(access, topic.srcs[SlotAt(reader.last_read, 1)])
    <2>1. PICK after : after = Wake(topic, reader, access)
      OBVIOUS
    <2>2. after = [reader EXCEPT !.last_read = Wrap(reader.last_read + 1)]
      BY <1>8, <2>1 DEF Wake
    <2>3. reader \in [last_read : SeqNums, waiting : BOOLEAN, got : Nat,
                      ordered : {TRUE}, complete : {TRUE}]
      BY DEF ReaderSound
    <2>4. /\ after \in [last_read : SeqNums, waiting : BOOLEAN, got : Nat,
                        ordered : {TRUE}, complete : {TRUE}]
          /\ after.last_read = Wrap(reader.last_read + 1) /\ after.got = g
      BY <1>1, <1>5, <2>2, <2>3
    <2>5. Position(after) = q + 1
      BY <1>5, <2>4 DEF Position
    <2>6. ASSUME NEW k \in Slots, topic.history[k] > g, topic.history[k] <= q + 1
          PROVE  ~Allows(access, topic.srcs[k])
      <3>1. PICK h \in Nat : h = topic.history[k] /\ h > g /\ h <= q + 1 /\ h # 0
        BY <1>1, <2>6, RingTyped
      <3>2. CASE h <= q
        BY <1>6, <3>1, <3>2
      <3>3. CASE ~(h <= q)
        <4>1. h - 1 = q
          BY <1>1, <3>1, <3>3
        <4>2. k = (h - 1) % HistorySize
          BY <1>1, <3>1 DEF RingSound
        <4> QED
          BY <1>5, <1>8, <4>1, <4>2
      <3> QED
        BY <3>2, <3>3
    <2>7. ReaderSound(topic, after, access)
      <3>1. /\ after.got <= Position(after) /\ Position(after) <= Written(topic)
            /\ Written(topic) <= Position(after) + HistorySize
        BY <1>1, <1>3, <2>4, <2>5, RingConstants
      <3>2. \A k \in Slots : topic.history[k] > after.got /\ topic.history[k] <= Position(after) =>
               ~Allows(access, topic.srcs[k])
        BY <2>4, <2>5, <2>6
      <3> QED
        BY <2>4, <3>1, <3>2 DEF ReaderSound
    <2> QED
      BY <2>1, <2>7
  <1> QED
    BY <1>7, <1>8

\* A sample that is written comes after all a reader passed over.
LEMMA WriteKeepsReader ==
    ASSUME NEW topic, RingSound(topic), Written(topic) < MaxWrites, NEW source \in Sources,
           NEW access, NEW reader, ReaderSound(topic, reader, access),
           reader.waiting => Written(topic) < Position(reader) + HistorySize
    PROVE  ReaderSound(Write(topic, source), reader, access)
  <1>1. PICK w \in Nat, q \in Nat :
           w = Written(topic) /\ w < MaxWrites /\ q = Position(reader) /\ q <= w
    BY RingTyped, ReaderTyped
  <1>2. PICK after, index :
           /\ after = Write(topic, source) /\ index = w % HistorySize
           /\ Written(after) = w + 1 /\ after.history[index] = w + 1
           /\ \A k \in Slots : k # index =>
                 after.history[k] = topic.history[k] /\ after.srcs[k] = topic.srcs[k]
    BY <1>1, WriteIs
  <1>3. \A k \in Slots : after.history[k] > reader.got /\ after.history[k] <= q => ~Allows(access, after.srcs[k])
    <2> SUFFICES ASSUME NEW k \in Slots, after.history[k] > reader.got, after.history[k] <= q
                 PROVE  ~Allows(access, after.srcs[k])
      OBVIOUS
    <2>1. k # index
      BY <1>1, <1>2
    <2> QED
      BY <1>1, <1>2, <2>1 DEF ReaderSound
  <1>4. /\ reader \in [last_read : SeqNums, waiting : BOOLEAN, got : Nat,
                       ordered : {TRUE}, complete : {TRUE}]
        /\ reader.got <= q
    BY <1>1 DEF ReaderSound
  <1>5. reader.waiting => w + 1 <= q + HistorySize
    BY <1>1, RingConstants
  <1>6. ReaderSound(after, reader, access)
    <2>1. /\ Position(reader) <= Written(after)
          /\ reader.waiting => Written(after) <= Position(reader) + HistorySize
      BY <1>1, <1>2, <1>5
    <2>2. \A k \in Slots : after.history[k] > reader.got /\ after.history[k] <= Position(reader) =>
             ~Allows(access, after.srcs[k])
      BY <1>1, <1>3
    <2> QED
      BY <1>1, <1>4, <2>1, <2>2 DEF ReaderSound
  <1> QED
    BY <1>2, <1>6

LEMMA NewReaderSound ==
    ASSUME NEW topic, RingSound(topic), NEW access
    PROVE  ReaderSound(topic, NewReader, access)
  <1>1. /\ NewReader \in [last_read : SeqNums, waiting : BOOLEAN, got : Nat,
                          ordered : {TRUE}, complete : {TRUE}]
        /\ NewReader.last_read = MaxSeq /\ NewReader.got = 0 /\ NewReader.waiting = FALSE
    BY RingConstants DEF NewReader, SeqNums, MaxSeq
  <1>2. Position(NewReader) = 0
    BY <1>1, RingConstants DEF Position, Wrap, MaxSeq
  <1>3. \A k \in Slots : ~(topic.history[k] > 0 /\ topic.history[k] <= 0)
    BY RingTyped
  <1>4. 0 <= Written(topic)
    BY RingTyped
  <1>5. PICK r : r = NewReader
    OBVIOUS
  <1>6. ReaderSound(topic, r, access)
    BY <1>1, <1>2, <1>3, <1>4, <1>5, 0 <= 0 DEF ReaderSound
  <1> QED
    BY <1>5, <1>6
----------------------------------------------------------------------------
(* What the middleware refers to *)

LEMMA HeldIs ==
    ASSUME NEW m, NEW c, NEW pair
    PROVE  pair \in Held(m, c) <=>
              \E id \in DOMAIN m.entities[c] :
                  HasTopic(m.entities[c][id]) /\ pair = m.entities[c][id].topic
  BY DEF Held

\* Both depend on the entities only.
LEMMA HeldSame ==
    ASSUME NEW m, NEW n, NEW c, n.entities[c] = m.entities[c]
    PROVE  Held(n, c) = Held(m, c) /\ KeptParticipants(n, c) = KeptParticipants(m, c)
  BY DEF Held, KeptParticipants

\* What is held is sound.
LEMMA HeldSound ==
    ASSUME NEW m, Sound(m), NEW c \in Clients, NEW pair \in Held(m, c)
    PROVE  /\ PairSound(m, c, pair)
           /\ pair = [participant |-> pair.participant, topic |-> pair.topic]
           /\ pair.participant \in DOMAIN m.participants[c] /\ pair.topic \in DOMAIN m.topics
  <1>1. PICK id \in DOMAIN m.entities[c] :
           HasTopic(m.entities[c][id]) /\ pair = m.entities[c][id].topic
    BY HeldIs
  <1>2. EntitySound(m, c, id)
    BY DEF Sound
  <1>3. PairSound(m, c, pair)
    BY <1>1, <1>2 DEF EntitySound
  <1> QED
    BY <1>3 DEF PairSound

LEMMA EntitiesSet ==
    ASSUME NEW m, Shaped(m), NEW c \in Clients, NEW map
    PROVE  LET k == [m EXCEPT !.entities[c] = map]
           IN  /\ Shaped(k) /\ k.entities[c] = map
               /\ \A d \in Clients \ {c} : k.entities[d] = m.entities[d]
               /\ k.participants = m.participants /\ k.topics = m.topics
               /\ k.registered = m.registered /\ k.leaked = m.leaked
  <1>1. PICK e, p, t, r, l :
           /\ m = [entities |-> e, participants |-> p, topics |-> t, registered |-> r, leaked |-> l]
           /\ e = m.entities /\ p = m.participants
           /\ e = [d \in Clients |-> e[d]] /\ p = [d \in Clients |-> p[d]]
    BY DEF Shaped
  <1>2. PICK f : f = [e EXCEPT ![c] = map]
    OBVIOUS
  <1>3. /\ f = [d \in Clients |-> f[d]] /\ f[c] = map
        /\ \A d \in Clients \ {c} : f[d] = e[d]
    BY <1>1, <1>2
  <1>4. [m EXCEPT !.entities[c] = map] =
            [entities |-> f, participants |-> p, topics |-> t, registered |-> r, leaked |-> l]
    BY <1>1, <1>2
  <1> QED
    BY <1>1, <1>3, <1>4 DEF Shaped

LEMMA KeptTopicsIs ==
    ASSUME NEW m, NEW t
    PROVE  t \in KeptTopics(m) <=>
              (\E c \in Clients : \E pair \in Held(m, c) : t = pair.topic) \/ t \in m.leaked
  <1>1. KeptTopics(m) = (UNION {{pair.topic : pair \in Held(m, c)} : c \in Clients}) \cup m.leaked
    BY DEF KeptTopics
  <1>2. \A c \in Clients : t \in {pair.topic : pair \in Held(m, c)} <=>
                            \E pair \in Held(m, c) : t = pair.topic
    OBVIOUS
  <1>3. t \in (UNION {{pair.topic : pair \in Held(m, c)} : c \in Clients}) <=>
           \E c \in Clients : t \in {pair.topic : pair \in Held(m, c)}
    OBVIOUS
  <1> QED
    BY <1>1, <1>2, <1>3

\* What a sweep leaves.
SweptFrom(n, k, c, gone) ==
    /\ Shaped(n) /\ n.entities = k.entities /\ n.leaked = k.leaked
    /\ \A d \in Clients \ {c} : n.participants[d] = k.participants[d]
    /\ DOMAIN n.participants[c] = DOMAIN k.participants[c] \cap KeptParticipants(k, c)
    /\ \A p \in DOMAIN n.participants[c] :
          n.participants[c][p] = Unregistered(k.participants[c][p], p, gone)
    /\ DOMAIN n.topics = DOMAIN k.topics \cap KeptTopics(k)
    /\ \A t \in DOMAIN n.topics : n.topics[t] = k.topics[t]
    /\ \A key : key \in DOMAIN n.registered <=>
                key \in DOMAIN k.registered /\ k.registered[key] \in KeptTopics(k)
    /\ \A key \in DOMAIN n.registered : n.registered[key] = k.registered[key]

LEMMA SweptIs ==
    ASSUME NEW k, Shaped(k), NEW c \in Clients, NEW before
    PROVE  SweptFrom(Swept(k, c, before), k, c, before \ Held(k, c))
  <1>1. PICK e, p, t, r, l :
           /\ k = [entities |-> e, participants |-> p, topics |-> t, registered |-> r, leaked |-> l]
           /\ e = k.entities /\ p = k.participants /\ l = k.leaked
           /\ e = [d \in Clients |-> e[d]] /\ p = [d \in Clients |-> p[d]]
    BY DEF Shaped
  <1>2. PICK n : n = Swept(k, c, before)
    OBVIOUS
  <1>3. PICK gone : gone = before \ Held(k, c)
    OBVIOUS
  <1> DEFINE P == [q \in DOMAIN p[c] \cap KeptParticipants(k, c) |-> Unregistered(p[c][q], q, gone)]
  <1>4. n.entities = e /\ n.leaked = l
    BY <1>1, <1>2 DEF Swept
  <1>5. n.topics = [u \in DOMAIN k.topics \cap KeptTopics(k) |-> k.topics[u]]
    <2>1. Swept(k, c, before).topics = [u \in DOMAIN k.topics \cap KeptTopics(k) |-> k.topics[u]]
      BY DEF Swept
    <2> QED
      BY <1>2, <2>1
  <1>6. n.registered = [key \in {x \in DOMAIN k.registered : k.registered[x] \in KeptTopics(k)}
                          |-> k.registered[key]]
    <2>1. Swept(k, c, before).registered =
             [key \in {x \in DOMAIN k.registered : k.registered[x] \in KeptTopics(k)} |-> k.registered[key]]
      BY DEF Swept
    <2> QED
      BY <1>2, <2>1
  <1>7. n.participants = [p EXCEPT ![c] = P]
    <2>1. n.participants = [p EXCEPT ![c] =
             [q \in DOMAIN p[c] \cap KeptParticipants(k, c) |-> Unregistered(p[c][q], q, before \ Held(k, c))]]
      BY <1>1, <1>2 DEF Swept
    <2> QED
      BY <1>3, <2>1
  <1>8. n = [entities |-> n.entities, participants |-> n.participants, topics |-> n.topics,
             registered |-> n.registered, leaked |-> n.leaked]
    BY <1>1, <1>2 DEF Swept
  <1>9. /\ DOMAIN P = DOMAIN p[c] \cap KeptParticipants(k, c)
        /\ \A q \in DOMAIN P : P[q] = Unregistered(p[c][q], q, gone)
    OBVIOUS
  <1> HIDE DEF P
  <1>10. /\ n.participants = [d \in Clients |-> n.participants[d]] /\ n.participants[c] = P
         /\ \A d \in Clients \ {c} : n.participants[d] = p[d]
    BY <1>1, <1>7
  <1>11. Shaped(n)
    BY <1>1, <1>4, <1>8, <1>10 DEF Shaped
  <1>12. /\ DOMAIN n.topics = DOMAIN k.topics \cap KeptTopics(k)
         /\ \A u \in DOMAIN n.topics : n.topics[u] = k.topics[u]
    BY <1>5
  <1>13. /\ \A key : key \in DOMAIN n.registered <=>
                     key \in DOMAIN k.registered /\ k.registered[key] \in KeptTopics(k)
         /\ \A key \in DOMAIN n.registered : n.registered[key] = k.registered[key]
    BY <1>6
  <1>14. SweptFrom(n, k, c, gone)
    BY <1>1, <1>4, <1>9, <1>10, <1>11, <1>12, <1>13 DEF SweptFrom
  <1> QED
    BY <1>2, <1>3, <1>14

\* What is kept when client c has entities "map" only.
LEMMA SweepSound ==
    ASSUME NEW m, Sound(m), NEW c \in Clients, NEW map,
           DOMAIN map \subseteq DOMAIN m.entities[c],
           \A id \in DOMAIN map : map[id] = m.entities[c][id],
           NEW n, n = Swept([m EXCEPT !.entities[c] = map], c, Held(m, c))
    PROVE  /\ Sound(n) /\ n.entities[c] = map
           /\ \A d \in Clients \ {c} : n.entities[d] = m.entities[d]
  <1>1. PICK k : k = [m EXCEPT !.entities[c] = map]
    OBVIOUS
  <1>2. /\ Shaped(k) /\ k.entities[c] = map
        /\ \A d \in Clients \ {c} : k.entities[d] = m.entities[d]
        /\ k.participants = m.participants /\ k.topics = m.topics
        /\ k.registered = m.registered /\ k.leaked = m.leaked
    BY <1>1, EntitiesSet DEF Sound
  <1>3. /\ Shaped(n) /\ n.entities = k.entities /\ n.leaked = m.leaked
        /\ \A d \in Clients \ {c} : n.participants[d] = m.participants[d]
        /\ DOMAIN n.participants[c] = DOMAIN m.participants[c] \cap KeptParticipants(k, c)
        /\ \A p \in DOMAIN n.participants[c] :
              n.participants[c][p] = Unregistered(m.participants[c][p], p, Held(m, c) \ Held(k, c))
        /\ DOMAIN n.topics = DOMAIN m.topics \cap KeptTopics(k)
        /\ \A t \in DOMAIN n.topics : n.topics[t] = m.topics[t]
        /\ \A key : key \in DOMAIN n.registered <=>
                    key \in DOMAIN m.registered /\ m.registered[key] \in KeptTopics(k)
        /\ \A key \in DOMAIN n.registered : n.registered[key] = m.registered[key]
    <2>1. SweptFrom(n, k, c, Held(m, c) \ Held(k, c))
      BY <1>1, <1>2, SweptIs
    <2> QED
      BY <1>2, <2>1, ZenonT(60) DEF SweptFrom
  <1>4. \A d \in Clients :
           /\ DOMAIN n.entities[d] \subseteq DOMAIN m.entities[d]
           /\ \A id \in DOMAIN n.entities[d] : n.entities[d][id] = m.entities[d][id]
    BY <1>2, <1>3
  <1>5. \A d \in Clients : Held(n, d) = Held(k, d) /\ KeptParticipants(n, d) = KeptParticipants(k, d)
    BY <1>3, HeldSame
  <1>6. ASSUME NEW d \in Clients, NEW pair \in Held(n, d)
        PROVE  pair \in Held(m, d)
    <2>1. PICK id \in DOMAIN n.entities[d] :
             HasTopic(n.entities[d][id]) /\ pair = n.entities[d][id].topic
      BY HeldIs
    <2>2. id \in DOMAIN m.entities[d] /\ n.entities[d][id] = m.entities[d][id]
      BY <1>4
    <2>3. pair \in Held(m, d) <=>
             \E i \in DOMAIN m.entities[d] : HasTopic(m.entities[d][i]) /\ pair = m.entities[d][i].topic
      BY HeldIs
    <2> QED
      BY <2>1, <2>2, <2>3 DEF HasTopic
  <1>7. /\ \A d \in Clients : \A pair \in Held(n, d) : pair.topic \in KeptTopics(k)
        /\ m.leaked \subseteq KeptTopics(k)
    <2>1. \A d \in Clients : \A pair \in Held(k, d) : pair.topic \in KeptTopics(k)
      BY KeptTopicsIs
    <2>2. m.leaked \subseteq KeptTopics(k)
      BY <1>2, KeptTopicsIs
    <2> QED
      BY <1>5, <2>1, <2>2
  <1>8. \A d \in Clients : \A pair \in Held(n, d) :
           pair.topic \in DOMAIN n.topics /\ n.topics[pair.topic] = m.topics[pair.topic]
    <2> SUFFICES ASSUME NEW d \in Clients, NEW pair \in Held(n, d)
                 PROVE  pair.topic \in DOMAIN n.topics /\ n.topics[pair.topic] = m.topics[pair.topic]
      OBVIOUS
    <2>1. pair.topic \in DOMAIN m.topics
      BY <1>6, HeldSound
    <2>2. pair.topic \in KeptTopics(k)
      BY <1>7
    <2> QED
      BY <1>3, <2>1, <2>2
  <1>9. TopicsSound(n)
    <2>1. ASSUME NEW t \in DOMAIN n.topics
          PROVE  /\ t \in Topics /\ RingSound(n.topics[t])
                 /\ KeyOf(n.topics[t]) \in DOMAIN n.registered
                 /\ n.registered[KeyOf(n.topics[t])] = t
      <3>1. t \in DOMAIN m.topics /\ t \in KeptTopics(k) /\ n.topics[t] = m.topics[t]
        BY <1>3
      <3>2. /\ t \in Topics /\ RingSound(m.topics[t])
            /\ KeyOf(m.topics[t]) \in DOMAIN m.registered
            /\ m.registered[KeyOf(m.topics[t])] = t
        BY <3>1 DEF Sound, TopicsSound
      <3> QED
        BY <1>3, <3>1, <3>2
    <2>2. ASSUME NEW key \in DOMAIN n.registered
          PROVE  /\ n.registered[key] \in DOMAIN n.topics
                 /\ KeyOf(n.topics[n.registered[key]]) = key
      <3>1. key \in DOMAIN m.registered /\ n.registered[key] = m.registered[key]
            /\ m.registered[key] \in KeptTopics(k)
        BY <1>3
      <3>2. m.registered[key] \in DOMAIN m.topics /\ KeyOf(m.topics[m.registered[key]]) = key
        BY <3>1 DEF Sound, TopicsSound
      <3> QED
        BY <1>3, <3>1, <3>2
    <2>3. n.leaked \subseteq DOMAIN n.topics
      BY <1>3, <1>7 DEF Sound, TopicsSound
    <2> QED
      BY <2>1, <2>2, <2>3 DEF TopicsSound
  \* The participants that stay keep their domain, and what is held its entry.
  <1>10. ASSUME NEW d \in Clients, NEW p \in DOMAIN n.participants[d]
         PROVE  /\ p \in DOMAIN m.participants[d] /\ p \in KeptParticipants(n, d)
                /\ n.participants[d][p].domain_id = m.participants[d][p].domain_id
                /\ n.participants[d][p] = [domain_id |-> n.participants[d][p].domain_id,
                                           topic_register |-> n.participants[d][p].topic_register]
                /\ \A name \in DOMAIN n.participants[d][p].topic_register :
                      /\ name \in DOMAIN m.participants[d][p].topic_register
                      /\ n.participants[d][p].topic_register[name] = m.participants[d][p].topic_register[name]
                      /\ [participant |-> p, topic |-> m.participants[d][p].topic_register[name]] \in Held(n, d)
                /\ \A name \in DOMAIN m.participants[d][p].topic_register :
                      [participant |-> p, topic |-> m.participants[d][p].topic_register[name]] \in Held(n, d) =>
                          /\ name \in DOMAIN n.participants[d][p].topic_register
                          /\ n.participants[d][p].topic_register[name] = m.participants[d][p].topic_register[name]
    <2>1. p \in DOMAIN m.participants[d] => ParticipantSound(m, d, p)
      BY DEF Sound
    <2>2. CASE d # c
      <3>1. n.participants[d] = m.participants[d] /\ n.entities[d] = m.entities[d]
        BY <1>2, <1>3, <2>2
      <3>2. Held(n, d) = Held(m, d) /\ KeptParticipants(n, d) = KeptParticipants(m, d)
        BY <3>1, HeldSame
      <3> QED
        BY <2>1, <3>1, <3>2 DEF ParticipantSound
    <2>3. CASE d = c
      <3>1. PICK a, r : a = m.participants[c][p].domain_id /\ r = m.participants[c][p].topic_register
        OBVIOUS
      <3>2. p \in DOMAIN m.participants[c] /\ p \in KeptParticipants(n, c)
        BY <1>3, <1>5, <2>3
      <3>3. /\ m.participants[c][p] = [domain_id |-> a, topic_register |-> r]
            /\ \A name \in DOMAIN r : [participant |-> p, topic |-> r[name]] \in Held(m, c)
        BY <2>1, <2>3, <3>1, <3>2 DEF ParticipantSound
      <3>4. PICK S : S = {x \in DOMAIN r : [participant |-> p, topic |-> r[x]] \notin Held(m, c) \ Held(k, c)}
        OBVIOUS
      <3>5. PICK q : q = [name \in S |-> r[name]]
        OBVIOUS
      <3>6. n.participants[c][p] = [m.participants[c][p] EXCEPT !.topic_register = q]
        <4>1. n.participants[c][p] = Unregistered(m.participants[c][p], p, Held(m, c) \ Held(k, c))
          BY <1>3, <2>3
        <4> QED
          BY <3>1, <3>4, <3>5, <4>1 DEF Unregistered
      <3>7. n.participants[c][p] = [domain_id |-> a, topic_register |-> q]
        BY <3>3, <3>6
      <3>8. \A x \in DOMAIN r : x \in S <=> [participant |-> p, topic |-> r[x]] \in Held(n, c)
        BY <1>5, <1>6, <3>3, <3>4
      <3>9. S \subseteq DOMAIN r /\ DOMAIN q = S /\ \A x \in S : q[x] = r[x]
        BY <3>4, <3>5
      <3> QED
        BY <2>3, <3>1, <3>2, <3>7, <3>8, <3>9
    <2> QED
      BY <2>2, <2>3
  <1>11. ASSUME NEW d \in Clients, NEW p \in DOMAIN n.participants[d]
         PROVE  ParticipantSound(n, d, p)
    <2>1. ParticipantSound(m, d, p)
      BY <1>10 DEF Sound
    <2>2. ASSUME NEW name \in DOMAIN n.participants[d][p].topic_register
          PROVE  /\ [participant |-> p, topic |-> n.participants[d][p].topic_register[name]] \in Held(n, d)
                 /\ n.topics[n.participants[d][p].topic_register[name]].name = name
      <3>1. PICK t : t = m.participants[d][p].topic_register[name]
        OBVIOUS
      <3>2. /\ name \in DOMAIN m.participants[d][p].topic_register
            /\ n.participants[d][p].topic_register[name] = t
            /\ [participant |-> p, topic |-> t] \in Held(n, d)
        BY <1>10, <3>1
      <3>3. m.topics[t].name = name
        BY <2>1, <3>1, <3>2 DEF ParticipantSound
      <3>4. n.topics[t] = m.topics[t]
        BY <1>8, <3>2
      <3> QED
        BY <3>2, <3>3, <3>4
    <2>3. /\ p \in Participants /\ p \in KeptParticipants(n, d)
          /\ n.participants[d][p].domain_id \in Domains
          /\ n.participants[d][p] = [domain_id |-> n.participants[d][p].domain_id,
                                     topic_register |-> n.participants[d][p].topic_register]
      BY <1>10, <2>1 DEF ParticipantSound
    <2> QED
      BY <2>2, <2>3 DEF ParticipantSound
  <1>12. ASSUME NEW d \in Clients, NEW id \in DOMAIN n.entities[d]
         PROVE  EntitySound(n, d, id)
    <2>1. PICK e : e = n.entities[d][id] /\ e = m.entities[d][id] /\ id \in DOMAIN m.entities[d]
      BY <1>4
    <2>2. EntitySound(m, d, id)
      BY <2>1 DEF Sound
    <2>3. ASSUME NEW p \in DOMAIN m.participants[d], p \in KeptParticipants(n, d)
          PROVE  p \in DOMAIN n.participants[d]
      BY <1>3, <1>5, <2>3
    <2>4. ASSUME HasTopic(e)
          PROVE  PairSound(n, d, e.topic) /\ n.topics[e.topic.topic] = m.topics[e.topic.topic]
      <3>1. PICK p, t : e.topic = [participant |-> p, topic |-> t]
                        /\ p = e.topic.participant /\ t = e.topic.topic
                        /\ p \in DOMAIN m.participants[d] /\ t \in DOMAIN m.topics
        BY <2>1, <2>2, <2>4 DEF EntitySound, PairSound
      <3>2. e.topic \in Held(n, d)
        BY <2>1, <2>4, HeldIs
      <3>3. p \in DOMAIN n.participants[d]
        BY <2>3, <3>1, <3>2 DEF KeptParticipants
      <3>4. t \in DOMAIN n.topics /\ n.topics[t] = m.topics[t]
        BY <1>8, <3>1, <3>2
      <3>5. /\ m.topics[t].domain_id = m.participants[d][p].domain_id
            /\ m.topics[t].name \in DOMAIN m.participants[d][p].topic_register
            /\ m.participants[d][p].topic_register[m.topics[t].name] = t
        BY <2>1, <2>2, <2>4, <3>1 DEF EntitySound, PairSound
      <3>6. /\ n.participants[d][p].domain_id = m.participants[d][p].domain_id
            /\ m.topics[t].name \in DOMAIN n.participants[d][p].topic_register
            /\ n.participants[d][p].topic_register[m.topics[t].name] = t
        <4>1. PICK name : name = m.topics[t].name /\ name \in DOMAIN m.participants[d][p].topic_register
                          /\ m.participants[d][p].topic_register[name] = t
          BY <3>5
        <4>2. [participant |-> p, topic |-> m.participants[d][p].topic_register[name]] \in Held(n, d)
          BY <3>1, <3>2, <4>1
        <4>3. /\ n.participants[d][p].domain_id = m.participants[d][p].domain_id
              /\ name \in DOMAIN n.participants[d][p].topic_register
              /\ n.participants[d][p].topic_register[name] = m.participants[d][p].topic_register[name]
          BY <1>10, <3>3, <4>1, <4>2
        <4> QED
          BY <4>1, <4>3
      <3>7. e.topic \in [participant : DOMAIN n.participants[d], topic : DOMAIN n.topics]
        BY <3>1, <3>3, <3>4
      <3> QED
        BY <3>1, <3>4, <3>5, <3>6, <3>7 DEF PairSound
    <2>5. ASSUME id \in ParticipantIds \cup PublisherIds
          PROVE  e.participant \in DOMAIN n.participants[d]
      <3>1. e.participant \in DOMAIN m.participants[d]
        BY <2>1, <2>2, <2>5 DEF EntitySound
      <3>2. e.participant \in KeptParticipants(n, d)
        BY <2>1, <2>5 DEF KeptParticipants
      <3> QED
        BY <2>3, <3>1, <3>2
    <2>6. ASSUME id \in DataReaderIds
          PROVE  /\ e = [kind |-> "datareader", topic |-> e.topic, reader |-> e.reader]
                 /\ ~Overrun => ReaderSound(n.topics[e.topic.topic], e.reader, ReadAccess[d])
      <3>1. /\ e = [kind |-> "datareader", topic |-> e.topic, reader |-> e.reader]
            /\ ~Overrun => ReaderSound(m.topics[e.topic.topic], e.reader, ReadAccess[d])
            /\ HasTopic(e)
        BY <2>1, <2>2, <2>6 DEF EntitySound, RightKind, HasTopic
      <3> QED
        BY <2>4, <3>1
    <2>7. id \in IdsOf[d] /\ RightKind(id, e) /\ (id \in SubscriberIds => e.entry \in ParticipantIds)
      BY <2>1, <2>2 DEF EntitySound
    <2> QED
      BY <2>1, <2>4, <2>5, <2>6, <2>7 DEF EntitySound
  <1> QED
    BY <1>2, <1>3, <1>9, <1>11, <1>12 DEF Sound

----------------------------------------------------------------------------
(* What is created *)

\* What client c's entity of an id refers to is there.
Fits(m, c, id, entity) ==
    /\ id \in IdsOf[c] /\ RightKind(id, entity)
    /\ HasTopic(entity) => PairSound(m, c, entity.topic)
    /\ id \in ParticipantIds \cup PublisherIds => entity.participant \in DOMAIN m.participants[c]
    /\ id \in SubscriberIds => entity.entry \in ParticipantIds
    /\ id \in DataReaderIds =>
          /\ entity = [kind |-> "datareader", topic |-> entity.topic, reader |-> entity.reader]
          /\ ~Overrun => ReaderSound(m.topics[entity.topic.topic], entity.reader, ReadAccess[c])

LEMMA FitsIs ==
    ASSUME NEW m, NEW c, NEW id
    PROVE  EntitySound(m, c, id) <=> Fits(m, c, id, m.entities[c][id])
  BY DEF EntitySound, Fits

\* n is m with more in it.
Grown(n, m, c) ==
    /\ Shaped(n)
    /\ DOMAIN m.entities[c] \subseteq DOMAIN n.entities[c]
    /\ \A i \in DOMAIN m.entities[c] : n.entities[c][i] = m.entities[c][i]
    /\ \A d \in Clients \ {c} :
          n.entities[d] = m.entities[d] /\ n.participants[d] = m.participants[d]
    /\ DOMAIN m.participants[c] \subseteq DOMAIN n.participants[c]
    /\ \A p \in DOMAIN m.participants[c] :
          /\ n.participants[c][p].domain_id = m.participants[c][p].domain_id
          /\ \A name \in DOMAIN m.participants[c][p].topic_register :
                /\ name \in DOMAIN n.participants[c][p].topic_register
                /\ n.participants[c][p].topic_register[name] = m.participants[c][p].topic_register[name]
    /\ DOMAIN m.topics \subseteq DOMAIN n.topics
    /\ \A t \in DOMAIN m.topics : n.topics[t] = m.topics[t]

LEMMA GrownHeld ==
    ASSUME NEW m, NEW n, NEW c \in Clients, Grown(n, m, c), NEW d \in Clients
    PROVE  /\ \A pair \in Held(m, d) : pair \in Held(n, d)
           /\ \A p \in KeptParticipants(m, d) : p \in KeptParticipants(n, d)
  <1>1. /\ DOMAIN m.entities[d] \subseteq DOMAIN n.entities[d]
        /\ \A i \in DOMAIN m.entities[d] : n.entities[d][i] = m.entities[d][i]
    BY DEF Grown
  <1>2. ASSUME NEW pair \in Held(m, d)
        PROVE  pair \in Held(n, d)
    <2>1. PICK i \in DOMAIN m.entities[d] :
             HasTopic(m.entities[d][i]) /\ pair = m.entities[d][i].topic
      BY HeldIs
    <2>2. i \in DOMAIN n.entities[d] /\ HasTopic(n.entities[d][i]) /\ pair = n.entities[d][i].topic
      BY <1>1, <2>1
    <2> QED
      BY <2>2, HeldIs
  <1>3. ASSUME NEW p \in KeptParticipants(m, d)
        PROVE  p \in KeptParticipants(n, d)
    <2>1. CASE \E pair \in Held(m, d) : p = pair.participant
      BY <1>2, <2>1 DEF KeptParticipants
    <2>2. CASE \E i \in DOMAIN m.entities[d] \cap (ParticipantIds \cup PublisherIds) :
                  p = m.entities[d][i].participant
      BY <1>1, <2>2 DEF KeptParticipants
    <2> QED
      BY <2>1, <2>2 DEF KeptParticipants
  <1> QED
    BY <1>2, <1>3

\* What fitted still fits.
LEMMA GrownPair ==
    ASSUME NEW m, NEW n, NEW c \in Clients, Grown(n, m, c), NEW d \in Clients,
           NEW pair, PairSound(m, d, pair)
    PROVE  PairSound(n, d, pair) /\ n.topics[pair.topic] = m.topics[pair.topic]
  <1>1. PICK p, t : pair = [participant |-> p, topic |-> t]
                    /\ p \in DOMAIN m.participants[d] /\ t \in DOMAIN m.topics
    BY DEF PairSound
  <1>2. /\ m.topics[t].domain_id = m.participants[d][p].domain_id
        /\ m.topics[t].name \in DOMAIN m.participants[d][p].topic_register
        /\ m.participants[d][p].topic_register[m.topics[t].name] = t
    BY <1>1 DEF PairSound
  <1>3. t \in DOMAIN n.topics /\ n.topics[t] = m.topics[t]
    BY <1>1 DEF Grown
  <1>4. /\ p \in DOMAIN n.participants[d]
        /\ n.participants[d][p].domain_id = m.participants[d][p].domain_id
        /\ m.topics[t].name \in DOMAIN n.participants[d][p].topic_register
        /\ n.participants[d][p].topic_register[m.topics[t].name] = t
    <2>1. CASE d = c
      BY <1>1, <1>2, <2>1 DEF Grown
    <2>2. CASE d # c
      <3>1. n.participants[d] = m.participants[d]
        BY <2>2 DEF Grown
      <3> QED
        BY <1>1, <1>2, <3>1
    <2> QED
      BY <2>1, <2>2
  <1>5. pair \in [participant : DOMAIN n.participants[d], topic : DOMAIN n.topics]
    BY <1>1, <1>3, <1>4
  <1> QED
    BY <1>1, <1>2, <1>3, <1>4, <1>5 DEF PairSound

LEMMA GrownFits ==
    ASSUME NEW m, NEW n, NEW c \in Clients, Grown(n, m, c), NEW d \in Clients,
           NEW id, NEW entity, Fits(m, d, id, entity)
    PROVE  Fits(n, d, id, entity)
  <1>1. HasTopic(entity) =>
           PairSound(n, d, entity.topic) /\ n.topics[entity.topic.topic] = m.topics[entity.topic.topic]
    BY GrownPair DEF Fits
  <1>2. id \in DataReaderIds => HasTopic(entity)
    BY DEF Fits, RightKind, HasTopic
  <1>3. DOMAIN m.participants[d] \subseteq DOMAIN n.participants[d]
    BY DEF Grown
  <1> QED
    BY <1>1, <1>2, <1>3 DEF Fits

LEMMA GrownParticipant ==
    ASSUME NEW m, NEW n, NEW c \in Clients, Grown(n, m, c), NEW d \in Clients,
           NEW p, ParticipantSound(m, d, p), n.participants[d][p] = m.participants[d][p],
           \A name \in DOMAIN m.participants[d][p].topic_register :
               m.participants[d][p].topic_register[name] \in DOMAIN m.topics
    PROVE  ParticipantSound(n, d, p)
  <1>1. PICK participant : participant = m.participants[d][p] /\ participant = n.participants[d][p]
    OBVIOUS
  <1>2. p \in Participants /\ p \in KeptParticipants(n, d) /\ participant.domain_id \in Domains
        /\ participant = [domain_id |-> participant.domain_id,
                          topic_register |-> participant.topic_register]
    BY <1>1, GrownHeld DEF ParticipantSound
  <1>3. ASSUME NEW name \in DOMAIN participant.topic_register
        PROVE  /\ [participant |-> p, topic |-> participant.topic_register[name]] \in Held(n, d)
               /\ n.topics[participant.topic_register[name]].name = name
    <2>1. /\ [participant |-> p, topic |-> participant.topic_register[name]] \in Held(m, d)
          /\ m.topics[participant.topic_register[name]].name = name
      BY <1>1 DEF ParticipantSound
    <2>2. n.topics[participant.topic_register[name]] = m.topics[participant.topic_register[name]]
      BY <1>1 DEF Grown
    <2> QED
      BY <2>1, <2>2, GrownHeld
  <1> QED
    BY <1>1, <1>2, <1>3 DEF ParticipantSound

\* What a register of a participant has is alive.
LEMMA RegisterAlive ==
    ASSUME NEW m, Sound(m), NEW c \in Clients, NEW p \in DOMAIN m.participants[c],
           NEW name \in DOMAIN m.participants[c][p].topic_register
    PROVE  LET t == m.participants[c][p].topic_register[name]
           IN  /\ [participant |-> p, topic |-> t] \in Held(m, c)
               /\ PairSound(m, c, [participant |-> p, topic |-> t])
               /\ t \in DOMAIN m.topics /\ t \in Topics /\ m.topics[t].name = name
  <1>1. PICK t : t = m.participants[c][p].topic_register[name]
    OBVIOUS
  <1>2. ParticipantSound(m, c, p)
    BY DEF Sound
  <1>3. [participant |-> p, topic |-> t] \in Held(m, c) /\ m.topics[t].name = name
    BY <1>1, <1>2 DEF ParticipantSound
  <1>4. PairSound(m, c, [participant |-> p, topic |-> t]) /\ t \in DOMAIN m.topics
    BY <1>3, HeldSound
  <1>5. t \in Topics
    BY <1>4 DEF Sound, TopicsSound
  <1> QED
    BY <1>1, <1>3, <1>4, <1>5

\* A new entity that fits, on participants and topics that are sound.
LEMMA GrownSound ==
    ASSUME NEW m, Sound(m), NEW c \in Clients, NEW n, Grown(n, m, c), TopicsSound(n),
           \A i \in DOMAIN n.entities[c] \ DOMAIN m.entities[c] : Fits(n, c, i, n.entities[c][i]),
           \A p \in DOMAIN n.participants[c] :
               ParticipantSound(n, c, p)
                 \/ (p \in DOMAIN m.participants[c] /\ n.participants[c][p] = m.participants[c][p])
    PROVE  Sound(n)
  <1>1. ASSUME NEW d \in Clients, NEW p \in DOMAIN n.participants[d]
        PROVE  ParticipantSound(n, d, p)
    <2>1. ASSUME p \in DOMAIN m.participants[d], n.participants[d][p] = m.participants[d][p]
          PROVE  ParticipantSound(n, d, p)
      <3>1. ParticipantSound(m, d, p)
        BY <2>1 DEF Sound
      <3>2. \A name \in DOMAIN m.participants[d][p].topic_register :
               m.participants[d][p].topic_register[name] \in DOMAIN m.topics
        BY <2>1, RegisterAlive
      <3> QED
        BY <2>1, <3>1, <3>2, GrownParticipant
    <2>2. CASE d = c
      BY <2>1, <2>2
    <2>3. CASE d # c
      <3>1. n.participants[d] = m.participants[d]
        BY <2>3 DEF Grown
      <3> QED
        BY <2>1, <3>1
    <2> QED
      BY <2>2, <2>3
  <1>2. ASSUME NEW d \in Clients, NEW id \in DOMAIN n.entities[d]
        PROVE  EntitySound(n, d, id)
    <2>1. ASSUME id \in DOMAIN m.entities[d], n.entities[d][id] = m.entities[d][id]
          PROVE  Fits(n, d, id, n.entities[d][id])
      <3>1. EntitySound(m, d, id)
        BY <2>1 DEF Sound
      <3>2. Fits(m, d, id, n.entities[d][id])
        BY <2>1, <3>1, FitsIs
      <3> QED
        BY <3>2, GrownFits
    <2>2. Fits(n, d, id, n.entities[d][id])
      <3>1. CASE d = c
        BY <2>1, <3>1 DEF Grown
      <3>2. CASE d # c
        BY <2>1, <3>2 DEF Grown
      <3> QED
        BY <3>1, <3>2
    <2> QED
      BY <2>2, FitsIs
  <1>3. Shaped(n)
    BY DEF Grown
  <1> QED
    BY <1>1, <1>2, <1>3 DEF Sound

\* An entity more, on what there is.
LEMMA AddedIs ==
    ASSUME NEW m, Shaped(m), NEW c \in Clients, NEW id, id \notin DOMAIN m.entities[c], NEW entity,
           NEW n, n = Added(m, c, id, entity)
    PROVE  /\ Grown(n, m, c) /\ DOMAIN n.entities[c] = DOMAIN m.entities[c] \cup {id}
           /\ n.entities[c][id] = entity
           /\ n.participants = m.participants /\ n.topics = m.topics
           /\ n.registered = m.registered /\ n.leaked = m.leaked
  <1>1. PICK map : map = Put(m.entities[c], id, entity)
    OBVIOUS
  <1>2. /\ DOMAIN map = DOMAIN m.entities[c] \cup {id} /\ map[id] = entity
        /\ \A i \in DOMAIN m.entities[c] : map[i] = m.entities[c][i]
    <2>1. PICK old : old = m.entities[c]
      OBVIOUS
    <2>2. /\ DOMAIN Put(old, id, entity) = DOMAIN old \cup {id} /\ Put(old, id, entity)[id] = entity
          /\ \A i \in DOMAIN old : i # id => Put(old, id, entity)[i] = old[i]
      BY DEF Put
    <2> QED
      BY <1>1, <2>1, <2>2
  <1>3. n = [m EXCEPT !.entities[c] = map]
    <2>1. n = [m EXCEPT !.entities[c] = Put(m.entities[c], id, entity)]
      BY DEF Added
    <2> QED
      BY <1>1, <2>1
  <1>4. /\ Shaped(n) /\ n.entities[c] = map
        /\ \A d \in Clients \ {c} : n.entities[d] = m.entities[d]
        /\ n.participants = m.participants /\ n.topics = m.topics
        /\ n.registered = m.registered /\ n.leaked = m.leaked
    BY <1>3, EntitiesSet
  <1>5. Grown(n, m, c)
    BY <1>2, <1>4 DEF Grown
  <1> QED
    BY <1>2, <1>4, <1>5

\* What a CREATE that succeeds has done.
Made(n, m, c, id) ==
    /\ Sound(n) /\ id \notin DOMAIN m.entities[c]
    /\ DOMAIN n.entities[c] = DOMAIN m.entities[c] \cup {id}
    /\ \A d \in Clients \ {c} : DOMAIN n.entities[d] = DOMAIN m.entities[d]

LEMMA AddSound ==
    ASSUME NEW m, Sound(m), NEW c \in Clients, NEW id, id \notin DOMAIN m.entities[c], NEW entity,
           Fits(m, c, id, entity), NEW n, n = Added(m, c, id, entity)
    PROVE  /\ Made(n, m, c, id) /\ n.entities[c][id] = entity
           /\ n.participants = m.participants /\ n.topics = m.topics
  <1>1. /\ Grown(n, m, c) /\ DOMAIN n.entities[c] = DOMAIN m.entities[c] \cup {id}
        /\ n.entities[c][id] = entity
        /\ n.participants = m.participants /\ n.topics = m.topics
        /\ n.registered = m.registered /\ n.leaked = m.leaked
    BY AddedIs DEF Sound
  <1>2. TopicsSound(n)
    BY <1>1 DEF Sound, TopicsSound
  <1>3. \A i \in DOMAIN n.entities[c] \ DOMAIN m.entities[c] : Fits(n, c, i, n.entities[c][i])
    BY <1>1, GrownFits
  <1>4. Sound(n)
    BY <1>1, <1>2, <1>3, GrownSound
  <1>5. \A d \in Clients \ {c} : n.entities[d] = m.entities[d]
    BY <1>1 DEF Grown
  <1> QED
    BY <1>1, <1>4, <1>5 DEF Made

----------------------------------------------------------------------------
\* Addresses that are free.

RefersTo(entity) == IF HasTopic(entity) THEN entity.topic.participant ELSE entity.participant

LEMMA FreshParticipantIs ==
    ASSUME NEW m, Sound(m), NEW c \in Clients
    PROVE  FreshParticipant(m, c) \in Participants /\ FreshParticipant(m, c) \notin DOMAIN m.participants[c]
  <1> DEFINE Free(p) == /\ p \notin DOMAIN m.participants[c]
                        /\ \A id \in DOMAIN m.entities[c] \cap SubscriberIds :
                              m.entities[c][id].participant # p
  <1>1. ASSUME NEW p \in Participants, ~Free(p)
        PROVE  \E id \in DOMAIN m.entities[c] : RefersTo(m.entities[c][id]) = p
    <2>1. CASE p \in DOMAIN m.participants[c]
      <3>1. p \in KeptParticipants(m, c)
        BY <2>1 DEF Sound, ParticipantSound
      <3>2. CASE \E pair \in Held(m, c) : p = pair.participant
        <4>1. PICK pair \in Held(m, c) : p = pair.participant
          BY <3>2
        <4>2. PICK id \in DOMAIN m.entities[c] :
                 HasTopic(m.entities[c][id]) /\ pair = m.entities[c][id].topic
          BY HeldIs
        <4> QED
          BY <4>1, <4>2 DEF RefersTo
      <3>3. CASE \E i \in DOMAIN m.entities[c] \cap (ParticipantIds \cup PublisherIds) :
                    p = m.entities[c][i].participant
        <4>1. PICK i \in DOMAIN m.entities[c] :
                 i \in ParticipantIds \cup PublisherIds /\ p = m.entities[c][i].participant
          BY <3>3
        <4>2. EntitySound(m, c, i)
          BY DEF Sound
        <4>3. ~HasTopic(m.entities[c][i])
          BY <4>1, <4>2 DEF EntitySound, RightKind, HasTopic
        <4> QED
          BY <4>1, <4>3 DEF RefersTo
      <3> QED
        BY <3>1, <3>2, <3>3 DEF KeptParticipants
    <2>2. CASE \E id \in DOMAIN m.entities[c] \cap SubscriberIds : m.entities[c][id].participant = p
      <3>1. PICK i \in DOMAIN m.entities[c] : i \in SubscriberIds /\ m.entities[c][i].participant = p
        BY <2>2
      <3>2. EntitySound(m, c, i)
        BY DEF Sound
      <3>3. ~HasTopic(m.entities[c][i])
        BY <3>1, <3>2 DEF EntitySound, RightKind, HasTopic
      <3> QED
        BY <3>1, <3>3 DEF RefersTo
    <2> QED
      BY <1>1, <2>1, <2>2
  <1>2. \E p \in Participants : Free(p)
    <2> SUFFICES ASSUME \A p \in Participants : ~Free(p)
                 PROVE  FALSE
      OBVIOUS
    <2> HIDE DEF Free
    <2>1. PICK f : f = [p \in Participants |->
                          CHOOSE id \in DOMAIN m.entities[c] : RefersTo(m.entities[c][id]) = p]
      OBVIOUS
    <2>2. \A p \in Participants : f[p] \in DOMAIN m.entities[c] /\ RefersTo(m.entities[c][f[p]]) = p
      BY <1>1, <2>1
    <2>3. \A id \in DOMAIN m.entities[c] : id \in IdsOf[c]
      BY DEF Sound, EntitySound
    <2>4. f \in [Participants -> IdsOf[c]]
      BY <2>1, <2>2, <2>3
    <2>5. PICK p \in Participants, q \in Participants : p # q /\ f[p] = f[q]
      BY <2>4, AddressesAssumption
    <2> QED
      BY <2>2, <2>5
  <1> QED
    BY <1>2 DEF FreshParticipant

LEMMA FreshTopicIs ==
    ASSUME NEW m, TopicsSound(m)
    PROVE  FreshTopic(m) \in Topics /\ FreshTopic(m) \notin DOMAIN m.topics
  <1>1. \E t \in Topics : t \notin DOMAIN m.topics
    <2> SUFFICES ASSUME \A t \in Topics : t \in DOMAIN m.topics
                 PROVE  FALSE
      OBVIOUS
    <2>1. PICK f : f = [t \in Topics |-> KeyOf(m.topics[t])]
      OBVIOUS
    <2>2. \A t \in Topics : f[t] = KeyOf(m.topics[t]) /\ m.registered[f[t]] = t
      BY <2>1 DEF TopicsSound
    <2>3. \A t \in Topics : KeyOf(m.topics[t]) \in Domains \X Names
      BY RingTyped DEF TopicsSound, KeyOf
    <2>4. f \in [Topics -> Domains \X Names]
      BY <2>1, <2>3
    <2>5. PICK s \in Topics, t \in Topics : s # t /\ f[s] = f[t]
      BY <2>4, AddressesAssumption
    <2> QED
      BY <2>2, <2>5
  <1> QED
    BY <1>1 DEF FreshTopic

\* n is m with other participants of client c.
Repopulated(n, m, c, map) ==
    /\ Shaped(n) /\ n.participants[c] = map
    /\ \A d \in Clients \ {c} : n.participants[d] = m.participants[d]
    /\ n.entities = m.entities /\ n.topics = m.topics
    /\ n.registered = m.registered /\ n.leaked = m.leaked

LEMMA ParticipantsSet ==
    ASSUME NEW m, Shaped(m), NEW c \in Clients, NEW map, NEW n, n = [m EXCEPT !.participants[c] = map]
    PROVE  Repopulated(n, m, c, map)
  <1>1. PICK e, p, t, r, l :
           /\ m = [entities |-> e, participants |-> p, topics |-> t, registered |-> r, leaked |-> l]
           /\ e = m.entities /\ p = m.participants
           /\ e = [d \in Clients |-> e[d]] /\ p = [d \in Clients |-> p[d]]
    BY DEF Shaped
  <1>2. PICK f : f = [p EXCEPT ![c] = map]
    OBVIOUS
  <1>3. /\ f = [d \in Clients |-> f[d]] /\ f[c] = map
        /\ \A d \in Clients \ {c} : f[d] = p[d]
    BY <1>1, <1>2
  <1>4. n = [entities |-> e, participants |-> f, topics |-> t, registered |-> r, leaked |-> l]
    BY <1>1, <1>2
  <1> QED
    BY <1>1, <1>3, <1>4 DEF Shaped, Repopulated

LEMMA CreateParticipantSound ==
    ASSUME NEW m, Sound(m), NEW c \in Clients, NEW r,
           r.id \in ParticipantIds, r.id \in IdsOf[c], r.domain \in Domains, r.id \notin DOMAIN m.entities[c],
           NEW n, n = CreateParticipant(m, c, r)
    PROVE  /\ Made(n, m, c, r.id) /\ n.entities[c][r.id].kind = "participant"
           /\ n.participants[c][n.entities[c][r.id].participant].domain_id = r.domain
  <1>1. PICK p : p = FreshParticipant(m, c) /\ p \in Participants /\ p \notin DOMAIN m.participants[c]
    BY FreshParticipantIs
  <1>2. PICK entity, participant :
           entity = [kind |-> "participant", participant |-> p]
           /\ participant = [domain_id |-> r.domain, topic_register |-> EmptyMap]
    OBVIOUS
  <1>3. PICK a : a = Added(m, c, r.id, entity)
    OBVIOUS
  <1>4. /\ Grown(a, m, c) /\ DOMAIN a.entities[c] = DOMAIN m.entities[c] \cup {r.id}
        /\ a.entities[c][r.id] = entity
        /\ a.participants = m.participants /\ a.topics = m.topics
        /\ a.registered = m.registered /\ a.leaked = m.leaked
    BY <1>3, AddedIs DEF Sound
  <1>5. PICK map : map = Put(m.participants[c], p, participant)
    OBVIOUS
  <1>6. /\ DOMAIN map = DOMAIN m.participants[c] \cup {p} /\ map[p] = participant
        /\ \A q \in DOMAIN m.participants[c] : map[q] = m.participants[c][q]
    BY <1>1, <1>5 DEF Put
  <1>7. n = [a EXCEPT !.participants[c] = map]
    <2>1. n = [a EXCEPT !.participants[c] = Put(a.participants[c], p, participant)]
      BY <1>1, <1>2, <1>3 DEF CreateParticipant
    <2> QED
      BY <1>4, <1>5, <2>1
  <1>8. /\ Shaped(n) /\ n.participants[c] = map
        /\ \A d \in Clients \ {c} : n.participants[d] = m.participants[d]
        /\ n.entities = a.entities /\ n.topics = m.topics
        /\ n.registered = m.registered /\ n.leaked = m.leaked
    <2>1. Shaped(a)
      BY <1>4 DEF Grown
    <2>2. Repopulated(n, a, c, map)
      BY <1>7, <2>1, ParticipantsSet
    <2> QED
      BY <1>4, <2>2 DEF Repopulated
  <1>9. Grown(n, m, c)
    BY <1>4, <1>6, <1>8 DEF Grown
  <1>10. TopicsSound(n)
    BY <1>8 DEF Sound, TopicsSound
  <1>11. /\ DOMAIN n.entities[c] = DOMAIN m.entities[c] \cup {r.id}
         /\ n.entities[c][r.id] = entity /\ entity.kind = "participant" /\ entity.participant = p
    BY <1>2, <1>4, <1>8
  <1>12. Fits(n, c, r.id, entity)
    <2>1. ~HasTopic(entity)
      BY <1>11 DEF HasTopic
    <2>2. RightKind(r.id, entity)
      BY <1>11, KindsAssumption DEF RightKind, ObjectIds
    <2> QED
      BY <1>6, <1>8, <1>11, <2>1, <2>2, KindsAssumption DEF Fits
  <1>13. ParticipantSound(n, c, p)
    <2>1. p \in KeptParticipants(n, c)
      BY <1>11 DEF KeptParticipants
    <2>2. /\ n.participants[c][p] = [domain_id |-> r.domain, topic_register |-> EmptyMap]
          /\ n.participants[c][p].domain_id = r.domain
          /\ n.participants[c][p].topic_register = EmptyMap /\ DOMAIN EmptyMap = {}
      BY <1>2, <1>6, <1>8 DEF EmptyMap
    <2> QED
      BY <1>1, <2>1, <2>2 DEF ParticipantSound
  <1>14. Sound(n)
    <2>1. \A i \in DOMAIN n.entities[c] \ DOMAIN m.entities[c] : Fits(n, c, i, n.entities[c][i])
      BY <1>11, <1>12
    <2>2. \A q \in DOMAIN n.participants[c] :
             ParticipantSound(n, c, q)
               \/ (q \in DOMAIN m.participants[c] /\ n.participants[c][q] = m.participants[c][q])
      <3>1. ASSUME NEW q \in DOMAIN n.participants[c], q # p
            PROVE  q \in DOMAIN m.participants[c] /\ n.participants[c][q] = m.participants[c][q]
        BY <1>6, <1>8, <3>1
      <3> QED
        BY <1>13, <3>1
    <2> QED
      BY <1>9, <1>10, <2>1, <2>2, GrownSound
  <1>15. Made(n, m, c, r.id)
    BY <1>9, <1>11, <1>14 DEF Made, Grown
  <1> QED
    BY <1>2, <1>6, <1>8, <1>11, <1>15

\* CedTopicManager::register_topic
LEMMA RegisterSound ==
    ASSUME NEW m, Sound(m), NEW c \in Clients, NEW domain \in Domains, NEW name \in Names,
           NEW n, n = RegisterTopic(m, domain, name)
    PROVE  /\ Sound(n) /\ n.entities = m.entities /\ n.participants = m.participants
           /\ <<domain, name>> \in DOMAIN n.registered
           /\ n.registered[<<domain, name>>] \in DOMAIN n.topics
           /\ n.topics[n.registered[<<domain, name>>]].domain_id = domain
           /\ n.topics[n.registered[<<domain, name>>]].name = name
  <1>1. PICK key : key = <<domain, name>>
    OBVIOUS
  <1>2. CASE key \in DOMAIN m.registered
    <2>1. n = m
      BY <1>1, <1>2 DEF RegisterTopic
    <2>2. m.registered[key] \in DOMAIN m.topics /\ KeyOf(m.topics[m.registered[key]]) = key
      BY <1>2 DEF Sound, TopicsSound
    <2> QED
      BY <1>1, <1>2, <2>1, <2>2 DEF KeyOf
  <1>3. CASE key \notin DOMAIN m.registered
    <2>1. PICK t : t = FreshTopic(m) /\ t \in Topics /\ t \notin DOMAIN m.topics
      BY FreshTopicIs DEF Sound
    <2>2. PICK topic : topic = NewTopic(domain, name)
      OBVIOUS
    <2>3. /\ RingSound(topic) /\ KeyOf(topic) = key /\ topic.domain_id = domain /\ topic.name = name
      BY <1>1, <2>2, NewTopicSound DEF NewTopic
    <2>4. n = [m EXCEPT !.topics = Put(@, t, topic), !.registered = Put(@, key, t)]
      BY <1>1, <1>3, <2>1, <2>2 DEF RegisterTopic
    <2>5. PICK T, R : T = Put(m.topics, t, topic) /\ R = Put(m.registered, key, t)
      OBVIOUS
    <2>6. /\ n.entities = m.entities /\ n.participants = m.participants /\ n.leaked = m.leaked
          /\ n.topics = T /\ n.registered = R /\ Shaped(n)
      BY <2>4, <2>5 DEF Sound, Shaped
    <2>7. /\ DOMAIN n.topics = DOMAIN m.topics \cup {t} /\ n.topics[t] = topic
          /\ \A s \in DOMAIN m.topics : n.topics[s] = m.topics[s]
      BY <2>1, <2>5, <2>6 DEF Put
    <2>8. /\ DOMAIN n.registered = DOMAIN m.registered \cup {key} /\ n.registered[key] = t
          /\ \A k \in DOMAIN m.registered : n.registered[k] = m.registered[k]
      BY <1>3, <2>5, <2>6 DEF Put
    <2>9. Grown(n, m, c)
      BY <2>6, <2>7 DEF Grown
    <2>10. TopicsSound(n)
      <3>1. ASSUME NEW s \in DOMAIN n.topics
            PROVE  /\ s \in Topics /\ RingSound(n.topics[s])
                   /\ KeyOf(n.topics[s]) \in DOMAIN n.registered
                   /\ n.registered[KeyOf(n.topics[s])] = s
        <4>1. CASE s = t
          BY <2>1, <2>3, <2>7, <2>8, <4>1
        <4>2. CASE s # t
          <5>1. /\ s \in Topics /\ RingSound(m.topics[s]) /\ KeyOf(m.topics[s]) \in DOMAIN m.registered
                /\ m.registered[KeyOf(m.topics[s])] = s /\ n.topics[s] = m.topics[s]
            BY <2>7, <4>2 DEF Sound, TopicsSound
          <5> QED
            BY <2>8, <5>1
        <4> QED
          BY <4>1, <4>2
      <3>2. ASSUME NEW k \in DOMAIN n.registered
            PROVE  n.registered[k] \in DOMAIN n.topics /\ KeyOf(n.topics[n.registered[k]]) = k
        <4>1. CASE k = key
          BY <2>3, <2>7, <2>8, <4>1
        <4>2. CASE k # key
          <5>1. m.registered[k] \in DOMAIN m.topics /\ KeyOf(m.topics[m.registered[k]]) = k
                /\ n.registered[k] = m.registered[k]
            BY <2>8, <4>2 DEF Sound, TopicsSound
          <5> QED
            BY <2>7, <5>1
        <4> QED
          BY <4>1, <4>2
      <3>3. n.leaked \subseteq DOMAIN n.topics
        BY <2>6, <2>7 DEF Sound, TopicsSound
      <3> QED
        BY <3>1, <3>2, <3>3 DEF TopicsSound
    <2>11. Sound(n)
      BY <2>6, <2>9, <2>10, GrownSound
    <2> QED
      BY <1>1, <2>3, <2>6, <2>7, <2>8, <2>11
  <1> QED
    BY <1>2, <1>3

\* CedParticipant::find_topic
LEMMA FindIs ==
    ASSUME NEW m, Sound(m), NEW c \in Clients, NEW p \in DOMAIN m.participants[c], NEW name,
           NEW found, found = FindTopic(m, c, p, name)
    PROVE  IF name \in DOMAIN m.participants[c][p].topic_register
           THEN /\ found = m.participants[c][p].topic_register[name] /\ found # Null
                /\ PairSound(m, c, [participant |-> p, topic |-> found])
                /\ found \in DOMAIN m.topics /\ m.topics[found].name = name
           ELSE found = Null
  <1>1. CASE name \in DOMAIN m.participants[c][p].topic_register
    <2>1. PICK t : t = m.participants[c][p].topic_register[name]
      OBVIOUS
    <2>2. /\ [participant |-> p, topic |-> t] \in Held(m, c)
          /\ PairSound(m, c, [participant |-> p, topic |-> t])
          /\ t \in DOMAIN m.topics /\ t \in Topics /\ m.topics[t].name = name
      BY <1>1, <2>1, RegisterAlive
    <2>3. found = t
      BY <1>1, <2>1, <2>2 DEF FindTopic
    <2>4. t # Null
      BY <2>2, AddressesAssumption
    <2> QED
      BY <1>1, <2>1, <2>2, <2>3, <2>4
  <1>2. CASE name \notin DOMAIN m.participants[c][p].topic_register
    BY <1>2 DEF FindTopic
  <1> QED
    BY <1>1, <1>2

\* The topic a participant has of a name it did not have.
OnParticipant(m, c, id, entity, p, name, t) ==
    [Added(m, c, id, entity) EXCEPT !.participants[c][p].topic_register = Put(@, name, t)]

LEMMA NewOnParticipant ==
    ASSUME NEW m, Sound(m), NEW c \in Clients, NEW p \in DOMAIN m.participants[c],
           NEW t \in DOMAIN m.topics, m.topics[t].domain_id = m.participants[c][p].domain_id,
           NEW name, m.topics[t].name = name,
           name \notin DOMAIN m.participants[c][p].topic_register,
           NEW id, id \notin DOMAIN m.entities[c], id \in TopicIds, id \in IdsOf[c],
           NEW entity, entity = [kind |-> "topic", topic |-> [participant |-> p, topic |-> t]],
           NEW n, n = OnParticipant(m, c, id, entity, p, name, t)
    PROVE  Made(n, m, c, id) /\ n.entities[c][id] = entity /\ n.topics = m.topics
  <1>1. PICK register, domain :
           /\ domain = m.participants[c][p].domain_id
           /\ register = m.participants[c][p].topic_register
    OBVIOUS
  <1>2. PICK after : after = Put(register, name, t)
    OBVIOUS
  <1>3. /\ DOMAIN after = DOMAIN register \cup {name} /\ after[name] = t
        /\ \A x \in DOMAIN register : x # name /\ after[x] = register[x]
    BY <1>1, <1>2 DEF Put
  <1>4. PICK a : a = Added(m, c, id, entity)
    OBVIOUS
  <1>5. /\ Grown(a, m, c) /\ DOMAIN a.entities[c] = DOMAIN m.entities[c] \cup {id}
        /\ a.entities[c][id] = entity
        /\ a.participants = m.participants /\ a.topics = m.topics
        /\ a.registered = m.registered /\ a.leaked = m.leaked
    BY <1>4, AddedIs DEF Sound
  <1>6. ParticipantSound(m, c, p)
    BY DEF Sound
  <1>7. m.participants[c][p] = [domain_id |-> domain, topic_register |-> register]
        /\ domain \in Domains /\ p \in Participants
    BY <1>1, <1>6 DEF ParticipantSound
  <1>8. PICK map : map = [m.participants[c] EXCEPT ![p] = [domain_id |-> domain, topic_register |-> after]]
    OBVIOUS
  <1>9. /\ DOMAIN map = DOMAIN m.participants[c]
        /\ map[p] = [domain_id |-> domain, topic_register |-> after]
        /\ \A q \in DOMAIN m.participants[c] : q # p => map[q] = m.participants[c][q]
    BY <1>8
  <1>10. n = [a EXCEPT !.participants[c] = map]
    <2>1. n = [a EXCEPT !.participants[c] =
                 [a.participants[c] EXCEPT ![p] =
                    [a.participants[c][p] EXCEPT !.topic_register = Put(a.participants[c][p].topic_register, name, t)]]]
      BY <1>4 DEF OnParticipant
    <2>2. [a.participants[c][p] EXCEPT !.topic_register = Put(a.participants[c][p].topic_register, name, t)]
             = [domain_id |-> domain, topic_register |-> after]
      BY <1>1, <1>2, <1>5, <1>7
    <2> QED
      BY <1>5, <1>8, <2>1, <2>2
  <1>11. /\ Shaped(n) /\ n.participants[c] = map
         /\ \A d \in Clients \ {c} : n.participants[d] = m.participants[d]
         /\ n.entities = a.entities /\ n.topics = m.topics
         /\ n.registered = m.registered /\ n.leaked = m.leaked
    <2>1. Shaped(a)
      BY <1>5 DEF Grown
    <2>2. Repopulated(n, a, c, map)
      BY <1>10, <2>1, ParticipantsSet
    <2> QED
      BY <1>5, <2>2 DEF Repopulated
  <1>12. Grown(n, m, c)
    <2>1. ASSUME NEW q \in DOMAIN m.participants[c]
          PROVE  /\ n.participants[c][q].domain_id = m.participants[c][q].domain_id
                 /\ \A x \in DOMAIN m.participants[c][q].topic_register :
                       /\ x \in DOMAIN n.participants[c][q].topic_register
                       /\ n.participants[c][q].topic_register[x] = m.participants[c][q].topic_register[x]
      BY <1>1, <1>3, <1>9, <1>11
    <2>2. DOMAIN m.participants[c] \subseteq DOMAIN n.participants[c]
      BY <1>9, <1>11
    <2>3. /\ DOMAIN m.entities[c] \subseteq DOMAIN n.entities[c]
          /\ \A i \in DOMAIN m.entities[c] : n.entities[c][i] = m.entities[c][i]
          /\ \A d \in Clients \ {c} : n.entities[d] = m.entities[d]
      BY <1>5, <1>11 DEF Grown
    <2> QED
      BY <1>11, <2>1, <2>2, <2>3 DEF Grown
  <1>13. TopicsSound(n)
    BY <1>11 DEF Sound, TopicsSound
  <1>14. /\ DOMAIN n.entities[c] = DOMAIN m.entities[c] \cup {id} /\ n.entities[c][id] = entity
         /\ entity.kind = "topic" /\ entity.topic = [participant |-> p, topic |-> t]
         /\ entity.topic.participant = p /\ entity.topic.topic = t
    BY <1>5, <1>11
  <1>15. PairSound(n, c, entity.topic)
    <2>1. entity.topic \in [participant : DOMAIN n.participants[c], topic : DOMAIN n.topics]
      BY <1>9, <1>11, <1>14
    <2> QED
      BY <1>1, <1>3, <1>9, <1>11, <1>14, <2>1 DEF PairSound
  <1>16. Fits(n, c, id, entity)
    <2>1. RightKind(id, entity)
      BY <1>14, KindsAssumption DEF RightKind, ObjectIds
    <2> QED
      BY <1>15, <2>1, KindsAssumption DEF Fits
  <1>17. ParticipantSound(n, c, p)
    <2>1. [participant |-> p, topic |-> t] \in Held(n, c)
      <3>1. id \in DOMAIN n.entities[c] /\ HasTopic(n.entities[c][id])
            /\ n.entities[c][id].topic = [participant |-> p, topic |-> t]
        BY <1>14 DEF HasTopic
      <3> QED
        BY <3>1, HeldIs
    <2>2. p \in KeptParticipants(n, c)
      BY <2>1 DEF KeptParticipants
    <2>3. ASSUME NEW x \in DOMAIN after
          PROVE  [participant |-> p, topic |-> after[x]] \in Held(n, c) /\ n.topics[after[x]].name = x
      <3>1. CASE x = name
        BY <1>1, <1>3, <1>11, <2>1, <3>1
      <3>2. CASE x # name
        <4>1. x \in DOMAIN register /\ after[x] = register[x]
          BY <1>3, <3>2
        <4>2. /\ [participant |-> p, topic |-> register[x]] \in Held(m, c)
              /\ m.topics[register[x]].name = x
          BY <1>1, <1>6, <4>1 DEF ParticipantSound
        <4> QED
          BY <1>11, <1>12, <4>1, <4>2, GrownHeld
      <3> QED
        BY <3>1, <3>2
    <2>4. /\ n.participants[c][p] = [domain_id |-> domain, topic_register |-> after]
          /\ n.participants[c][p].domain_id = domain /\ n.participants[c][p].topic_register = after
      BY <1>9, <1>11
    <2> QED
      BY <1>7, <2>2, <2>3, <2>4 DEF ParticipantSound
  <1>18. Sound(n)
    <2>1. \A i \in DOMAIN n.entities[c] \ DOMAIN m.entities[c] : Fits(n, c, i, n.entities[c][i])
      BY <1>14, <1>16
    <2>2. ASSUME NEW q \in DOMAIN n.participants[c]
          PROVE  ParticipantSound(n, c, q)
                   \/ (q \in DOMAIN m.participants[c] /\ n.participants[c][q] = m.participants[c][q])
      BY <1>9, <1>11, <1>17
    <2> QED
      BY <1>12, <1>13, <2>1, <2>2, GrownSound
  <1> QED
    BY <1>11, <1>12, <1>14, <1>18 DEF Made, Grown

LEMMA ParentIs ==
    ASSUME NEW m, Sound(m), NEW c \in Clients, NEW id \in DOMAIN m.entities[c], id \in ParticipantIds
    PROVE  m.entities[c][id].participant \in DOMAIN m.participants[c]
  <1>1. EntitySound(m, c, id)
    BY DEF Sound
  <1> QED
    BY <1>1 DEF EntitySound

LEMMA CreateTopicSound ==
    ASSUME NEW m, Sound(m), NEW c \in Clients, NEW r,
           r.id \in TopicIds, r.id \in IdsOf[c], r.parent \in ParticipantIds, r.name \in Names,
           r.id \notin DOMAIN m.entities[c], r.parent \in DOMAIN m.entities[c],
           NEW n, n = CreateTopic(m, c, r)
    PROVE  /\ Made(n, m, c, r.id) /\ HasTopic(n.entities[c][r.id])
           /\ n.topics[n.entities[c][r.id].topic.topic].name = r.name
  <1>1. PICK p \in DOMAIN m.participants[c] : p = m.entities[c][r.parent].participant
    BY ParentIs
  <1>2. PICK found : found = FindTopic(m, c, p, r.name)
    OBVIOUS
  <1>3. CASE found # Null
    <2>1. /\ PairSound(m, c, [participant |-> p, topic |-> found]) /\ m.topics[found].name = r.name
      BY <1>2, <1>3, FindIs
    <2>2. PICK entity : entity = [kind |-> "topic", topic |-> [participant |-> p, topic |-> found]]
      OBVIOUS
    <2>3. Fits(m, c, r.id, entity) /\ HasTopic(entity) /\ entity.topic.topic = found
      BY <2>1, <2>2, KindsAssumption DEF Fits, RightKind, ObjectIds, HasTopic
    <2>4. n = Added(m, c, r.id, entity)
      BY <1>1, <1>2, <1>3, <2>2 DEF CreateTopic
    <2>5. Made(n, m, c, r.id) /\ n.entities[c][r.id] = entity /\ n.topics = m.topics
      BY <2>3, <2>4, AddSound
    <2> QED
      BY <2>1, <2>3, <2>5
  <1>4. CASE found = Null
    <2>1. r.name \notin DOMAIN m.participants[c][p].topic_register
      BY <1>2, <1>4, FindIs
    <2>2. PICK domain : domain = m.participants[c][p].domain_id
      OBVIOUS
    <2>3. domain \in Domains
      BY <2>2 DEF Sound, ParticipantSound
    <2>4. PICK made, t : made = RegisterTopic(m, domain, r.name) /\ t = made.registered[<<domain, r.name>>]
      OBVIOUS
    <2>5. /\ Sound(made) /\ made.entities = m.entities /\ made.participants = m.participants
          /\ t \in DOMAIN made.topics
          /\ made.topics[t].domain_id = domain /\ made.topics[t].name = r.name
      BY <2>3, <2>4, RegisterSound
    <2>6. PICK entity : entity = [kind |-> "topic", topic |-> [participant |-> p, topic |-> t]]
      OBVIOUS
    <2>7. n = [Added(made, c, r.id, entity) EXCEPT !.participants[c][p].topic_register = Put(@, r.name, t)]
      BY <1>1, <1>2, <1>4, <2>2, <2>4, <2>6, ZenonT(60) DEF CreateTopic
    <2>8. Made(n, made, c, r.id) /\ n.entities[c][r.id] = entity /\ n.topics = made.topics
      <3>1. n = OnParticipant(made, c, r.id, entity, p, r.name, t)
        BY <2>7 DEF OnParticipant
      <3>2. /\ p \in DOMAIN made.participants[c]
            /\ made.topics[t].domain_id = made.participants[c][p].domain_id
            /\ r.name \notin DOMAIN made.participants[c][p].topic_register
            /\ r.id \notin DOMAIN made.entities[c]
        BY <2>1, <2>2, <2>5
      <3> QED
        BY <2>5, <2>6, <3>1, <3>2, NewOnParticipant
    <2>9. Made(n, m, c, r.id)
      BY <2>5, <2>8 DEF Made
    <2> QED
      BY <2>5, <2>6, <2>8, <2>9 DEF HasTopic
  <1> QED
    BY <1>3, <1>4

LEMMA CreatePublisherSound ==
    ASSUME NEW m, Sound(m), NEW c \in Clients, NEW r,
           r.id \in PublisherIds, r.id \in IdsOf[c], r.parent \in ParticipantIds,
           r.id \notin DOMAIN m.entities[c], r.parent \in DOMAIN m.entities[c],
           NEW n, n = CreatePublisher(m, c, r)
    PROVE  Made(n, m, c, r.id) /\ ~HasTopic(n.entities[c][r.id])
  <1>1. PICK p \in DOMAIN m.participants[c] : p = m.entities[c][r.parent].participant
    BY ParentIs
  <1>2. PICK entity : entity = [kind |-> "publisher", participant |-> p]
    OBVIOUS
  <1>3. entity.kind = "publisher" /\ entity.participant = p /\ ~HasTopic(entity)
    BY <1>2 DEF HasTopic
  <1>4. RightKind(r.id, entity)
    BY <1>3, KindsAssumption DEF RightKind, ObjectIds
  <1>5. Fits(m, c, r.id, entity)
    BY <1>3, <1>4, KindsAssumption DEF Fits
  <1>6. n = Added(m, c, r.id, entity)
    BY <1>1, <1>2 DEF CreatePublisher
  <1> QED
    BY <1>3, <1>5, <1>6, AddSound

LEMMA CreateSubscriberSound ==
    ASSUME NEW m, Sound(m), NEW c \in Clients, NEW r,
           r.id \in SubscriberIds, r.id \in IdsOf[c], r.parent \in ParticipantIds,
           r.id \notin DOMAIN m.entities[c],
           NEW n, n = CreateSubscriber(m, c, r)
    PROVE  Made(n, m, c, r.id) /\ ~HasTopic(n.entities[c][r.id])
  <1>1. PICK entity : entity = [kind |-> "subscriber", entry |-> r.parent,
                                participant |-> m.entities[c][r.parent].participant]
    OBVIOUS
  <1>2. entity.kind = "subscriber" /\ entity.entry = r.parent /\ ~HasTopic(entity)
    BY <1>1 DEF HasTopic
  <1>3. RightKind(r.id, entity)
    BY <1>2, KindsAssumption DEF RightKind, ObjectIds
  <1>4. Fits(m, c, r.id, entity)
    BY <1>2, <1>3, KindsAssumption DEF Fits
  <1>5. n = Added(m, c, r.id, entity)
    BY <1>1 DEF CreateSubscriber
  <1> QED
    BY <1>2, <1>4, <1>5, AddSound

\* The participants a publisher or subscriber may be found to be of are alive.
LEMMA HoldersAlive ==
    ASSUME NEW m, Sound(m), NEW c \in Clients, NEW parent \in DOMAIN m.entities[c],
           parent \in PublisherIds \cup SubscriberIds,
           NEW p \in ParticipantsOf(m, c, parent)
    PROVE  p \in DOMAIN m.participants[c]
  <1>1. PICK entity : entity = m.entities[c][parent] /\ Fits(m, c, parent, entity)
    BY FitsIs DEF Sound
  <1>2. CASE parent \in PublisherIds
    <2>1. entity.kind = "publisher" /\ entity.participant \in DOMAIN m.participants[c]
      BY <1>1, <1>2 DEF Fits, RightKind
    <2> QED
      BY <1>1, <2>1 DEF ParticipantsOf
  <1>3. CASE parent \in SubscriberIds
    <2>1. entity.kind = "subscriber" /\ entity.entry \in ParticipantIds
      BY <1>1, <1>3 DEF Fits, RightKind
    <2>2. CASE Dangling(m, c, entity)
      BY <1>1, <2>1, <2>2 DEF ParticipantsOf
    <2>3. CASE ~Dangling(m, c, entity)
      <3>1. /\ p = entity.participant /\ entity.entry \in DOMAIN m.entities[c]
            /\ m.entities[c][entity.entry].participant = entity.participant
        BY <1>1, <2>3 DEF ParticipantsOf, Dangling
      <3>2. m.entities[c][entity.entry].participant \in DOMAIN m.participants[c]
        BY <2>1, <3>1, ParentIs
      <3> QED
        BY <3>1, <3>2
    <2> QED
      BY <2>2, <2>3
  <1> QED
    BY <1>2, <1>3

LEMMA CreateOnTopicSound ==
    ASSUME NEW m, Sound(m), NEW c \in Clients, NEW r, r.id \in IdsOf[c],
           \/ r.kind = "datawriter" /\ r.id \in DataWriterIds
           \/ r.kind = "datareader" /\ r.id \in DataReaderIds,
           r.parent \in PublisherIds \cup SubscriberIds,
           r.id \notin DOMAIN m.entities[c], r.parent \in DOMAIN m.entities[c],
           NEW n \in CreateOnTopic(m, c, r), n # m
    PROVE  /\ Made(n, m, c, r.id) /\ HasTopic(n.entities[c][r.id])
           /\ n.topics[n.entities[c][r.id].topic.topic].name = r.name
  <1>1. PICK p \in ParticipantsOf(m, c, r.parent) :
           /\ FindTopic(m, c, p, r.name) # Null
           /\ n = Added(m, c, r.id, OnTopic(r, [participant |-> p, topic |-> FindTopic(m, c, p, r.name)]))
    BY DEF CreateOnTopic
  <1>2. PICK found : found = FindTopic(m, c, p, r.name)
    OBVIOUS
  <1>3. p \in DOMAIN m.participants[c]
    BY HoldersAlive
  <1>4. /\ PairSound(m, c, [participant |-> p, topic |-> found])
        /\ found \in DOMAIN m.topics /\ m.topics[found].name = r.name
    BY <1>1, <1>2, <1>3, FindIs
  <1>5. PICK pair : pair = [participant |-> p, topic |-> found]
    OBVIOUS
  <1>6. PICK entity : entity = OnTopic(r, pair)
    OBVIOUS
  <1>7. PairSound(m, c, pair) /\ pair.topic = found
    BY <1>4, <1>5
  <1>8. n = Added(m, c, r.id, entity)
    BY <1>1, <1>2, <1>5, <1>6
  <1>9. Fits(m, c, r.id, entity) /\ HasTopic(entity) /\ entity.topic = pair
    <2>1. CASE r.kind = "datawriter" /\ r.id \in DataWriterIds
      <3>1. entity = [kind |-> "datawriter", topic |-> pair]
        BY <1>6, <2>1 DEF OnTopic, DataWriter
      <3>2. RightKind(r.id, entity) /\ HasTopic(entity) /\ entity.topic = pair
        BY <2>1, <3>1, KindsAssumption DEF RightKind, ObjectIds, HasTopic
      <3> QED
        BY <1>7, <2>1, <3>2, KindsAssumption DEF Fits
    <2>2. CASE r.kind = "datareader" /\ r.id \in DataReaderIds
      <3>1. entity = [kind |-> "datareader", topic |-> pair, reader |-> NewReader]
        BY <1>6, <2>2 DEF OnTopic, DataReader
      <3>2. /\ RightKind(r.id, entity) /\ HasTopic(entity) /\ entity.topic = pair
            /\ entity.reader = NewReader
            /\ entity = [kind |-> "datareader", topic |-> entity.topic, reader |-> entity.reader]
        BY <2>2, <3>1, KindsAssumption DEF RightKind, ObjectIds, HasTopic
      <3>3. ReaderSound(m.topics[found], NewReader, ReadAccess[c])
        <4>1. RingSound(m.topics[found])
          BY <1>4 DEF Sound, TopicsSound
        <4> QED
          BY <4>1, NewReaderSound
      <3> QED
        BY <1>7, <2>2, <3>2, <3>3, KindsAssumption DEF Fits
    <2> QED
      BY <2>1, <2>2
  <1>10. Made(n, m, c, r.id) /\ n.entities[c][r.id] = entity /\ n.topics = m.topics
    BY <1>8, <1>9, AddSound
  <1> QED
    BY <1>4, <1>7, <1>9, <1>10

\* What is asked for, by kind.
LEMMA ObjectRequestIs ==
    ASSUME NEW c \in Clients, NEW r \in ObjectRequests[c]
    PROVE  /\ r.id \in IdsOf[c] /\ r.id \in ObjectIds
           /\ \/ r.kind = "participant" /\ r.id \in ParticipantIds /\ r.domain \in Domains
              \/ r.kind = "topic" /\ r.id \in TopicIds /\ r.parent \in ParticipantIds /\ r.name \in Names
              \/ r.kind = "publisher" /\ r.id \in PublisherIds /\ r.parent \in ParticipantIds
              \/ r.kind = "subscriber" /\ r.id \in SubscriberIds /\ r.parent \in ParticipantIds
              \/ r.kind = "datawriter" /\ r.id \in DataWriterIds /\ r.parent \in PublisherIds
              \/ r.kind = "datareader" /\ r.id \in DataReaderIds /\ r.parent \in SubscriberIds
  <1>1. r.id \in IdsOf[c]
        /\ \/ r \in [kind : {"participant"}, id : ParticipantIds, domain : DomainsOf[c]]
           \/ r \in Named("topic", TopicIds, ParticipantIds)
           \/ r \in Unnamed("publisher", PublisherIds, ParticipantIds)
           \/ r \in Unnamed("subscriber", SubscriberIds, ParticipantIds)
           \/ r \in Named("datawriter", DataWriterIds, PublisherIds)
           \/ r \in Named("datareader", DataReaderIds, SubscriberIds)
    BY DEF ObjectRequests
  <1>2. DomainsOf[c] \subseteq Domains /\ IdsOf[c] \subseteq ObjectIds
    BY EntitiesAssumption
  <1> QED
    BY <1>1, <1>2 DEF Named, Unnamed

\* The entity of a request is of the domain, or topic name, asked for.
Asked(n, c, r) ==
    /\ r.kind = "participant" =>
          n.participants[c][n.entities[c][r.id].participant].domain_id = r.domain
    /\ r.kind # "participant" /\ HasTopic(n.entities[c][r.id]) =>
          n.topics[n.entities[c][r.id].topic.topic].name = r.name

LEMMA CreateSound ==
    ASSUME NEW m, Sound(m), NEW c \in Clients, NEW r \in ObjectRequests[c], NEW n \in Create(m, c, r), n # m
    PROVE  Made(n, m, c, r.id) /\ Asked(n, c, r)
  <1>1. r.id \notin DOMAIN m.entities[c]
    BY DEF Create
  <1>2. r.kind # "participant" => r.parent \in DOMAIN m.entities[c]
    BY <1>1 DEF Create
  <1>3. CASE r.kind = "participant" /\ r.id \in ParticipantIds /\ r.domain \in Domains
    <2>1. n = CreateParticipant(m, c, r)
      BY <1>1, <1>3 DEF Create
    <2>2. r.id \in IdsOf[c]
      BY ObjectRequestIs
    <2>3. /\ Made(n, m, c, r.id) /\ n.entities[c][r.id].kind = "participant"
          /\ n.participants[c][n.entities[c][r.id].participant].domain_id = r.domain
      BY <1>1, <1>3, <2>1, <2>2, CreateParticipantSound
    <2> QED
      BY <1>3, <2>3 DEF Asked
  <1>4. CASE r.kind = "topic" /\ r.id \in TopicIds /\ r.parent \in ParticipantIds /\ r.name \in Names
    <2>1. n = CreateTopic(m, c, r)
      BY <1>1, <1>2, <1>4 DEF Create
    <2>2. r.id \in IdsOf[c]
      BY ObjectRequestIs
    <2>3. r.kind # "participant" /\ r.parent \in DOMAIN m.entities[c]
      BY <1>2, <1>4
    <2>4. /\ Made(n, m, c, r.id) /\ HasTopic(n.entities[c][r.id])
          /\ n.topics[n.entities[c][r.id].topic.topic].name = r.name
      BY <1>1, <1>4, <2>1, <2>2, <2>3, CreateTopicSound
    <2> QED
      BY <2>3, <2>4 DEF Asked
  <1>5. CASE r.kind = "publisher" /\ r.id \in PublisherIds /\ r.parent \in ParticipantIds
    <2>1. n = CreatePublisher(m, c, r)
      BY <1>1, <1>2, <1>5 DEF Create
    <2> QED
      BY <1>1, <1>2, <1>5, <2>1, ObjectRequestIs, CreatePublisherSound DEF Asked
  <1>6. CASE r.kind = "subscriber" /\ r.id \in SubscriberIds /\ r.parent \in ParticipantIds
    <2>1. n = CreateSubscriber(m, c, r)
      BY <1>1, <1>2, <1>6 DEF Create
    <2> QED
      BY <1>1, <1>2, <1>6, <2>1, ObjectRequestIs, CreateSubscriberSound DEF Asked
  <1>7. CASE \/ r.kind = "datawriter" /\ r.id \in DataWriterIds /\ r.parent \in PublisherIds
             \/ r.kind = "datareader" /\ r.id \in DataReaderIds /\ r.parent \in SubscriberIds
    <2>1. n \in CreateOnTopic(m, c, r)
      BY <1>1, <1>2, <1>7 DEF Create
    <2>2. r.id \in IdsOf[c]
      BY ObjectRequestIs
    <2>3. r.kind # "participant" /\ r.parent \in DOMAIN m.entities[c]
      BY <1>2, <1>7
    <2>4. /\ Made(n, m, c, r.id) /\ HasTopic(n.entities[c][r.id])
          /\ n.topics[n.entities[c][r.id].topic.topic].name = r.name
      BY <1>1, <1>7, <2>1, <2>2, <2>3, CreateOnTopicSound
    <2> QED
      BY <2>3, <2>4 DEF Asked
  <1> QED
    BY <1>3, <1>4, <1>5, <1>6, <1>7, ObjectRequestIs

----------------------------------------------------------------------------
(* Samples *)

\* A writer's topic is alive, and so is a reader's.
LEMMA TopicAlive ==
    ASSUME NEW m, Sound(m), NEW c \in Clients, NEW id \in DOMAIN m.entities[c],
           id \in DataWriterIds \cup DataReaderIds
    PROVE  /\ HasTopic(m.entities[c][id]) /\ m.entities[c][id].topic.topic \in DOMAIN m.topics
           /\ RingSound(m.topics[m.entities[c][id].topic.topic])
  <1>1. EntitySound(m, c, id)
    BY DEF Sound
  <1>2. HasTopic(m.entities[c][id])
    BY <1>1 DEF EntitySound, RightKind, HasTopic
  <1>3. m.entities[c][id].topic.topic \in DOMAIN m.topics
    BY <1>1, <1>2 DEF EntitySound, PairSound
  <1> QED
    BY <1>2, <1>3 DEF Sound, TopicsSound

\* m with one topic changed.
TopicSet(m, t, topic) == [m EXCEPT !.topics[t] = topic]

LEMMA TopicSetSound ==
    ASSUME NEW m, Sound(m), NEW t \in DOMAIN m.topics, NEW topic, RingSound(topic),
           KeyOf(topic) = KeyOf(m.topics[t]),
           ~Overrun => \A d \in Clients : \A i \in DOMAIN m.entities[d] \cap DataReaderIds :
               m.entities[d][i].topic.topic = t =>
                   ReaderSound(topic, m.entities[d][i].reader, ReadAccess[d]),
           NEW n, n = TopicSet(m, t, topic)
    PROVE  Sound(n) /\ n.entities = m.entities
  <1>1. /\ Shaped(n) /\ n.entities = m.entities /\ n.participants = m.participants
        /\ n.registered = m.registered /\ n.leaked = m.leaked
        /\ n.topics = [m.topics EXCEPT ![t] = topic]
    BY DEF TopicSet, Sound, Shaped
  <1>2. /\ DOMAIN n.topics = DOMAIN m.topics /\ n.topics[t] = topic
        /\ \A s \in DOMAIN m.topics : s # t => n.topics[s] = m.topics[s]
    BY <1>1
  <1>3. \A s \in DOMAIN m.topics : KeyOf(n.topics[s]) = KeyOf(m.topics[s]) /\ RingSound(n.topics[s])
    BY <1>2 DEF Sound, TopicsSound
  <1>4. \A s \in DOMAIN m.topics :
           n.topics[s].name = m.topics[s].name /\ n.topics[s].domain_id = m.topics[s].domain_id
    BY <1>3 DEF KeyOf
  <1>5. \A d \in Clients : Held(n, d) = Held(m, d) /\ KeptParticipants(n, d) = KeptParticipants(m, d)
    BY <1>1, HeldSame
  <1>6. TopicsSound(n)
    <2>1. ASSUME NEW s \in DOMAIN n.topics
          PROVE  /\ s \in Topics /\ RingSound(n.topics[s])
                 /\ KeyOf(n.topics[s]) \in DOMAIN n.registered
                 /\ n.registered[KeyOf(n.topics[s])] = s
      BY <1>1, <1>2, <1>3 DEF Sound, TopicsSound
    <2>2. ASSUME NEW key \in DOMAIN n.registered
          PROVE  n.registered[key] \in DOMAIN n.topics /\ KeyOf(n.topics[n.registered[key]]) = key
      <3>1. m.registered[key] \in DOMAIN m.topics /\ KeyOf(m.topics[m.registered[key]]) = key
        BY <1>1 DEF Sound, TopicsSound
      <3> QED
        BY <1>1, <1>2, <1>3, <3>1
    <2>3. n.leaked \subseteq DOMAIN n.topics
      BY <1>1, <1>2 DEF Sound, TopicsSound
    <2> QED
      BY <2>1, <2>2, <2>3 DEF TopicsSound
  <1>7. ASSUME NEW d \in Clients, NEW p \in DOMAIN n.participants[d]
        PROVE  ParticipantSound(n, d, p)
    <2>1. PICK participant : participant = m.participants[d][p] /\ participant = n.participants[d][p]
      BY <1>1
    <2>2. ParticipantSound(m, d, p)
      BY <1>1 DEF Sound
    <2>3. ASSUME NEW name \in DOMAIN participant.topic_register
          PROVE  n.topics[participant.topic_register[name]].name = name
      <3>1. participant.topic_register[name] \in DOMAIN m.topics
            /\ m.topics[participant.topic_register[name]].name = name
        <4>1. PICK of : of = participant.topic_register[name]
          OBVIOUS
        <4>2. [participant |-> p, topic |-> of] \in Held(m, d) /\ m.topics[of].name = name
          BY <2>1, <2>2, <4>1 DEF ParticipantSound
        <4>3. of \in DOMAIN m.topics
          BY <4>2, HeldSound
        <4> QED
          BY <4>1, <4>2, <4>3
      <3> QED
        BY <1>4, <3>1
    <2> QED
      BY <1>5, <2>1, <2>2, <2>3 DEF ParticipantSound
  <1>8. ASSUME NEW d \in Clients, NEW id \in DOMAIN n.entities[d]
        PROVE  EntitySound(n, d, id)
    <2>1. PICK entity : entity = m.entities[d][id] /\ entity = n.entities[d][id]
      BY <1>1
    <2>2. Fits(m, d, id, entity)
      BY <1>1, <2>1, FitsIs DEF Sound
    <2>3. ASSUME HasTopic(entity)
          PROVE  PairSound(n, d, entity.topic)
      <3>1. PairSound(m, d, entity.topic)
        BY <2>2, <2>3 DEF Fits
      <3> QED
        BY <1>1, <1>2, <1>4, <3>1 DEF PairSound
    <2>4. ASSUME id \in DataReaderIds, ~Overrun
          PROVE  ReaderSound(n.topics[entity.topic.topic], entity.reader, ReadAccess[d])
      <3>1. ReaderSound(m.topics[entity.topic.topic], entity.reader, ReadAccess[d])
        BY <2>2, <2>4 DEF Fits
      <3>2. entity.topic.topic \in DOMAIN m.topics
        BY <1>1, <2>1, <2>4, TopicAlive
      <3>3. CASE entity.topic.topic = t
        BY <1>1, <1>2, <2>1, <2>4, <3>3
      <3>4. CASE entity.topic.topic # t
        BY <1>2, <3>1, <3>2, <3>4
      <3> QED
        BY <3>3, <3>4
    <2>5. Fits(n, d, id, entity)
      BY <1>1, <2>2, <2>3, <2>4 DEF Fits
    <2> QED
      BY <2>1, <2>5, FitsIs
  <1> QED
    BY <1>1, <1>6, <1>7, <1>8 DEF Sound

\* A sample is written: who waits has what it misses in the ring.
LEMMA WriteDataSound ==
    ASSUME NEW m, Sound(m), NEW t \in DOMAIN m.topics, NEW source \in Sources,
           Written(m.topics[t]) < MaxWrites,
           ~Overrun => \A d \in Clients : \A i \in DOMAIN m.entities[d] \cap DataReaderIds :
               m.entities[d][i].topic.topic = t /\ m.entities[d][i].reader.waiting =>
                   SeqSub(m.topics[t].last_write, m.entities[d][i].reader.last_read) < HistorySize
    PROVE  /\ Sound(TopicSet(m, t, Write(m.topics[t], source)))
           /\ TopicSet(m, t, Write(m.topics[t], source)).entities = m.entities
  <1>1. PICK topic : topic = m.topics[t] /\ RingSound(topic)
    BY DEF Sound, TopicsSound
  <1>2. PICK after : after = Write(topic, source)
    OBVIOUS
  <1>3. RingSound(after)
    BY <1>1, <1>2, WriteSound
  <1>4. KeyOf(after) = KeyOf(topic)
    BY <1>1, <1>2, WriteIs DEF KeyOf
  <1>5. ASSUME ~Overrun, NEW d \in Clients, NEW i \in DOMAIN m.entities[d] \cap DataReaderIds,
               m.entities[d][i].topic.topic = t
        PROVE  ReaderSound(after, m.entities[d][i].reader, ReadAccess[d])
    <2>1. PICK reader : reader = m.entities[d][i].reader
      OBVIOUS
    <2>2. ReaderSound(topic, reader, ReadAccess[d])
      BY <1>1, <1>5, <2>1 DEF Sound, EntitySound
    <2>3. ASSUME reader.waiting
          PROVE  Written(topic) < Position(reader) + HistorySize
      <3>1. SeqSub(topic.last_write, reader.last_read) < HistorySize
        BY <1>1, <1>5, <2>1, <2>3
      <3>2. reader.last_read \in SeqNums /\ Position(reader) \in Nat /\ Position(reader) <= Written(topic)
            /\ Written(topic) \in Nat
        BY <1>1, <2>2, ReaderTyped, RingTyped
      <3>3. SeqSub(topic.last_write, reader.last_read) = Written(topic) - Position(reader)
        BY <1>1, <3>2, BehindIs DEF Position
      <3> QED
        BY <3>1, <3>2, <3>3, RingConstants
    <2> QED
      BY <1>1, <1>2, <2>1, <2>2, <2>3, WriteKeepsReader
  <1> QED
    BY <1>1, <1>2, <1>3, <1>4, <1>5, TopicSetSound

\* m with the reader of an entity changed.
ReaderSet(m, c, id, reader) == [m EXCEPT !.entities[c][id].reader = reader]

LEMMA ReaderSetSound ==
    ASSUME NEW m, Sound(m), NEW c \in Clients, NEW id \in DOMAIN m.entities[c], id \in DataReaderIds,
           NEW reader,
           ~Overrun => ReaderSound(m.topics[m.entities[c][id].topic.topic], reader, ReadAccess[c])
    PROVE  /\ Sound(ReaderSet(m, c, id, reader))
           /\ \A d \in Clients : DOMAIN ReaderSet(m, c, id, reader).entities[d] = DOMAIN m.entities[d]
  <1>1. PICK old : old = m.entities[c][id] /\ Fits(m, c, id, old)
    BY FitsIs DEF Sound
  <1>2. old = [kind |-> "datareader", topic |-> old.topic, reader |-> old.reader] /\ HasTopic(old)
    BY <1>1 DEF Fits, RightKind, HasTopic
  <1>3. PICK entity : entity = [kind |-> "datareader", topic |-> old.topic, reader |-> reader]
    OBVIOUS
  <1>4. /\ entity.kind = "datareader" /\ entity.topic = old.topic /\ entity.reader = reader
        /\ entity = [kind |-> "datareader", topic |-> entity.topic, reader |-> entity.reader]
        /\ HasTopic(entity)
    BY <1>3 DEF HasTopic
  <1>5. PICK map : map = [m.entities[c] EXCEPT ![id] = entity]
    OBVIOUS
  <1>6. PICK n : n = ReaderSet(m, c, id, reader)
    OBVIOUS
  <1>7. n = [m EXCEPT !.entities[c] = map]
    <2>1. n = [m EXCEPT !.entities[c] = [m.entities[c] EXCEPT ![id] = [m.entities[c][id] EXCEPT !.reader = reader]]]
      BY <1>6 DEF ReaderSet
    <2>2. [m.entities[c][id] EXCEPT !.reader = reader] = entity
      BY <1>1, <1>2, <1>3
    <2> QED
      BY <1>5, <2>1, <2>2
  <1>8. /\ Shaped(n) /\ n.entities[c] = map
        /\ \A d \in Clients \ {c} : n.entities[d] = m.entities[d]
        /\ n.participants = m.participants /\ n.topics = m.topics
        /\ n.registered = m.registered /\ n.leaked = m.leaked
    BY <1>7, EntitiesSet, Z3T(60) DEF Sound
  <1>9. /\ DOMAIN map = DOMAIN m.entities[c] /\ map[id] = entity
         /\ \A i \in DOMAIN m.entities[c] : i # id => map[i] = m.entities[c][i]
    BY <1>5
  <1>10. ASSUME NEW d \in Clients
         PROVE  /\ Held(n, d) = Held(m, d) /\ KeptParticipants(n, d) = KeptParticipants(m, d)
                /\ DOMAIN n.entities[d] = DOMAIN m.entities[d]
    <2>1. CASE d # c
      BY <1>8, <2>1, HeldSame
    <2>2. CASE d = c
      <3>1. ASSUME NEW pair
            PROVE  pair \in Held(n, c) <=> pair \in Held(m, c)
        <4>1. /\ pair \in Held(n, c) <=> \E i \in DOMAIN map : HasTopic(map[i]) /\ pair = map[i].topic
              /\ pair \in Held(m, c) <=>
                    \E i \in DOMAIN m.entities[c] : HasTopic(m.entities[c][i]) /\ pair = m.entities[c][i].topic
          BY <1>8, HeldIs
        <4>2. ASSUME NEW i \in DOMAIN map
              PROVE  /\ HasTopic(map[i]) <=> HasTopic(m.entities[c][i])
                     /\ HasTopic(map[i]) => map[i].topic = m.entities[c][i].topic
          BY <1>1, <1>2, <1>4, <1>9
        <4> QED
          BY <1>9, <4>1, <4>2
      <3>2. Held(n, c) = Held(m, c)
        BY <3>1
      <3>3. \A i \in DOMAIN map \cap (ParticipantIds \cup PublisherIds) : map[i] = m.entities[c][i]
        BY <1>9, KindsAssumption
      <3>4. KeptParticipants(n, c) = KeptParticipants(m, c)
        BY <1>8, <1>9, <3>2, <3>3 DEF KeptParticipants
      <3> QED
        BY <1>8, <1>9, <2>2, <3>2, <3>4
    <2> QED
      BY <2>1, <2>2
  <1>11. TopicsSound(n)
    BY <1>8 DEF Sound, TopicsSound
  <1>12. ASSUME NEW d \in Clients, NEW p \in DOMAIN n.participants[d]
         PROVE  ParticipantSound(n, d, p)
    <2>1. ParticipantSound(m, d, p)
      BY <1>8 DEF Sound
    <2> QED
      BY <1>8, <1>10, <2>1 DEF ParticipantSound
  <1>13. ASSUME NEW d \in Clients, NEW i \in DOMAIN n.entities[d]
         PROVE  EntitySound(n, d, i)
    <2>1. Fits(m, d, i, n.entities[d][i])
      <3>1. CASE d = c /\ i = id
        <4>1. Fits(m, c, id, entity)
          BY <1>1, <1>2, <1>4, KindsAssumption DEF Fits, RightKind, ObjectIds
        <4> QED
          BY <1>8, <1>9, <3>1, <4>1
      <3>2. CASE ~(d = c /\ i = id)
        <4>1. i \in DOMAIN m.entities[d] /\ n.entities[d][i] = m.entities[d][i]
          BY <1>8, <1>9, <1>10, <3>2
        <4>2. EntitySound(m, d, i)
          BY <4>1 DEF Sound
        <4> QED
          BY <4>1, <4>2, FitsIs
      <3> QED
        BY <3>1, <3>2
    <2>2. Fits(n, d, i, n.entities[d][i])
      <3>1. HasTopic(n.entities[d][i]) => PairSound(n, d, n.entities[d][i].topic)
        BY <1>8, <2>1 DEF Fits, PairSound
      <3> QED
        BY <1>8, <2>1, <3>1 DEF Fits
    <2> QED
      BY <2>2, FitsIs
  <1>14. Sound(n)
    BY <1>8, <1>11, <1>12, <1>13 DEF Sound
  <1> QED
    BY <1>6, <1>10, <1>14

----------------------------------------------------------------------------
(* The steps *)

LEMMA DeleteSound ==
    ASSUME NEW m, Sound(m), NEW c \in Clients, NEW id, NEW n, n = Delete(m, c, id)
    PROVE  /\ Sound(n) /\ DOMAIN n.entities[c] = DOMAIN m.entities[c] \ {id}
           /\ \A d \in Clients \ {c} : n.entities[d] = m.entities[d]
  <1>1. PICK map : map = Erase(m.entities[c], id)
    OBVIOUS
  <1>2. /\ DOMAIN map = DOMAIN m.entities[c] \ {id}
        /\ \A i \in DOMAIN map : map[i] = m.entities[c][i]
    BY <1>1 DEF Erase
  <1>3. n = Swept([m EXCEPT !.entities[c] = map], c, Held(m, c))
    <2>1. n = Swept([m EXCEPT !.entities[c] = Erase(m.entities[c], id)], c, Held(m, c))
      BY DEF Delete
    <2> QED
      BY <1>1, <2>1
  <1>4. DOMAIN map \subseteq DOMAIN m.entities[c]
    BY <1>2
  <1>5. /\ Sound(n) /\ n.entities[c] = map
        /\ \A d \in Clients \ {c} : n.entities[d] = m.entities[d]
    <2>1. \A i \in DOMAIN map : map[i] = m.entities[c][i]
      BY <1>2
    <2> QED
      BY <1>3, <1>4, <2>1, SweepSound, SMTT(60)
  <1> QED
    BY <1>2, <1>5

\* The objects "held" are those of middleware m.
Matching(held, m) == \A c \in Clients : held[c] = DOMAIN m.entities[c]

\* ProxyClient::create_object of an object that is not there.
LEMMA CreatesSound ==
    ASSUME NEW m, Sound(m), NEW c \in Clients, NEW r \in ObjectRequests[c], NEW mode, NEW held,
           held = DOMAIN m.entities[c],
           objects \in [Clients -> SUBSET ObjectIds],
           \A d \in Clients \ {c} : objects[d] = DOMAIN m.entities[d],
           held \subseteq objects[c],
           Creates(c, r, mode, m, held)
    PROVE  /\ Sound(middleware)' /\ ObjectsInv'
           /\ answer' = [client |-> c, request |-> r, mode |-> mode, status |-> answer'.status]
           /\ IF answer'.status = "OK"
              THEN objects'[c] = held \cup {r.id} /\ Asked(middleware', c, r)
              ELSE /\ answer'.status \in {"ERR_UNKNOWN_REFERENCE", "ERR_DDS_ERROR"}
                   /\ objects' = [objects EXCEPT ![c] = held] /\ middleware' = m
  <1>1. CASE r.kind # "participant" /\ r.parent \notin held
    <2>1. /\ objects' = [objects EXCEPT ![c] = held] /\ middleware' = m
          /\ answer' = [client |-> c, request |-> r, mode |-> mode, status |-> "ERR_UNKNOWN_REFERENCE"]
      BY <1>1 DEF Creates, Answers
    <2>2. ObjectsInv'
      BY <2>1 DEF ObjectsInv
    <2> QED
      BY <2>1, <2>2
  <1>2. CASE ~(r.kind # "participant" /\ r.parent \notin held)
    <2>1. middleware' \in Create(m, c, r)
      BY <1>2 DEF Creates
    <2>2. CASE middleware' = m
      <3>1. /\ objects' = [objects EXCEPT ![c] = held]
            /\ answer' = [client |-> c, request |-> r, mode |-> mode, status |-> "ERR_DDS_ERROR"]
        BY <1>2, <2>2 DEF Creates, Answers
      <3>2. ObjectsInv'
        BY <2>2, <3>1 DEF ObjectsInv
      <3> QED
        BY <2>2, <3>1, <3>2
    <2>3. CASE middleware' # m
      <3>1. /\ objects' = [objects EXCEPT ![c] = held \cup {r.id}]
            /\ answer' = [client |-> c, request |-> r, mode |-> mode, status |-> "OK"]
        BY <1>2, <2>3 DEF Creates, Answers
      <3>2. Made(middleware', m, c, r.id) /\ Asked(middleware', c, r)
        BY <2>1, <2>3, CreateSound
      <3>3. /\ Sound(middleware') /\ DOMAIN middleware'.entities[c] = held \cup {r.id}
            /\ \A d \in Clients \ {c} : DOMAIN middleware'.entities[d] = DOMAIN m.entities[d]
        BY <3>2 DEF Made
      <3>4. objects'[c] = held \cup {r.id} /\ \A d \in Clients \ {c} : objects'[d] = objects[d]
        BY <3>1
      <3>5. objects' \in [Clients -> SUBSET ObjectIds]
        BY <3>1, ObjectRequestIs
      <3>6. ObjectsInv'
        BY <3>3, <3>4, <3>5 DEF ObjectsInv
      <3> QED
        BY <3>1, <3>2, <3>3, <3>4, <3>6
    <2> QED
      BY <2>2, <2>3
  <1> QED
    BY <1>1, <1>2

\* What the answer to a CREATE says.
AnswerTrue(c, r, mode) ==
    IF answer'.status \in {"OK", "OK_MATCHED"}
    THEN objects'[c] = objects[c] \cup {r.id} /\ Asked(middleware', c, r)
    ELSE \/ UNCHANGED <<objects, middleware>>
         \/ mode.replace /\ objects'[c] = objects[c] \ {r.id}

\* ProxyClient::create_object
LEMMA CreateObjectSound ==
    ASSUME EntitiesInv, NEW c \in Clients, NEW r \in ObjectRequests[c], NEW mode \in Modes,
           CreateObject(c, r, mode)
    PROVE  /\ EntitiesInv'
           /\ answer' = [client |-> c, request |-> r, mode |-> mode, status |-> answer'.status]
           /\ AnswerTrue(c, r, mode)
  <1> DEFINE Says(status) ==
               /\ answer' = [client |-> c, request |-> r, mode |-> mode, status |-> status]
               /\ UNCHANGED <<objects, middleware>>
  <1>1. /\ Sound(middleware) /\ objects \in [Clients -> SUBSET ObjectIds]
        /\ \A d \in Clients : objects[d] = DOMAIN middleware.entities[d]
    BY DEF EntitiesInv, ObjectsInv
  <1>2. CASE r.id \notin objects[c]
    <2>1. Creates(c, r, mode, middleware, objects[c])
      BY <1>2 DEF CreateObject
    <2>2. /\ Sound(middleware)' /\ ObjectsInv'
          /\ answer' = [client |-> c, request |-> r, mode |-> mode, status |-> answer'.status]
          /\ IF answer'.status = "OK"
             THEN objects'[c] = objects[c] \cup {r.id} /\ Asked(middleware', c, r)
             ELSE /\ answer'.status \in {"ERR_UNKNOWN_REFERENCE", "ERR_DDS_ERROR"}
                  /\ objects' = [objects EXCEPT ![c] = objects[c]] /\ middleware' = middleware
      BY <1>1, <2>1, CreatesSound
    <2>3. [objects EXCEPT ![c] = objects[c]] = objects
      BY <1>1
    <2> QED
      BY <2>2, <2>3 DEF EntitiesInv, AnswerTrue
  <1>3. ASSUME NEW status, Stays(c, r, mode, status), status \in {"ERR_ALREADY_EXISTS", "ERR_MISMATCH"}
        PROVE  /\ EntitiesInv'
               /\ answer' = [client |-> c, request |-> r, mode |-> mode, status |-> answer'.status]
               /\ AnswerTrue(c, r, mode)
    <2>1. /\ answer' = [client |-> c, request |-> r, mode |-> mode, status |-> status]
          /\ UNCHANGED <<objects, middleware>> /\ answer'.status = status
      BY <1>3 DEF Stays, Answers
    <2> QED
      BY <1>3, <2>1 DEF EntitiesInv, ObjectsInv, AnswerTrue
  <1>4. CASE r.id \in objects[c] /\ ~mode.reuse /\ ~mode.replace
    <2>1. Stays(c, r, mode, "ERR_ALREADY_EXISTS")
      BY <1>4 DEF CreateObject
    <2> QED
      BY <1>3, <2>1
  <1>5. CASE r.id \in objects[c] /\ mode.reuse /\ Matched(middleware, c, r)
    <2>1. Stays(c, r, mode, "OK_MATCHED")
      BY <1>5 DEF CreateObject
    <2>2. /\ answer' = [client |-> c, request |-> r, mode |-> mode, status |-> "OK_MATCHED"]
          /\ UNCHANGED <<objects, middleware>> /\ answer'.status = "OK_MATCHED"
      BY <2>1 DEF Stays, Answers
    <2>3. Asked(middleware, c, r)
      <3>1. PICK entity : entity = middleware.entities[c][r.id]
        OBVIOUS
      <3>2. RightKind(r.id, entity)
        BY <1>1, <1>5, <3>1, ZenonT(60) DEF Sound, EntitySound
      <3>3. r.kind = "participant" => ~HasTopic(entity)
        BY <3>2, ObjectRequestIs DEF RightKind, HasTopic
      <3>4. CASE r.kind = "participant"
        BY <1>5, <3>1, <3>3, <3>4 DEF Matched, Asked
      <3>5. CASE r.kind # "participant"
        BY <1>5, <3>1, <3>5 DEF Matched, Asked
      <3> QED
        BY <3>4, <3>5
    <2> QED
      BY <1>5, <2>2, <2>3 DEF EntitiesInv, ObjectsInv, AnswerTrue
  <1>6. CASE r.id \in objects[c] /\ mode.reuse /\ ~mode.replace /\ ~Matched(middleware, c, r)
    <2>1. Stays(c, r, mode, "ERR_MISMATCH")
      BY <1>6 DEF CreateObject
    <2> QED
      BY <1>3, <2>1
  <1>7. CASE r.id \in objects[c] /\ mode.replace /\ ~(mode.reuse /\ Matched(middleware, c, r))
    <2>1. PICK m, held : m = Delete(middleware, c, r.id) /\ held = objects[c] \ {r.id}
      OBVIOUS
    <2>2. Creates(c, r, mode, m, held)
      BY <1>7, <2>1 DEF CreateObject
    <2>3. /\ Sound(m) /\ DOMAIN m.entities[c] = held
          /\ \A d \in Clients \ {c} : m.entities[d] = middleware.entities[d]
      BY <1>1, <2>1, DeleteSound
    <2>4. /\ Sound(middleware)' /\ ObjectsInv'
          /\ answer' = [client |-> c, request |-> r, mode |-> mode, status |-> answer'.status]
          /\ IF answer'.status = "OK"
             THEN objects'[c] = held \cup {r.id} /\ Asked(middleware', c, r)
             ELSE /\ answer'.status \in {"ERR_UNKNOWN_REFERENCE", "ERR_DDS_ERROR"}
                  /\ objects' = [objects EXCEPT ![c] = held] /\ middleware' = m
      <3>1. \A d \in Clients \ {c} : objects[d] = DOMAIN m.entities[d]
        BY <1>1, <2>3
      <3>2. held \subseteq objects[c] /\ held = DOMAIN m.entities[c]
        BY <2>1, <2>3
      <3> QED
        BY <1>1, <2>2, <2>3, <3>1, <3>2, CreatesSound
    <2>5. held \cup {r.id} = objects[c] \cup {r.id} /\ [objects EXCEPT ![c] = held][c] = held
      BY <1>1, <2>1
    <2> QED
      BY <1>7, <2>1, <2>4, <2>5 DEF EntitiesInv, AnswerTrue
  <1> QED
    BY <1>2, <1>4, <1>5, <1>6, <1>7 DEF Modes

LEMMA DeleteObjectSound ==
    ASSUME EntitiesInv, NEW c \in Clients, NEW id \in IdsOf[c], DeleteObject(c, id)
    PROVE  EntitiesInv'
  <1>1. CASE id \in objects[c]
    <2>1. objects' = [objects EXCEPT ![c] = @ \ {id}] /\ middleware' = Delete(middleware, c, id)
      BY <1>1 DEF DeleteObject
    <2>2. /\ Sound(middleware') /\ DOMAIN middleware'.entities[c] = DOMAIN middleware.entities[c] \ {id}
          /\ \A d \in Clients \ {c} : middleware'.entities[d] = middleware.entities[d]
      BY <2>1, DeleteSound DEF EntitiesInv
    <2> QED
      BY <2>1, <2>2 DEF EntitiesInv, ObjectsInv
  <1>2. CASE id \notin objects[c]
    <2>1. UNCHANGED <<objects, middleware>>
      BY <1>2 DEF DeleteObject
    <2> QED
      BY <2>1 DEF EntitiesInv, ObjectsInv
  <1> QED
    BY <1>1, <1>2

LEMMA ReleaseSound ==
    ASSUME EntitiesInv, NEW c \in Clients, Release(c)
    PROVE  EntitiesInv'
  <1>1. PICK n : n = middleware' /\ n = Swept([middleware EXCEPT !.entities[c] = EmptyMap], c, Held(middleware, c))
    BY DEF Release
  <1>2. DOMAIN EmptyMap = {}
    BY DEF EmptyMap
  <1>3. /\ Sound(n) /\ n.entities[c] = EmptyMap
        /\ \A d \in Clients \ {c} : n.entities[d] = middleware.entities[d]
    <2>1. PICK map : map = EmptyMap
      OBVIOUS
    <2>2. /\ DOMAIN map \subseteq DOMAIN middleware.entities[c]
          /\ \A id \in DOMAIN map : map[id] = middleware.entities[c][id]
      BY <1>2, <2>1
    <2>3. n = Swept([middleware EXCEPT !.entities[c] = map], c, Held(middleware, c))
      BY <1>1, <2>1
    <2>4. Sound(middleware)
      BY DEF EntitiesInv
    <2> QED
      BY <2>1, <2>2, <2>3, <2>4, SweepSound
  <1>4. objects' = [objects EXCEPT ![c] = {}]
    BY DEF Release
  <1> QED
    BY <1>1, <1>2, <1>3, <1>4 DEF EntitiesInv, ObjectsInv

\* The old ProxyClient's topics stay; its participants hold nothing that is
\* found again.
LEMMA ReplaceSound ==
    ASSUME EntitiesInv, NEW c \in Clients, Replace(c)
    PROVE  EntitiesInv'
  <1>1. PICK m : m = middleware
    OBVIOUS
  <1>2. PICK n : n = middleware'
    OBVIOUS
  <1>3. PICK lost : lost = {t.topic : t \in Held(m, c)}
    OBVIOUS
  <1>4. n = [m EXCEPT !.leaked = @ \cup lost, !.entities[c] = EmptyMap, !.participants[c] = EmptyMap]
    BY <1>1, <1>2, <1>3 DEF Replace
  <1>5. Sound(m) /\ ObjectsInv
    BY <1>1 DEF EntitiesInv
  <1>6. /\ n = [entities |-> n.entities, participants |-> n.participants, topics |-> n.topics,
               registered |-> n.registered, leaked |-> n.leaked]
        /\ n.entities = [m.entities EXCEPT ![c] = EmptyMap]
        /\ n.participants = [m.participants EXCEPT ![c] = EmptyMap]
        /\ n.topics = m.topics /\ n.registered = m.registered /\ n.leaked = m.leaked \cup lost
    BY <1>4, <1>5 DEF Sound, Shaped
  <1>7. /\ Shaped(n) /\ n.entities[c] = EmptyMap /\ n.participants[c] = EmptyMap
        /\ \A d \in Clients \ {c} :
              n.entities[d] = m.entities[d] /\ n.participants[d] = m.participants[d]
    BY <1>5, <1>6 DEF Sound, Shaped
  <1>8. DOMAIN EmptyMap = {}
    BY DEF EmptyMap
  <1>9. TopicsSound(n)
    <2>1. lost \subseteq DOMAIN m.topics
      BY <1>3, <1>5, HeldSound
    <2> QED
      BY <1>5, <1>6, <2>1 DEF Sound, TopicsSound
  <1>10. ASSUME NEW d \in Clients, d # c
         PROVE  /\ \A p \in DOMAIN n.participants[d] : ParticipantSound(n, d, p)
                /\ \A id \in DOMAIN n.entities[d] : EntitySound(n, d, id)
    <2>1. /\ Held(n, d) = Held(m, d) /\ KeptParticipants(n, d) = KeptParticipants(m, d)
          /\ n.entities[d] = m.entities[d] /\ n.participants[d] = m.participants[d]
      BY <1>7, <1>10, HeldSame
    <2>2. ASSUME NEW p \in DOMAIN n.participants[d]
          PROVE  ParticipantSound(n, d, p)
      <3>1. ParticipantSound(m, d, p)
        BY <1>5, <2>1 DEF Sound
      <3> QED
        BY <1>6, <2>1, <3>1 DEF ParticipantSound
    <2>3. ASSUME NEW id \in DOMAIN n.entities[d]
          PROVE  EntitySound(n, d, id)
      <3>1. EntitySound(m, d, id)
        BY <1>5, <2>1 DEF Sound
      <3> QED
        BY <1>6, <2>1, <3>1 DEF EntitySound, PairSound
    <2> QED
      BY <2>2, <2>3
  <1>11. Sound(n)
    BY <1>7, <1>8, <1>9, <1>10 DEF Sound
  <1>12. objects' = [objects EXCEPT ![c] = {}]
    BY DEF Replace
  <1>13. ObjectsInv'
    BY <1>1, <1>2, <1>5, <1>7, <1>8, <1>12 DEF ObjectsInv
  <1> QED
    BY <1>2, <1>11, <1>13 DEF EntitiesInv

LEMMA WriteDataStep ==
    ASSUME EntitiesInv, NEW c \in Clients, NEW id \in DataWriterIds, WriteData(c, id)
    PROVE  EntitiesInv'
  <1>1. PICK m : m = middleware /\ Sound(m)
    BY DEF EntitiesInv
  <1>2. id \in DOMAIN m.entities[c]
    BY <1>1 DEF EntitiesInv, ObjectsInv, WriteData
  <1>3. PICK t \in DOMAIN m.topics : t = m.entities[c][id].topic.topic
    BY <1>1, <1>2, TopicAlive
  <1>4. Written(m.topics[t]) < MaxWrites /\ Source[c] \in Sources
    BY <1>1, <1>3, EntitiesAssumption DEF WriteData
  <1>5. ASSUME ~Overrun, NEW d \in Clients, NEW i \in DOMAIN m.entities[d] \cap DataReaderIds,
               m.entities[d][i].topic.topic = t, m.entities[d][i].reader.waiting
        PROVE  SeqSub(m.topics[t].last_write, m.entities[d][i].reader.last_read) < HistorySize
    <2>1. PICK q \in AllPairs : q[1] = d /\ q[2] = i
      <3>1. <<d, i>> \in AllPairs
        BY DEF AllPairs, ObjectIds
      <3> QED
        BY <3>1
    <2>2. m.entities[d][i].reader \in ReadersOn(t)
      <3>1. /\ q[2] \in DOMAIN middleware.entities[q[1]] \cap DataReaderIds
            /\ middleware.entities[q[1]][q[2]].topic.topic = t
        BY <1>1, <1>5, <2>1
      <3>2. middleware.entities[q[1]][q[2]].reader \in ReadersOn(t)
        BY <3>1 DEF ReadersOn
      <3> QED
        BY <1>1, <2>1, <3>2
    <2>3. \A reader \in ReadersOn(t) :
             reader.waiting => SeqSub(m.topics[t].last_write, reader.last_read) < HistorySize
      BY <1>1, <1>3, <1>5 DEF WriteData
    <2> QED
      BY <1>5, <2>2, <2>3
  <1>6. middleware' = TopicSet(m, t, Write(m.topics[t], Source[c]))
    BY <1>1, <1>3 DEF WriteData, TopicSet
  <1>7. Sound(middleware') /\ middleware'.entities = m.entities
    <2>1. ~Overrun => \A d \in Clients : \A i \in DOMAIN m.entities[d] \cap DataReaderIds :
             m.entities[d][i].topic.topic = t /\ m.entities[d][i].reader.waiting =>
                 SeqSub(m.topics[t].last_write, m.entities[d][i].reader.last_read) < HistorySize
      BY <1>5
    <2> QED
      BY <1>1, <1>4, <1>6, <2>1, WriteDataSound
  <1>8. UNCHANGED objects
    BY DEF WriteData
  <1> QED
    BY <1>1, <1>7, <1>8 DEF EntitiesInv, ObjectsInv

LEMMA ReadsStep ==
    ASSUME EntitiesInv, NEW c \in Clients, NEW id \in DataReaderIds, ReadData(c, id) \/ WakeReader(c, id)
    PROVE  EntitiesInv'
  <1>1. PICK m : m = middleware /\ Sound(m)
    BY DEF EntitiesInv
  <1>2. id \in DOMAIN m.entities[c]
    BY <1>1 DEF EntitiesInv, ObjectsInv, ReadData, WakeReader
  <1>3. PICK topic, reader :
           topic = m.topics[m.entities[c][id].topic.topic] /\ reader = m.entities[c][id].reader
    OBVIOUS
  <1>4. RingSound(topic)
    BY <1>1, <1>2, <1>3, TopicAlive
  <1>5. ~Overrun => ReaderSound(topic, reader, ReadAccess[c])
    BY <1>1, <1>2, <1>3 DEF Sound, EntitySound
  <1>6. PICK result :
           /\ middleware' = ReaderSet(m, c, id, result) /\ UNCHANGED objects
           /\ ~Overrun => ReaderSound(topic, result, ReadAccess[c])
    <2>1. CASE ReadData(c, id)
      <3>1. PICK result : result = Read(topic, reader, ReadAccess[c])
        OBVIOUS
      <3>2. middleware' = ReaderSet(m, c, id, result) /\ UNCHANGED objects
        BY <1>1, <1>3, <2>1, <3>1 DEF ReadData, Reads, ReaderSet, TopicOf, ReaderOf
      <3>3. ~Overrun => ReaderSound(topic, result, ReadAccess[c])
        BY <1>4, <1>5, <3>1, ReadSound
      <3> QED
        BY <3>2, <3>3
    <2>2. CASE WakeReader(c, id)
      <3>1. PICK result : result = Wake(topic, reader, ReadAccess[c])
        OBVIOUS
      <3>2. /\ middleware' = ReaderSet(m, c, id, result) /\ UNCHANGED objects
            /\ reader.waiting /\ reader.last_read # topic.last_write
        BY <1>1, <1>3, <2>2, <3>1 DEF WakeReader, Reads, ReaderSet, TopicOf, ReaderOf
      <3>3. ~Overrun => ReaderSound(topic, result, ReadAccess[c])
        BY <1>4, <1>5, <3>1, <3>2, WakeSound
      <3> QED
        BY <3>2, <3>3
    <2> QED
      BY <2>1, <2>2
  <1>7. /\ Sound(middleware')
        /\ \A d \in Clients : DOMAIN middleware'.entities[d] = DOMAIN m.entities[d]
    BY <1>1, <1>2, <1>3, <1>6, ReaderSetSound
  <1> QED
    BY <1>1, <1>6, <1>7 DEF EntitiesInv, ObjectsInv

LEMMA InitSound == EntitiesInit => EntitiesInv
  <1> SUFFICES ASSUME EntitiesInit
               PROVE  EntitiesInv
    OBVIOUS
  <1>1. PICK m : m = middleware /\ m = NewMiddleware
    BY DEF EntitiesInit
  <1>2. DOMAIN EmptyMap = {}
    BY DEF EmptyMap
  <1>3. /\ m.topics = EmptyMap /\ m.registered = EmptyMap /\ m.leaked = {}
        /\ \A c \in Clients : m.entities[c] = EmptyMap /\ m.participants[c] = EmptyMap
        /\ Shaped(m)
    BY <1>1 DEF NewMiddleware, Shaped
  <1>4. TopicsSound(m)
    BY <1>2, <1>3 DEF TopicsSound
  <1>5. Sound(m)
    BY <1>2, <1>3, <1>4 DEF Sound
  <1>6. ObjectsInv
    BY <1>1, <1>2, <1>3 DEF EntitiesInit, ObjectsInv
  <1> QED
    BY <1>1, <1>5, <1>6 DEF EntitiesInv

LEMMA EntityStep ==
    ASSUME EntitiesInv, EntitiesNext
    PROVE  EntitiesInv'
  <1>1. PICK c \in Clients :
           \/ \E r \in ObjectRequests[c], mode \in Modes : CreateObject(c, r, mode)
           \/ \E id \in IdsOf[c] : DeleteObject(c, id)
           \/ Release(c)
           \/ Replace(c)
           \/ \E id \in IdsOf[c] \cap DataWriterIds : WriteData(c, id)
           \/ \E id \in IdsOf[c] \cap DataReaderIds : ReadData(c, id) \/ WakeReader(c, id)
    BY DEF EntitiesNext
  <1>2. CASE \E r \in ObjectRequests[c], mode \in Modes : CreateObject(c, r, mode)
    BY <1>2, CreateObjectSound
  <1>3. CASE \E id \in IdsOf[c] : DeleteObject(c, id)
    BY <1>3, DeleteObjectSound
  <1>4. CASE Release(c)
    BY <1>4, ReleaseSound
  <1>5. CASE Replace(c)
    BY <1>5, ReplaceSound
  <1>6. CASE \E id \in IdsOf[c] \cap DataWriterIds : WriteData(c, id)
    BY <1>6, WriteDataStep
  <1>7. CASE \E id \in IdsOf[c] \cap DataReaderIds : ReadData(c, id) \/ WakeReader(c, id)
    BY <1>7, ReadsStep
  <1> QED
    BY <1>1, <1>2, <1>3, <1>4, <1>5, <1>6, <1>7

----------------------------------------------------------------------------
(* Theorems *)

\* The middleware of every client is sound and has an entity for each of its
\* objects: what ProxyClient and CedMiddleware keep agrees after every request.
THEOREM EntitiesInvariant == EntitiesSpec => []EntitiesInv
  <1>1. EntitiesInit => EntitiesInv
    BY InitSound
  <1>2. EntitiesInv /\ [EntitiesNext]_entityVars => EntitiesInv'
    <2>1. ASSUME EntitiesInv, UNCHANGED entityVars
          PROVE  EntitiesInv'
      BY <2>1 DEF EntitiesInv, ObjectsInv, entityVars
    <2> QED
      BY <2>1, EntityStep
  <1> QED
    BY <1>1, <1>2, PTL DEF EntitiesSpec

LEMMA InvTypeOK ==
    ASSUME EntitiesInv
    PROVE  EntitiesTypeOK
  <1>1. Sound(middleware) /\ objects \in [Clients -> SUBSET ObjectIds]
    BY DEF EntitiesInv, ObjectsInv
  <1>2. \A t \in DOMAIN middleware.topics : t \in Topics /\ RingSound(middleware.topics[t])
    BY <1>1 DEF Sound, TopicsSound
  <1>3. \A c \in Clients : \A p \in DOMAIN middleware.participants[c] : p \in Participants
    BY <1>1 DEF Sound, ParticipantSound
  <1>4. ASSUME NEW t \in DOMAIN middleware.topics
        PROVE  /\ middleware.topics[t].last_write \in SeqNums
               /\ middleware.topics[t].history \in [Slots -> 0 .. MaxWrites]
               /\ middleware.topics[t].srcs \in [Slots -> Sources]
    BY <1>2 DEF RingSound
  <1> QED
    BY <1>1, <1>2, <1>3, <1>4 DEF EntitiesTypeOK

\* The objects of a ProxyClient are those its middleware has entities for.
THEOREM ObjectsInStep == EntitiesSpec => []InStep
  <1>1. EntitiesInv => InStep
    BY InvTypeOK DEF EntitiesInv, ObjectsInv, InStep
  <1> QED
    BY <1>1, EntitiesInvariant, PTL

LEMMA TopicRegistersSound ==
    ASSUME NEW m, Sound(m), NEW c \in Clients
    PROVE  Held(m, c) =
              UNION {{[participant |-> p, topic |-> m.participants[c][p].topic_register[name]] :
                        name \in DOMAIN m.participants[c][p].topic_register} :
                     p \in DOMAIN m.participants[c]}
  <1> DEFINE Of(p) == {[participant |-> p, topic |-> m.participants[c][p].topic_register[name]] :
                         name \in DOMAIN m.participants[c][p].topic_register}
  <1>1. ASSUME NEW pair \in Held(m, c)
        PROVE  \E p \in DOMAIN m.participants[c] : pair \in Of(p)
    <2>1. /\ PairSound(m, c, pair)
          /\ pair = [participant |-> pair.participant, topic |-> pair.topic]
          /\ pair.participant \in DOMAIN m.participants[c] /\ pair.topic \in DOMAIN m.topics
      BY HeldSound
    <2>2. PICK p, t, name : p = pair.participant /\ t = pair.topic /\ name = m.topics[t].name
      OBVIOUS
    <2>3. /\ name \in DOMAIN m.participants[c][p].topic_register
          /\ m.participants[c][p].topic_register[name] = t
      BY <2>1, <2>2, Zenon DEF PairSound
    <2>4. pair \in Of(p)
      BY <2>1, <2>2, <2>3
    <2> QED
      BY <2>1, <2>2, <2>4
  <1>2. ASSUME NEW p \in DOMAIN m.participants[c], NEW pair \in Of(p)
        PROVE  pair \in Held(m, c)
    <2>1. PICK name \in DOMAIN m.participants[c][p].topic_register :
             pair = [participant |-> p, topic |-> m.participants[c][p].topic_register[name]]
      OBVIOUS
    <2>2. ParticipantSound(m, c, p)
      BY DEF Sound
    <2> QED
      BY <2>1, <2>2 DEF ParticipantSound
  <1> HIDE DEF Of
  <1>3. Held(m, c) = UNION {Of(p) : p \in DOMAIN m.participants[c]}
    BY <1>1, <1>2
  <1> QED
    BY <1>3 DEF Of

\* Topics of a domain and name are one, whichever participants are on them.
LEMMA SameTopic ==
    ASSUME NEW m, Sound(m), NEW c \in Clients, NEW d \in Clients,
           NEW s \in Held(m, c), NEW t \in Held(m, d)
    PROVE  (/\ m.participants[c][s.participant].domain_id = m.participants[d][t.participant].domain_id
            /\ m.topics[s.topic].name = m.topics[t.topic].name) <=> s.topic = t.topic
  <1>1. /\ PairSound(m, c, s) /\ PairSound(m, d, t)
        /\ s.topic \in DOMAIN m.topics /\ t.topic \in DOMAIN m.topics
    BY HeldSound
  <1>2. /\ m.topics[s.topic].domain_id = m.participants[c][s.participant].domain_id
        /\ m.topics[t.topic].domain_id = m.participants[d][t.participant].domain_id
    BY <1>1 DEF PairSound
  <1>3. /\ m.registered[KeyOf(m.topics[s.topic])] = s.topic
        /\ m.registered[KeyOf(m.topics[t.topic])] = t.topic
    BY <1>1 DEF Sound, TopicsSound
  <1> QED
    BY <1>2, <1>3 DEF KeyOf

\* Participants of a domain with a topic of the same name share what is written.
THEOREM TopicsConnected == EntitiesSpec => []Connected
  <1>1. ASSUME EntitiesInv
        PROVE  Connected
    <2>1. Sound(middleware)
      BY <1>1 DEF EntitiesInv
    <2>2. ASSUME NEW t \in DOMAIN middleware.topics
          PROVE  LET topic == middleware.topics[t]
                 IN  /\ <<topic.domain_id, topic.name>> \in DOMAIN middleware.registered
                     /\ middleware.registered[<<topic.domain_id, topic.name>>] = t
      BY <2>1 DEF Sound, TopicsSound, KeyOf
    <2>3. \A key \in DOMAIN middleware.registered :
             middleware.registered[key] \in DOMAIN middleware.topics
      BY <2>1 DEF Sound, TopicsSound
    <2>4. RegistersLive
      BY <2>1, <2>2, <2>3, TopicRegistersSound DEF RegistersLive
    <2> QED
      BY <2>1, <2>4, SameTopic DEF Connected
  <1> QED
    BY <1>1, EntitiesInvariant, PTL

\* A reader gets the samples of its topic in order, none twice, and passes over
\* only what was overwritten or is not for it.
THEOREM SamplesInOrderHold == ASSUME ~Overrun PROVE EntitiesSpec => []SamplesInOrder
  <1>1. ASSUME EntitiesInv
        PROVE  SamplesInOrder
    <2>1. ASSUME NEW c \in Clients, NEW id \in DOMAIN middleware.entities[c] \cap DataReaderIds
          PROVE  Entity(c, id).reader.ordered /\ Entity(c, id).reader.complete
      <3>1. PICK topic, reader : /\ reader = Entity(c, id).reader
                                 /\ ReaderSound(topic, reader, ReadAccess[c])
        BY <1>1 DEF EntitiesInv, Sound, EntitySound, Entity
      <3> QED
        BY <3>1 DEF ReaderSound
    <2> QED
      BY <2>1 DEF SamplesInOrder
  <1> QED
    BY <1>1, EntitiesInvariant, PTL

\* What a CREATE is answered is true.
THEOREM StatusIsTrue == EntitiesSpec => StatusTrue
  <1> DEFINE Says == answer' # NoAnswer =>
                \A c \in {answer'.client}, r \in {answer'.request} :
                   IF answer'.status \in {"OK", "OK_MATCHED"}
                   THEN /\ objects'[c] = objects[c] \cup {r.id}
                        /\ AsAsked(c, r)'
                   ELSE \/ UNCHANGED <<objects, middleware>>
                        \/ answer'.mode.replace /\ objects'[c] = objects[c] \ {r.id}
  <1>1. ASSUME EntitiesInv, EntitiesNext
        PROVE  Says
    <2>1. CASE answer' = NoAnswer
      BY <2>1
    <2>2. CASE answer' # NoAnswer
      <3>0. PICK c \in Clients : \E r \in ObjectRequests[c], mode \in Modes : CreateObject(c, r, mode)
        BY <1>1, <2>2 DEF EntitiesNext, DeleteObject, Release, Replace, WriteData, ReadData, WakeReader, Reads
      <3>1. PICK r \in ObjectRequests[c], mode \in Modes : CreateObject(c, r, mode)
        BY <3>0
      <3>2. /\ EntitiesInv'
            /\ answer' = [client |-> c, request |-> r, mode |-> mode, status |-> answer'.status]
            /\ AnswerTrue(c, r, mode)
        BY <1>1, <3>1, CreateObjectSound
      <3>3. answer'.client = c /\ answer'.request = r /\ answer'.mode = mode
        BY <3>2
      <3>4. ASSUME r.id \in objects'[c], Asked(middleware', c, r)
            PROVE  AsAsked(c, r)'
        <4>1. PICK m : m = middleware' /\ Sound(m)
          BY <3>2 DEF EntitiesInv
        <4>2. r.id \in DOMAIN m.entities[c]
          BY <3>2, <3>4, <4>1 DEF EntitiesInv, ObjectsInv
        <4>3. PICK entity : entity = m.entities[c][r.id] /\ RightKind(r.id, entity)
          BY <4>1, <4>2 DEF Sound, EntitySound
        <4>4. r.kind = "participant" => ~HasTopic(entity)
          BY <4>3, ObjectRequestIs DEF RightKind, HasTopic
        <4>5. CASE r.kind = "participant"
          BY <3>4, <4>1, <4>3, <4>4, <4>5 DEF AsAsked, Asked, Entity
        <4>6. CASE r.kind # "participant"
          BY <3>4, <4>1, <4>3, <4>6 DEF AsAsked, Asked, Entity
        <4> QED
          BY <4>5, <4>6
      <3>5. CASE answer'.status \in {"OK", "OK_MATCHED"}
        <4>1. objects'[c] = objects[c] \cup {r.id} /\ Asked(middleware', c, r)
          BY <3>2, <3>5 DEF AnswerTrue
        <4>2. AsAsked(c, r)'
          BY <3>4, <4>1
        <4> QED
          BY <3>3, <3>5, <4>1, <4>2
      <3>6. CASE answer'.status \notin {"OK", "OK_MATCHED"}
        <4>1. \/ UNCHANGED <<objects, middleware>>
              \/ mode.replace /\ objects'[c] = objects[c] \ {r.id}
          BY <3>2, <3>6 DEF AnswerTrue
        <4> QED
          BY <3>3, <3>6, <4>1
      <3> QED
        BY <3>5, <3>6
    <2> QED
      BY <2>1, <2>2
  <1>2. EntitiesInv /\ [EntitiesNext]_entityVars => [Says]_entityVars
    BY <1>1
  <1> QED
    BY <1>2, EntitiesInvariant, PTL DEF EntitiesSpec, StatusTrue
=============================================================================
