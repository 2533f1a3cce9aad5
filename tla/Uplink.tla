------------------------------- MODULE Uplink -------------------------------
(***************************************************************************)
(* One reliable stream from the Client to the Agent: the Client's output   *)
(* stream, a network, and the Agent's input stream, composed.  What goes   *)
(* to the Agent is lost, duplicated and reordered; the ACKNACKs that come  *)
(* back are lost, and reordered and duplicated too if Reorders.            *)
(***************************************************************************)
EXTENDS SeqNum, SequencesExt, Datagrams

CONSTANTS
    History, Capacity, Submessages, Sizes, Careful,     \* the Client
    Depth, BitmapSize,                                  \* the Agent
    InFlight,                                           \* the network
    Reorders,       \* TRUE for UDP, FALSE for a line that keeps the order
    Drained,        \* a session is created again between two submessages, when
                    \* nothing of the one before flies any more
    Garbage         \* what fragments that do not belong together become

VARIABLES
    slots, last_written, last_sent, last_acknown,                    \* the Client
    messages, last_handled, last_announced, fragment, delivered,     \* the Agent
    network,        \* messages and heartbeats on their way to the Agent
    acks            \* ACKNACKs on their way to the Client, oldest first

Client == INSTANCE ClientOutputStream

Agent == INSTANCE AgentInputStream WITH Messages <- Seq(Client!Pieces)

\* What the constants must satisfy.
UplinkAssumption == Client!BufferAssumption /\ Agent!DepthAssumption

Transmit(sent) == network' \in Fates(network, sent, InFlight)

clientVars == <<slots, last_written, last_sent, last_acknown>>
agentVars  == <<messages, last_handled, last_announced, fragment, delivered>>

vars == <<clientVars, agentVars, network, acks>>

Data(k)   == [type |-> "DATA", num |-> k, msg |-> slots[Client!SlotOf(k)].pieces]
Heartbeat == [type |-> "HEARTBEAT", window |-> Client!HeartbeatWindow]

Init ==
    /\ Client!Init
    /\ Agent!Init
    /\ network = {}
    /\ acks = <<>>

AgentIdle ==
    /\ UNCHANGED <<messages, last_handled, last_announced, fragment>>
    /\ delivered' = <<>>

----------------------------------------------------------------------------
(* The Client *)

\* A packet does not outlive half a turn of the sequence numbers: the streams
\* have no other defence against a number that comes round again.
NumberOf(p) == IF p.type = "DATA" THEN p.num ELSE p.window.first

Old(p) == SeqSub(last_written', NumberOf(p)) >= Half

Write(s, n) ==
    /\ Client!Write(s, n)
    /\ network' = {p \in network : ~Old(p)}
    /\ AgentIdle
    /\ UNCHANGED acks

\* uxr_flash_output_streams
Flash ==
    /\ Client!Flash
    /\ Transmit({Data(ClientAdd(last_sent, d)) : d \in 1 .. Client!Unsent})
    /\ \A p \in network' : ~Old(p)
    /\ AgentIdle
    /\ UNCHANGED acks

\* write_submessage_heartbeat, while the session runs
SendHeartbeat ==
    /\ Client!HeartbeatDue
    /\ Transmit({Heartbeat})
    /\ AgentIdle
    /\ UNCHANGED <<clientVars, acks>>

\* The ACKNACKs behind the one that arrives were lost, or come later.
Arrives(i) == IF Reorders THEN UNCHANGED acks ELSE acks' = SubSeq(acks, i + 1, Len(acks))

\* What is sent again after an ACKNACK that misses anything.
Resent == {Data(k) : k \in Client!Unacknowledged}

\* read_submessage_acknack
ReceiveAcknack(i) ==
    /\ Client!ProcessAcknack(acks[i].first)
    /\ Arrives(i)
    /\ Transmit(IF acks[i].nacks = {} THEN {} ELSE Resent')
    /\ AgentIdle

----------------------------------------------------------------------------
(* The Agent: every message and every heartbeat is answered. *)

Answer ==
    \/ UNCHANGED acks
    \/ Len(acks) < InFlight /\ acks' = Append(acks, Agent!Acknack')
    \/ Len(acks) > 0 /\ acks' = Append(Tail(acks), Agent!Acknack')

ReceiveData(p) ==
    /\ p \in network /\ p.type = "DATA"
    /\ Agent!Receive(p.num, p.msg)
    /\ Answer
    /\ UNCHANGED <<clientVars, network>>

ReceiveHeartbeat(p) ==
    /\ p \in network /\ p.type = "HEARTBEAT"
    /\ Agent!Heartbeat(p.window.first, p.window.last)
    /\ Answer
    /\ UNCHANGED <<clientVars, network>>

----------------------------------------------------------------------------

\* uxr_create_session for the session that is there: both streams start again.
Restart ==
    /\ Drained => network = {} /\ acks = <<>> /\ fragment = <<>>
    /\ Client!Reset
    /\ Agent!Reset
    /\ UNCHANGED <<network, acks>>

Next ==
    \/ \E s \in Submessages, n \in Sizes : Write(s, n)
    \/ Flash
    \/ SendHeartbeat
    \/ \E i \in DOMAIN acks : ReceiveAcknack(i)
    \/ \E p \in network : ReceiveData(p) \/ ReceiveHeartbeat(p)
    \/ Restart

Spec == Init /\ [][Next]_vars

\* Of the packets that are sent again and again while nothing else happens
\* some arrive: the heartbeat of the window as it is, ...
HeartbeatSent == SendHeartbeat /\ Heartbeat \in network'

\* ... the answer to it, ...
HeartbeatAnswered ==
    \E p \in network :
        /\ ReceiveHeartbeat(p) /\ p = Heartbeat
        /\ acks' # <<>> /\ acks'[Len(acks')] = Agent!Acknack'

\* ... which makes the Client send again what the Agent waits for, ...
GapResent ==
    \E i \in DOMAIN acks :
        /\ ReceiveAcknack(i) /\ acks[i] = Agent!Acknack
        /\ \E q \in network' : q.type = "DATA" /\ q.num = SeqAdd(last_handled, 1)

\* ... and that message.
NextReceived == \E p \in network : ReceiveData(p) /\ p.num = SeqAdd(last_handled, 1)

\* The application keeps running the session, and the Agent's processing
\* thread runs.
Fairness ==
    /\ WF_vars(Flash)
    /\ SF_vars(HeartbeatSent)
    /\ SF_vars(HeartbeatAnswered)
    /\ SF_vars(GapResent)
    /\ SF_vars(NextReceived)

FairSpec == Spec /\ Fairness

----------------------------------------------------------------------------
(* Properties *)

\* The messages the Agent has not taken out, as the Client still holds them.
Outstanding ==
    [d \in 1 .. SeqSub(last_written, last_handled) |->
        LET k == ClientAdd(last_handled, d)
        IN  IF SeqSub(k, last_acknown) \in 1 .. History
            THEN slots[Client!SlotOf(k)].pieces ELSE <<>>]

\* Every message the Agent has not taken out is one the Client can still send.
NothingLost ==
    \A d \in DOMAIN Outstanding : d < Len(Outstanding) => Outstanding[d] # <<>>

\* What the Client takes for acknowledged was taken out by the Agent: when
\* uxr_run_session_until_confirm_delivery returns true, everything that was
\* sent has been processed.
ConfirmedIsHandled ==
    /\ SeqSub(last_sent, last_handled) <= SeqSub(last_sent, last_acknown)
    /\ SeqSub(last_sent, last_acknown) <= History
    /\ Client!UpToDate => last_handled = last_sent

\* What the processor gets of a unit: the submessage, if its fragments belong
\* together and are all there in order.
Reassembled(u) ==
    IF \A j \in DOMAIN u : u[j].sub = u[1].sub /\ u[j].part = j THEN u[1].sub ELSE Garbage

\* The submessages that end in some pieces, in their order.
EndIn ==
    [pieces \in Seq(Client!Pieces) |->
        LET upto[i \in 0 .. Len(pieces)] ==
                IF i = 0 THEN <<>>
                ELSE IF pieces[i].kind = "FRAGMENT" THEN upto[i - 1]
                ELSE Append(upto[i - 1], pieces[i].sub)
        IN  upto[Len(pieces)]]

\* The pieces the Agent has not taken out.
Waiting == FlattenSeq(Outstanding)

Channel == INSTANCE ReliableChannel WITH
    queue    <- EndIn[Waiting],
    received <- [i \in DOMAIN delivered |-> Reassembled(delivered[i])]

\* The Agent processes each submessage once, whole, and in the order in which
\* the application wrote them: between restarts of the session the stream
\* implements the reliable channel.  (A step that processes anything moves
\* last_handled, hence queue: a delivery that repeats the one before cannot
\* pass for a stutter.)
ImplementsChannel == Channel!Init /\ [][Channel!Next \/ Restart]_(Channel!vars)

\* The state of both streams keeps its types, no slot is overfull, and only
\* intermediate fragments wait in the Agent.
TypeOK == Client!TypeOK /\ Agent!TypeOK

\* The slots of the Client in use are those of the messages not acknowledged,
\* without a hole the sending loop would stop at, and nothing the Agent could
\* take out waits for the next packet: see ClientOutputStream, AgentInputStream.
WindowsSound == TypeOK /\ Client!WindowHeld /\ Agent!HeldAhead

\* What may have to be sent again stays in the Client as it was sent, whatever
\* is written and acknowledged meanwhile, and what the Agent stored ahead of a
\* gap stays until its turn comes: see ClientOutputStream, AgentInputStream.
NothingForgotten == Client!SentKept /\ Agent!NothingForgotten

\* While a message that was sent waits, the Agent processes again and again,
\* unless the session is created again.
Progress == (last_sent # last_handled) ~> (delivered # <<>> \/ last_sent = last_handled)
=============================================================================
