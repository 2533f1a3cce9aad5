------------------------------ MODULE Downlink ------------------------------
(***************************************************************************)
(* One reliable stream from the Agent to the Client: the Agent's output    *)
(* stream, its processor's handling of ACKNACKs and heartbeats, a network, *)
(* and the Client's input stream, composed.                                *)
(***************************************************************************)
EXTENDS AgentOutputStream, SequencesExt, Datagrams

CONSTANTS
    History, BitmapSize, Empty,                              \* the Client
    InFlight                                                 \* the network

VARIABLES
    slots, last_handled, last_announced, delivered, spinning,    \* the Client
    network

Client == INSTANCE ClientInputStream WITH Contents <- Messages

Transmit(sent) == network' \in Fates(network, sent, InFlight)

\* What the constants must satisfy besides what the Agent's stream asks.
ClientAssumption == Client!SlotAssumption

ASSUME DownlinkAssumption == ClientAssumption

clientVars == <<slots, last_handled, last_announced, delivered, spinning>>

vars == <<streamVars, clientVars, network>>

\* What travels: DATA (or FRAGMENT) messages and HEARTBEATs to the Client,
\* ACKNACKs to the Agent.
Data(k, m)  == [type |-> "DATA", num |-> k, msg |-> m]
Heartbeat   == [type |-> "HEARTBEAT", last |-> HeartbeatWindow.last]
Acknack     == [type |-> "ACKNACK", ack |-> Client!Acknack]

Init ==
    /\ StreamInit
    /\ Client!Init
    /\ network = {}

ClientIdle == UNCHANGED <<slots, last_handled, last_announced, spinning>> /\ delivered' = <<>>

----------------------------------------------------------------------------
(* The Agent *)

\* A packet does not outlive half a turn of the sequence numbers: the
\* streams have no other defence against a number that comes round again.
NumberOf(p) ==
    CASE p.type = "DATA"      -> p.num
      [] p.type = "HEARTBEAT" -> p.last
      [] p.type = "ACKNACK"   -> p.ack.first

ExpireOld == network' = {p \in network : SeqSub(last_unacked', NumberOf(p)) <= Half}

\* read_data_callback: a reader thread numbers a sample.  A push that waits
\* for room is here a push that comes later.
Push(t, s, n) ==
    /\ PushNow(t, s, n)
    /\ ExpireOld
    /\ ClientIdle

\* ... and sends what is new.
SendNext ==
    /\ GetNextMessage
    /\ Transmit({Data(last_sent', messages[last_sent'])})
    /\ ClientIdle

\* check_heartbeats, every HEARTBEAT_PERIOD.
SendHeartbeat ==
    /\ HeartbeatDue
    /\ Transmit({Heartbeat})
    /\ ClientIdle
    /\ UNCHANGED streamVars

\* Mistake: nothing is sent again.
BugResent(a) == {}

\* process_acknack_submessage sends again what the bitmap misses, as far as
\* the stream holds it, ...
Resent(a) ==
    {Data(k, messages[k]) : k \in {j \in DOMAIN messages :
                                     \E i \in a.nacks : j = Wrap(a.first + i)}}

\* ... and then acknowledges.
ProcessAcknack(p) ==
    /\ p \in network /\ p.type = "ACKNACK"
    /\ Transmit(Resent(p.ack))
    /\ IF Acknowledges(p.ack.first)
       THEN UpdateFromAcknack(p.ack.first)
       ELSE UNCHANGED streamVars
    /\ ClientIdle

----------------------------------------------------------------------------
(* The Client: every packet of the stream is answered with an ACKNACK. *)

Answer == Transmit(IF spinning' THEN {} ELSE {Acknack'})

ReceiveData(p) ==
    /\ p \in network /\ p.type = "DATA"
    /\ Client!Receive(p.num, p.msg)
    /\ Answer
    /\ UNCHANGED streamVars

ReceiveHeartbeat(p) ==
    /\ p \in network /\ p.type = "HEARTBEAT"
    /\ Client!Heartbeat(p.last)
    /\ Answer
    /\ UNCHANGED streamVars

----------------------------------------------------------------------------

Next ==
    \/ \E t \in Writers, s \in Submessages, n \in 1 .. MaxFragments : Push(t, s, n)
    \/ SendNext
    \/ SendHeartbeat
    \/ \E p \in network : \/ ProcessAcknack(p)
                          \/ ReceiveData(p)
                          \/ ReceiveHeartbeat(p)

Spec == Init /\ [][Next]_vars

\* Of the packets that are sent again and again while nothing else happens
\* some arrive: the heartbeat of the window as it is, ...
HeartbeatSent == SendHeartbeat /\ Heartbeat \in network'

\* ... the answer to it, ...
HeartbeatAnswered ==
    \E p \in network : ReceiveHeartbeat(p) /\ p = Heartbeat /\ Acknack' \in network'

\* ... which makes the Agent send again what the Client waits for, ...
GapResent ==
    \E p \in network :
        /\ ProcessAcknack(p) /\ p = Acknack
        /\ \E q \in network' : q.type = "DATA" /\ q.num = Client!FirstUnacked

\* ... and that message.
NextReceived == \E p \in network : ReceiveData(p) /\ p.num = Client!FirstUnacked

\* The threads of the Agent run: the reader drains what it numbered, and the
\* heartbeat thread ticks.
Fairness ==
    /\ WF_vars(SendNext)
    /\ SF_vars(HeartbeatSent)
    /\ SF_vars(HeartbeatAnswered)
    /\ SF_vars(GapResent)
    /\ SF_vars(NextReceived)

FairSpec == Spec /\ Fairness

----------------------------------------------------------------------------
(* Properties *)

\* The state of both streams keeps its types.
TypeOK == StreamTypeOK /\ Client!TypeOK

\* The messages between the Client's position and the Agent's, oldest first:
\* from the Agent's map or, once acknowledged, from the Client's slots.
Outstanding ==
    [d \in 1 .. SeqSub(last_unacked, last_handled) |->
        LET k == Wrap(last_handled + d)
        IN  IF k \in DOMAIN messages THEN messages[k] ELSE slots[Client!SlotOf(k)]]

\* What the application got of a unit: the submessage, if all its fragments
\* are there in order.
Reassembled(u) ==
    IF \A j \in DOMAIN u : u[j].sub = u[1].sub /\ u[j].frag = j
    THEN u[1].sub
    ELSE Empty

\* No accepted submessage is lost between the two sides.
NothingLost == \A d \in DOMAIN Outstanding : Outstanding[d] # Empty

\* The submessages that end in some messages, in their order.
Submitted(out) ==
    LET upto[d \in 0 .. Len(out)] ==
            IF d = 0 THEN <<>>
            ELSE IF out[d] # Empty /\ out[d].last
                 THEN Append(upto[d - 1], out[d].sub)
                 ELSE upto[d - 1]
    IN  upto[Len(out)]

Channel == INSTANCE ReliableChannel WITH
    queue    <- Submitted(Outstanding),
    received <- [i \in DOMAIN delivered |-> Reassembled(delivered[i])]

\* The stream delivers each submessage once, whole and in the order in which
\* the Agent accepted them: it implements the reliable channel.  Every step that
\* delivers moves last_handled by what it delivers, so that a delivery which
\* repeats the one before it cannot pass for a stutter.
ImplementsChannel == Channel!Spec /\ Client!HandledIsDelivered

\* While a message waits the Client delivers again and again; in order, and
\* nothing lost, so everything that was numbered.
Progress == (last_unacked # last_handled) ~> (delivered # <<>>)

\* Nothing deliverable waits in the Client when a handler returns.
NothingDeliverable == Client!NothingDeliverable

\* Nothing the Client stored is overwritten or dropped before its delivery,
\* whatever the network repeats or delays.
NothingForgotten == Client!NothingForgotten

\* The sides stay together: the Client is behind the newest number by no more
\* than the Agent's window and its own history, which is far less than the half
\* of the sequence space in which both can order numbers, and it has heard of
\* no number that was not given.
WindowsTogether ==
    /\ TypeOK
    /\ SeqSub(last_unacked, last_handled) <= Occupancy + History
    /\ SeqSub(last_announced, last_handled) <= SeqSub(last_unacked, last_handled)
=============================================================================
