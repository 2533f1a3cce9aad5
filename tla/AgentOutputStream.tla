-------------------------- MODULE AgentOutputStream --------------------------
(***************************************************************************)
(* ReliableOutputStream of the Agent (stream/OutputStream.hpp): the        *)
(* messages a session has numbered on one reliable stream and the Client   *)
(* has not acknowledged yet.                                               *)
(*                                                                         *)
(* Several threads use one stream: the readers of subscribed DataReaders   *)
(* and the processing thread push submessages and drain the new messages,  *)
(* the processing thread retransmits and acknowledges, the heartbeat       *)
(* thread reads the window.  Every operation holds mtx_ from start to end, *)
(* so each is one action; only a push gives mtx_ up, while it waits on cv_ *)
(* for room.  A push is a submessage and the number n of messages it takes *)
(* (n > 1: it does not fit the MTU and is cut in n fragments).             *)
(***************************************************************************)
EXTENDS SeqNum

CONSTANTS
    Depth,          \* RELIABLE_STREAM_DEPTH
    MaxFragments,   \* most messages one submessage is cut into
    Submessages,    \* what is pushed
    Writers,        \* threads that push
    NoRequest       \* the blocked push of a thread that is not waiting

Requests == [sub : Submessages, n : 1 .. MaxFragments]
Messages == [sub : Submessages, frag : 1 .. MaxFragments, last : BOOLEAN]

\* 16 messages and the fragments of one 64 KiB submessage are far from 2^15.
ASSUME WindowAssumption ==
    /\ Depth \in Nat \ {0}
    /\ MaxFragments \in Nat \ {0}
    /\ Depth + MaxFragments <= Half
    /\ NoRequest \notin Requests

VARIABLES
    messages,       \* messages_: sequence number -> message
    last_unacked,   \* number of the newest message
    last_sent,      \* number of the newest message handed to the transport
    first_unacked,  \* number of the oldest message not acknowledged
    blocked         \* the push each thread waits in, in cv_.wait_until

streamVars == <<messages, last_unacked, last_sent, first_unacked, blocked>>

\* Numbers stay below 2^16 and a waiting thread waits with one push.
StreamTypeOK ==
    /\ DOMAIN messages \subseteq SeqNums
    /\ \A k \in DOMAIN messages : messages[k] \in Messages
    /\ last_unacked \in SeqNums
    /\ last_sent \in SeqNums
    /\ first_unacked \in SeqNums
    /\ blocked \in [Writers -> Requests \cup {NoRequest}]

StreamInit ==
    /\ messages = [k \in {} |-> NoRequest]
    /\ last_unacked = MaxSeq
    /\ last_sent = MaxSeq
    /\ first_unacked = 0
    /\ blocked = [t \in Writers |-> NoRequest]

----------------------------------------------------------------------------
(* push_submessage *)

HasRoom == SeqLt(last_unacked, SeqAdd(first_unacked, Depth - 1))

\* Mistake: the fragment loop ends before the last, short fragment.
BugInsertDropsTail(s, n) ==
    LET Ahead(k) == SeqSub(k, last_unacked)
        m        == IF n = 1 THEN 1 ELSE n - 1
    IN  /\ messages' = [k \in DOMAIN messages \cup {k \in SeqNums : Ahead(k) \in 1 .. m} |->
                          IF k \in DOMAIN messages THEN messages[k]
                          ELSE [sub |-> s, frag |-> Ahead(k), last |-> Ahead(k) = n]]
        /\ last_unacked' = Wrap(last_unacked + m)
        /\ UNCHANGED <<last_sent, first_unacked>>

\* The messages of a push get consecutive numbers; std::map::insert keeps an
\* entry that is there.  The window was tested once, before the first of them.
\* append_submessage and append_fragment cannot fail (OutputStream.hpp:319, 362):
\* the message has the room getCdrSerializedSize counts, which is what the Agent's
\* submessages take (SizesTrue).
Insert(s, n) ==
    LET Ahead(k) == SeqSub(k, last_unacked)
        new      == {k \in SeqNums : Ahead(k) \in 1 .. n}
    IN  /\ messages' = [k \in DOMAIN messages \cup new |->
                          IF k \in DOMAIN messages THEN messages[k]
                          ELSE [sub |-> s, frag |-> Ahead(k), last |-> Ahead(k) = n]]
        /\ last_unacked' = Wrap(last_unacked + n)
        /\ UNCHANGED <<last_sent, first_unacked>>

PushNow(t, s, n) ==
    /\ blocked[t] = NoRequest
    /\ HasRoom
    /\ Insert(s, n)
    /\ UNCHANGED blocked

PushBlocks(t, s, n) ==
    /\ blocked[t] = NoRequest
    /\ ~HasRoom
    /\ blocked' = [blocked EXCEPT ![t] = [sub |-> s, n |-> n]]
    /\ UNCHANGED <<messages, last_unacked, last_sent, first_unacked>>

\* The wait ends with the predicate true: notified, woken spuriously, or at
\* the deadline, where wait_until evaluates it a last time.
PushResumes(t) ==
    /\ blocked[t] # NoRequest
    /\ HasRoom
    /\ Insert(blocked[t].sub, blocked[t].n)
    /\ blocked' = [blocked EXCEPT ![t] = NoRequest]

\* The deadline passes with the window full: the push returns false.
PushTimesOut(t) ==
    /\ blocked[t] # NoRequest
    /\ ~HasRoom
    /\ blocked' = [blocked EXCEPT ![t] = NoRequest]
    /\ UNCHANGED <<messages, last_unacked, last_sent, first_unacked>>

----------------------------------------------------------------------------
(* the other operations *)

HasNext == SeqLt(last_sent, last_unacked)

\* get_next_message hands out messages_.at(last_sent_), which throws when the
\* stream does not hold that number.
GetNextMessage ==
    /\ HasNext
    /\ last_sent' = SeqAdd(last_sent, 1)
    /\ UNCHANGED <<messages, last_unacked, first_unacked, blocked>>

\* get_message, the lookup of a retransmission.
Holds(k) == k \in DOMAIN messages

\* What update_from_acknack acts on: acknowledgements of something, and of
\* nothing that was not sent.
Acknowledges(f) ==
    /\ SeqLeq(f, SeqAdd(last_sent, 1))
    /\ SeqLt(first_unacked, f)

\* Mistake: the acknowledged number itself is erased too (<= in the loop).
BugAcknackErasesNext(f) ==
    /\ Acknowledges(f)
    /\ messages' = [k \in {j \in DOMAIN messages :
                             SeqSub(j, first_unacked) > SeqSub(f, first_unacked)}
                     |-> messages[k]]
    /\ first_unacked' = f
    /\ UNCHANGED <<last_unacked, last_sent, blocked>>

\* update_from_acknack
UpdateFromAcknack(f) ==
    /\ Acknowledges(f)
    /\ messages' = [k \in {j \in DOMAIN messages :
                             SeqSub(j, first_unacked) >= SeqSub(f, first_unacked)}
                     |-> messages[k]]
    /\ first_unacked' = f
    /\ UNCHANGED <<last_unacked, last_sent, blocked>>

\* fill_heartbeat; a heartbeat is sent only when it returns true.
HeartbeatDue    == DOMAIN messages # {}
HeartbeatWindow == [first |-> first_unacked, last |-> last_unacked]

\* reset, when the Client restarts the session; nobody waiting is notified.
Reset ==
    /\ last_unacked' = MaxSeq
    /\ last_sent' = MaxSeq
    /\ first_unacked' = 0
    /\ messages' = [k \in {} |-> NoRequest]
    /\ UNCHANGED blocked

StreamNext ==
    \/ \E t \in Writers, s \in Submessages, n \in 1 .. MaxFragments :
          PushNow(t, s, n) \/ PushBlocks(t, s, n)
    \/ \E t \in Writers : PushResumes(t) \/ PushTimesOut(t)
    \/ GetNextMessage
    \/ \E f \in SeqNums : UpdateFromAcknack(f)
    \/ Reset

StreamSpec == StreamInit /\ [][StreamNext]_streamVars

----------------------------------------------------------------------------
(* Properties *)

\* How many messages the stream has numbered and not seen acknowledged.
Occupancy == SeqSub(SeqAdd(last_unacked, 1), first_unacked)

\* The map holds exactly the numbers between the two ends of the window, which
\* heartbeats announce: nothing unacknowledged is missing (it could never be
\* retransmitted) and nothing acknowledged is kept, across wrap-around,
\* fragmented pushes, any ACKNACK and resets.
HeldIsWindow ==
    DOMAIN messages = {k \in SeqNums : SeqSub(k, first_unacked) < Occupancy}

\* The sending position stays within the window, so get_next_message never
\* asks the map for a number it does not hold (messages_.at would throw in a
\* reader thread) and no message is skipped.
SentWithinWindow ==
    SeqSub(SeqAdd(last_sent, 1), first_unacked) <= Occupancy

\* The window test precedes all the fragments of one push, so a push can leave
\* MaxFragments - 1 messages more than Depth, and never more than that: the
\* window stays far from half the sequence space, where < stops being an order.
OccupancyBound == Occupancy <= Depth - 1 + MaxFragments

\* All that the users of the stream rely on when they find it unlocked.
WindowSound == HeldIsWindow /\ SentWithinWindow /\ OccupancyBound

\* Fragments of one push stay adjacent and in order whatever the threads do:
\* a receiver reassembles by concatenation and cannot tell two pushes apart.
FragmentsAdjacent ==
    \A k \in DOMAIN messages :
        LET j == SeqAdd(k, 1)
        IN  ~messages[k].last =>
                /\ j \in DOMAIN messages
                /\ messages[j].sub = messages[k].sub
                /\ messages[j].frag = messages[k].frag + 1
=============================================================================
