--------------------------- MODULE BestEffortUplink ---------------------------
(***************************************************************************)
(* One best-effort stream from the Client to the Agent.                    *)
(*                                                                         *)
(* The Client (output_best_effort_stream.c) collects submessages in one    *)
(* buffer behind the room for the header; flashing numbers the buffer,     *)
(* sends it and starts it again.  The Agent's BestEffortInputStream        *)
(* (stream/InputStream.hpp) queues what is newer than all it took, and     *)
(* the processing thread takes out at once what it queued.                 *)
(*                                                                         *)
(* Submessages are counted from 1; a message knows which it holds and how  *)
(* many messages of the session came before it.  Sizes are in units of the *)
(* 4 octets to which every submessage is padded.                           *)
(***************************************************************************)
EXTENDS SeqNum, Sequences, Datagrams

CONSTANTS
    Offset,     \* the header
    Size,       \* the buffer
    Depth,      \* BEST_EFFORT_STREAM_DEPTH
    MaxWrites,  \* submessages of one session (a bound of the model)
    InFlight,   \* packets on their way (a bound of the model)
    Drained     \* sessions are created anew only when nothing is on its way

\* What the constants must satisfy.
UplinkAssumption ==
    /\ Offset \in Nat /\ Size \in Nat /\ Offset < Size
    /\ Depth \in Nat \ {0}
    /\ MaxWrites \in Nat /\ InFlight \in Nat
    /\ Drained \in BOOLEAN

VARIABLES
    writer,         \* where the next submessage goes
    last_send,      \* the number of the newest message
    buffer,         \* the submessages between offset and writer
    written,        \* the newest submessage
    flashed,        \* how many messages were sent
    network,        \* messages sent
    last_received,  \* last_received_ of the Agent
    messages,       \* messages_, what it queued
    processed,      \* the newest submessage it processed
    taken           \* how many messages had been sent up to the newest it took

clientVars == <<writer, last_send, buffer, written, flashed>>
agentVars  == <<last_received, messages, processed, taken>>

vars == <<clientVars, network, agentVars>>

Init ==
    /\ writer = Offset
    /\ last_send = MaxSeq
    /\ buffer = <<>>
    /\ written = 0
    /\ flashed = 0
    /\ network = {}
    /\ last_received = MaxSeq
    /\ messages = <<>>
    /\ processed = 0
    /\ taken = 0

----------------------------------------------------------------------------
(* The Client *)

\* uxr_prepare_best_effort_buffer_to_write; a submessage that finds no room is
\* refused.
Write(n) ==
    /\ writer + n <= Size
    /\ written < MaxWrites
    /\ writer' = writer + n
    /\ written' = written + 1
    /\ buffer' = Append(buffer, written + 1)
    /\ UNCHANGED <<last_send, flashed, network, agentVars>>

\* What 16 bits can tell apart: the Agent does not miss half a turn of the
\* numbers in a row.  (It would take nothing for the next half turn.)
InTime == flashed + 1 - taken < Half

\* The buffer starts again behind the header.
Fresh == Offset

\* uxr_prepare_best_effort_buffer_to_send, from uxr_flash_output_streams.
Flash ==
    /\ writer > Offset
    /\ InTime
    /\ last_send' = ClientAdd(last_send, 1)
    /\ flashed' = flashed + 1
    /\ network' \in Fates(network, {[seq |-> last_send', id |-> flashed', subs |-> buffer]},
                          InFlight)
    /\ writer' = Fresh
    /\ buffer' = IF writer' = Offset THEN <<>> ELSE buffer
    /\ UNCHANGED <<written, agentVars>>

----------------------------------------------------------------------------
(* The Agent *)

\* Mistake: numbers are not compared, only counted.
BugAdmits(seq) == seq # last_received

\* What push_message queues.
Admits(seq) == SeqLt(last_received, seq) /\ Len(messages) < Depth

\* push_input_message.  What is older than half a turn does not arrive again.
Receive(p) ==
    /\ p \in network
    /\ messages = <<>>
    /\ Admits(p.seq)
    /\ messages' = Append(messages, p)
    /\ last_received' = p.seq
    /\ taken' = p.id
    /\ network' = {q \in network : p.id - q.id <= Half}
    /\ UNCHANGED <<clientVars, processed>>

\* A message that is not newer is dropped; here it is the last copy of it.
Drop(p) ==
    /\ p \in network
    /\ messages = <<>>
    /\ ~Admits(p.seq)
    /\ network' = network \ {p}
    /\ UNCHANGED <<clientVars, agentVars>>

\* pop_input_message and process_input_message, until nothing is queued.
Process ==
    /\ messages # <<>>
    /\ processed' = Head(messages).subs[Len(Head(messages).subs)]
    /\ messages' = Tail(messages)
    /\ UNCHANGED <<clientVars, network, last_received, taken>>

\* The session is created again: uxr_reset_stream_storage, then CREATE_CLIENT
\* and Session::reset.  The Client's buffer starts again, too.
Restart ==
    /\ Drained => network = {}
    /\ messages = <<>>
    /\ writer' = Offset /\ buffer' = <<>>
    /\ last_send' = MaxSeq
    /\ last_received' = MaxSeq
    /\ written' = 0 /\ flashed' = 0 /\ processed' = 0 /\ taken' = 0
    /\ UNCHANGED <<network, messages>>

Next ==
    \/ \E n \in 1 .. Size - Offset : Write(n)
    \/ Flash
    \/ \E p \in network : Receive(p) \/ Drop(p)
    \/ Process
    \/ Restart

Spec == Init /\ [][Next]_vars

----------------------------------------------------------------------------
(* Properties *)

Channel == INSTANCE LossyChannel WITH sent <- written, received <- processed

\* A message is processed whole: it starts behind what was processed, and its
\* submessages follow one another.
Whole(m) ==
    \A i \in DOMAIN m.subs : m.subs[i] = m.subs[1] + i - 1 /\ m.subs[i] > processed

\* What the application wrote reaches the processor in the order written, at
\* most once, and all of a message together: within one session the stream
\* implements the lossy channel.
ImplementsChannel ==
    /\ Channel!Init /\ [][Restart \/ Channel!Next]_(Channel!vars)
    /\ [](\A i \in DOMAIN messages : Whole(messages[i]))
=============================================================================
