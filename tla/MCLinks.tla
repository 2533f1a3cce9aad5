------------------------------ MODULE MCLinks ------------------------------
(***************************************************************************)
(* Small instances of what connects a Client and an Agent, side by side:   *)
(* a best-effort and a reliable stream in each direction, and the framing  *)
(* of a serial line.  A behaviour is one of the system that part names,    *)
(* and the others stay as they were created.  The streams of a session     *)
(* share no state, and the framing none with them, so nothing is missed    *)
(* that they could do together.                                            *)
(***************************************************************************)
EXTENDS BestEffortDownlink, TLC

CONSTANTS
    Parts,                                          \* what the run checks
    t1, t2, t3, r1, s1, s2,
    StreamDepth, StreamInFlight,                    \* of the reliable streams
    MaxFragments, History, BitmapSize, Submessages,
    NoRequest, Empty,                               \* of Downlink
    BestUpHalf, BestUpOffset, BestUpSize,           \* of BestEffortUplink
    BestUpDepth, BestUpWrites,
    Capacity, Sizes, Careful, Reorders, Garbage,    \* of Uplink
    Frames, LocalAddr, SenderAddr,                  \* of Framing
    WriteBuffer, ReadBuffer, BufferLength, Octets, MaxLine, MaxFaults

VARIABLES
    part,
    \* Downlink
    d_messages, d_last_unacked, d_last_sent, d_first_unacked, d_blocked,
    d_slots, d_last_handled, d_last_announced, d_delivered, d_spinning,
    d_network,
    \* Uplink
    u_slots, u_last_written, u_last_sent, u_last_acknown,
    u_messages, u_last_handled, u_last_announced, u_fragment, u_delivered,
    u_network, u_acks,
    \* BestEffortUplink
    b_writer, b_last_send, b_buffer, b_written, b_flashed, b_network,
    b_last_received, b_messages, b_processed, b_taken,
    \* Framing
    f_written, f_writing, f_line, f_faults, f_rb, f_head, f_tail,
    f_state, f_msg_len, f_msg_pos, f_msg_crc, f_received, f_reading, f_messages,
    f_unread, f_damaged

downVars ==
    <<d_messages, d_last_unacked, d_last_sent, d_first_unacked, d_blocked,
      d_slots, d_last_handled, d_last_announced, d_delivered, d_spinning, d_network>>

upVars ==
    <<u_slots, u_last_written, u_last_sent, u_last_acknown, u_messages, u_last_handled,
      u_last_announced, u_fragment, u_delivered, u_network, u_acks>>

bestUpVars ==
    <<b_writer, b_last_send, b_buffer, b_written, b_flashed, b_network,
      b_last_received, b_messages, b_processed, b_taken>>

frameVars ==
    <<f_written, f_writing, f_line, f_faults, f_rb, f_head, f_tail, f_state, f_msg_len,
      f_msg_pos, f_msg_crc, f_received, f_reading, f_messages, f_unread, f_damaged>>

MCWriters == {t1, t2, t3}
MCSubmessages == {s1, s2}
MCOneSubmessage == {s1}
MCSizes == {2, 4}
MCLiveSizes == {2, 6}
MCSmallSizes == {1, 2, 4}
MCSymmetry == Permutations(MCSubmessages)

Down == INSTANCE Downlink WITH
    Depth <- StreamDepth, InFlight <- StreamInFlight, Writers <- {r1},
    messages <- d_messages, last_unacked <- d_last_unacked, last_sent <- d_last_sent,
    first_unacked <- d_first_unacked, blocked <- d_blocked, slots <- d_slots,
    last_handled <- d_last_handled, last_announced <- d_last_announced,
    delivered <- d_delivered, spinning <- d_spinning, network <- d_network

Up == INSTANCE UplinkProofs WITH
    Depth <- StreamDepth, InFlight <- StreamInFlight,
    slots <- u_slots, last_written <- u_last_written, last_sent <- u_last_sent,
    last_acknown <- u_last_acknown, messages <- u_messages,
    last_handled <- u_last_handled, last_announced <- u_last_announced,
    fragment <- u_fragment, delivered <- u_delivered,
    network <- u_network, acks <- u_acks

BestUp == INSTANCE BestEffortUplink WITH
    Half <- BestUpHalf, Offset <- BestUpOffset, Size <- BestUpSize, Depth <- BestUpDepth,
    MaxWrites <- BestUpWrites,
    writer <- b_writer, last_send <- b_last_send, buffer <- b_buffer,
    written <- b_written, flashed <- b_flashed, network <- b_network,
    last_received <- b_last_received, messages <- b_messages,
    processed <- b_processed, taken <- b_taken

\* A message with an octet to escape, one for another address, a plain one.
MCFrames ==
    <<[payload |-> <<1, 126>>, to |-> 1],
      [payload |-> <<2>>, to |-> 3],
      [payload |-> <<3>>, to |-> 1]>>

Line == INSTANCE FramingProofs WITH
    Messages <- Frames,
    written <- f_written, writing <- f_writing, line <- f_line, faults <- f_faults,
    rb <- f_rb, head <- f_head, tail <- f_tail, state <- f_state,
    msg_len <- f_msg_len, msg_pos <- f_msg_pos, msg_crc <- f_msg_crc,
    received <- f_received, reading <- f_reading, messages <- f_messages,
    unread <- f_unread, damaged <- f_damaged

ASSUME LinksAssumption ==
    Down!ClientAssumption /\ Down!WindowAssumption
    /\ Up!UplinkAssumption /\ BestUp!UplinkAssumption /\ BestUp!HalfAssumption
    /\ Line!FramingAssumption

----------------------------------------------------------------------------

LinksInit ==
    /\ part \in Parts
    /\ Init /\ Down!Init /\ Up!Init /\ BestUp!Init /\ Line!Init

BestDownNext ==
    /\ part = "best-effort down"
    /\ Next
    /\ UNCHANGED <<part, downVars, upVars, bestUpVars, frameVars>>

BestUpNext ==
    /\ part = "best-effort up"
    /\ BestUp!Next
    /\ UNCHANGED <<part, vars, downVars, upVars, frameVars>>

DownNext ==
    /\ part = "down"
    /\ Down!Next
    /\ UNCHANGED <<part, vars, upVars, bestUpVars, frameVars>>

UpNext ==
    /\ part = "up"
    /\ Up!Next
    /\ UNCHANGED <<part, vars, downVars, bestUpVars, frameVars>>

LineNext ==
    /\ part = "line"
    /\ Line!Next
    /\ UNCHANGED <<part, vars, downVars, upVars, bestUpVars>>

LinksNext == BestDownNext \/ BestUpNext \/ DownNext \/ UpNext \/ LineNext

allVars == <<part, vars, downVars, upVars, bestUpVars, frameVars>>

LinksSpec == LinksInit /\ [][LinksNext]_allVars

\* Fairness of Downlink and of Uplink, over their variables here.
DownFairness ==
    /\ WF_downVars(Down!SendNext)
    /\ SF_downVars(Down!HeartbeatSent)
    /\ SF_downVars(Down!HeartbeatAnswered)
    /\ SF_downVars(Down!GapResent)
    /\ SF_downVars(Down!NextReceived)

UpFairness ==
    /\ WF_upVars(Up!Flash)
    /\ SF_upVars(Up!HeartbeatSent)
    /\ SF_upVars(Up!HeartbeatAnswered)
    /\ SF_upVars(Up!GapResent)
    /\ SF_upVars(Up!NextReceived)

LinksFairness ==
    \/ part = "down" /\ DownFairness
    \/ part = "up" /\ UpFairness

LinksFairSpec == LinksSpec /\ LinksFairness

\* Slots of the ring that hold nothing and fields the state machine has no use
\* for do not tell states apart.
LineView ==
    LET size == (f_head - f_tail) % ReadBuffer
    IN  <<f_written, f_writing, f_line, f_faults, f_unread,
          [i \in 1 .. size |-> f_rb[(f_tail + i - 1) % ReadBuffer]],
          IF size = 0 THEN 0 ELSE f_tail,
          f_state, f_reading, f_messages, f_damaged,
          IF f_state \in {"LEN_MSB", "PAYLOAD", "CRC_LSB", "CRC_MSB"} THEN f_msg_len ELSE 0,
          IF f_state \in {"PAYLOAD", "CRC_LSB", "CRC_MSB"}
          THEN <<f_msg_pos, f_received>> ELSE <<0, <<>>>>,
          IF f_state = "CRC_MSB" THEN f_msg_crc ELSE 0>>

View ==
    CASE part = "line" -> LineView
      [] part = "up" -> upVars
      [] part = "best-effort up" -> bestUpVars
      [] part = "down" -> downVars
      [] part = "best-effort down" -> vars

----------------------------------------------------------------------------
(* The properties of the parts by names of their own; those of the         *)
(* best-effort stream down are definitions of BestEffortDownlink, and those *)
(* of the reliable one, but for its progress, are checked on Downlink.     *)

\* Downlink: while a message waits the Client delivers again and again.
DownProgress == Down!Progress

\* Uplink: the slots in use are those of the messages not acknowledged, and
\* nothing the Agent could take out waits.
UpWindowsSound == Up!WindowsSound

\* Uplink: what the Agent has not taken out the Client can still send.
UpNothingLost == Up!NothingLost

\* Uplink: what the Client takes for acknowledged was taken out by the Agent.
ConfirmedIsHandled == Up!ConfirmedIsHandled

\* Uplink: each submessage is processed once, whole and in order.
UpImplementsChannel == Up!ImplementsChannel

\* Uplink: what may have to be sent again stays as it was sent, what was stored
\* ahead of a gap stays until its turn.
UpNothingForgotten == Up!NothingForgotten

\* Uplink: while a message that was sent waits, the Agent processes again and
\* again.
UpProgress == Up!Progress

\* ClientOutputStream, in Uplink: what was sent is not written to while it may
\* have to be sent again.
SentKept == Up!Client!SentKept

\* BestEffortUplink: what was written is processed in order, at most once, and
\* all of a message together.
BestUpImplementsChannel == BestUp!ImplementsChannel

\* Framing: the ring holds the octets that came and were not taken, in order.
RingIsQueue == Line!RingIsQueue

\* Framing: what is returned was written, in order and once.
OnlyWritten == Line!OnlyWritten

\* Framing: an intact frame is returned, whatever happened to those around it.
IntactReturned == Line!IntactReturned
=============================================================================
