------------------------------ MODULE Messages ------------------------------
(***************************************************************************)
(* How both sides put submessages in a message and find them again: the    *)
(* message header, four octets or eight with the Client's key, and behind  *)
(* it submessages, each with a header of four octets, aligned to four.     *)
(***************************************************************************)
EXTENDS Cdr, TLC

Client == INSTANCE ClientTypes
Agent == INSTANCE AgentTypes

SESSION_ID_WITHOUT_CLIENT_KEY == 128
MIN_HEADER_SIZE == 4
MAX_HEADER_SIZE == 8
SUBHEADER_SIZE == 4
FLAG_ENDIANNESS == 1

SubmessageId ==
    [CREATE_CLIENT |-> 0, CREATE |-> 1, GET_INFO |-> 2, DELETE |-> 3, STATUS_AGENT |-> 4,
     STATUS |-> 5, INFO |-> 6, WRITE_DATA |-> 7, READ_DATA |-> 8, DATA |-> 9, ACKNACK |-> 10,
     HEARTBEAT |-> 11, RESET |-> 12, FRAGMENT |-> 13, TIMESTAMP |-> 14, TIMESTAMP_REPLY |-> 15]

(* The octets of b that fit in n, and n of them: what was not written is   *)
(* whatever the buffer held.                                               *)
CutTo(n, b) == SubSeq(b \o Padding(n), 1, n)

-----------------------------------------------------------------------------
(* The Client. *)

uxr_session_header_offset(id) ==
    IF SESSION_ID_WITHOUT_CLIENT_KEY > id THEN MAX_HEADER_SIZE ELSE MIN_HEADER_SIZE

uxr_serialize_message_header(session_id, stream_id, seq_num, key) ==
    <<session_id, stream_id>> \o Digits(seq_num, 2)
        \o IF SESSION_ID_WITHOUT_CLIENT_KEY > session_id THEN key ELSE <<>>

(* Where the payload of a received message starts, if it is this session's.*)
uxr_read_session_header(id, key, b) ==
    LET head == uxr_session_header_offset(b[1])
    IN  IF /\ Len(b) > MAX_HEADER_SIZE
           /\ b[1] = id
           /\ SESSION_ID_WITHOUT_CLIENT_KEY > id => SubSeq(b, 5, 8) = key
        THEN Read(head, [stream_id |-> b[2], seq_num |-> NumberOf(SubSeq(b, 3, 4))])
        ELSE Unread(b)

uxr_submessage_padding(length) ==
    IF length % SUBHEADER_SIZE # 0 THEN SUBHEADER_SIZE - (length % SUBHEADER_SIZE) ELSE 0

uxr_buffer_submessage_header(b, id, length, flags) ==
    b \o Padding(Align(Len(b), 4)) \o <<id, flags + FLAG_ENDIANNESS>> \o Digits(length, 2)

(* A submessage header read at a position; the endianness is taken out of  *)
(* the flags.                                                              *)
SubmessageHeader(b, at) ==
    [id |-> b[at + 1], flags |-> b[at + 2] - (b[at + 2] % 2),
     length |-> NumberOf(SubSeq(b, at + 3, at + 4))]

uxr_read_submessage_header(b, at) ==
    LET start == at + Align(at, 4)
    IN  IF start + SUBHEADER_SIZE <= Len(b)
        THEN Read(start + SUBHEADER_SIZE, SubmessageHeader(b, start))
        ELSE Unread(b)

-----------------------------------------------------------------------------
(* The Agent. *)

MessageHeader(session_id) ==
    Struct([session_id |-> UInt(1), stream_id |-> UInt(1), sequence_nr |-> UInt(2),
            client_key |-> Agent!ClientKey],
           <<"session_id", "stream_id", "sequence_nr">>
               \o IF 128 > session_id THEN <<"client_key">> ELSE <<>>)

OutputMessage(header) == Put(MessageHeader(header.session_id), header, <<>>)

(* A submessage behind what the buffer b holds, announced with the size    *)
(* its payload is counted to have.                                         *)
WithSubmessage(b, id, layout, counted, payload) ==
    Put(layout, payload,
        b \o Padding(Align(Len(b), 4)) \o <<id, FLAG_ENDIANNESS>>
          \o Digits(Agent!Size(counted, payload), 2))

(* A message with one submessage in a buffer of the given size: what that  *)
(* has no room for is not written.                                         *)
Cut(size, b) == SubSeq(b, 1, IF Len(b) <= size THEN Len(b) ELSE size)
append_submessage(header, size, id, layout, counted, payload) ==
    Cut(size, WithSubmessage(OutputMessage(header), id, layout, counted, payload))

(* The size such a message is given where it is made for its submessage.   *)
message_size(header, counted, payload) ==
    Agent!Size(MessageHeader(header.session_id), header) + SUBHEADER_SIZE
        + Agent!Size(counted, payload)

InputHeader(b) == Get(MessageHeader(b[1]), b, 0)

prepare_next_submessage(b, at) ==
    LET start == at + Align(at, 4)
    IN  IF Len(b) > start /\ start + SUBHEADER_SIZE <= Len(b)
        THEN Read(start + SUBHEADER_SIZE, SubmessageHeader(b, start))
        ELSE Unread(b)

=============================================================================
