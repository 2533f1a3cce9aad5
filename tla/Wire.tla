-------------------------------- MODULE Wire --------------------------------
(***************************************************************************)
(* The Client's submessages and the Agent's answers as the octets that     *)
(* pass between them: every request of the Client's interface is written   *)
(* in the room reserved for it, the Agent takes a message apart submessage *)
(* by submessage, and the Client takes the answers apart.                  *)
(*                                                                         *)
(* Each side only knows octets.  What the writer meant travels beside them *)
(* in "meant", which no action reads except to carry it along: it is there *)
(* for the properties.                                                     *)
(*                                                                         *)
(* The line neither loses nor reorders here, and the Client speaks when    *)
(* the line is empty: streams, loss and sessions are the subject of other  *)
(* modules.  Requests go out on a best-effort stream.                      *)
(***************************************************************************)
EXTENDS Messages, FiniteSets

CONSTANTS
    SessionIds,     \* the session ids a Client may have
    Key,            \* its key
    Capacity,       \* octets of the output stream's buffer, its header included
    Mtu,            \* octets of a message of the Agent's none and best-effort streams
    Texts,          \* representations of an entity
    Modes,          \* the creation modes of its entities
    Bodies,         \* samples
    Addresses,      \* the transport addresses the Agent makes known
    Requests,       \* the requests the Client makes
    MaxRequests     \* how many of them

UXR_REUSE == 2
UXR_REPLACE == 4

RequestNames ==
    {"create", "delete", "request_data", "topic", "request", "reply", "login", "logout",
     "heartbeat", "acknack", "sync", "ping", "discovery"}

ASSUME WireAssumption ==
    /\ SessionIds \subseteq 1..255 \ {SESSION_ID_WITHOUT_CLIENT_KEY}
    /\ Requests \subseteq RequestNames
    /\ Modes \subseteq {0, UXR_REUSE, UXR_REPLACE, UXR_REUSE + UXR_REPLACE}
    /\ {Capacity, Mtu, MaxRequests} \subseteq Nat

VARIABLES
    id,             \* info.id
    last_request_id,\* info.last_request_id
    stream,         \* the output stream: its octets, header included, and what they mean
    line,           \* the message on its way to the Agent, if any
    agent,          \* the Agent: the session it knows, what it took from the message so far
    answers,        \* the messages on their way to the Client
    listener,       \* which of the Client's functions waits for an answer
    heard,          \* its reading of the last answer
    requests        \* how many requests were made

vars == <<id, last_request_id, stream, line, agent, answers, listener, heard, requests>>

Message(octets, meant) == [octets |-> octets, meant |-> meant]
NoMessage == Message(<<>>, <<>>)

(* One submessage: its id, its flags, its payload and the octets that has. *)
Meaning(name, flags, value, size) ==
    [id |-> SubmessageId[name], flags |-> flags, value |-> value, size |-> size]

NONE_STREAM == 0
BUILTIN_RELIABLE == 128
RESERVED_REQUESTS_ID == 9
REQUEST_LOGIN == 1
REQUEST_LOGOUT == 2
GET_INFO_REQUEST_ID == 9
OBJECTID_AGENT == <<255, 253>>
OBJECTID_CLIENT == <<255, 254>>
XRCE_COOKIE == <<88, 82, 67, 69>>
XRCE_VERSION == <<1, 0>>
EPROSIMA_VENDOR_ID == <<1, 15>>
DATAREADER == 6
REQUESTER == 7
REPLIER == 8
PARTICIPANT == 1

(* The raw id of the one object of each type. *)
Object(type) == <<1, 32 + type>>
TypeOf(object_id) == object_id[2] % 16

EmptyStream == Message(Padding(uxr_session_header_offset(id)), <<>>)
NoClient == [session_id |-> 0, client_key |-> <<>>]
Idle(client) == [client |-> client, at |-> 0, took |-> <<>>, refused |-> FALSE]
Silence == [by |-> "session", meant |-> <<>>, read |-> <<>>]

Init ==
    /\ id \in SessionIds
    /\ last_request_id = RESERVED_REQUESTS_ID
    /\ stream = EmptyStream
    /\ line = NoMessage
    /\ agent = Idle(NoClient)
    /\ answers = <<>>
    /\ listener = "session"
    /\ heard = Silence
    /\ requests = 0

-----------------------------------------------------------------------------
(* The Client writes. *)

(* Nothing is on the line in either direction. *)
Quiet == line = NoMessage /\ answers = <<>>

(* One more request of the given name. *)
Asks(name) ==
    /\ name \in Requests /\ requests < MaxRequests
    /\ requests' = requests + 1

(* uxr_init_base_object_request, generate_request_id. *)
NextRequestId ==
    IF last_request_id = 65535 \/ last_request_id <= RESERVED_REQUESTS_ID
    THEN RESERVED_REQUESTS_ID + 1
    ELSE last_request_id + 1
Base(object_id) ==
    [request_id |-> <<NextRequestId \div 256, NextRequestId % 256>>, object_id |-> object_id]

(* Payload p of the given layout behind the submessage header. *)
WithPayload(b, name, length, flags, layout, p) ==
    Put(layout, p, uxr_buffer_submessage_header(b, SubmessageId[name], length, flags))

(* uxr_prepare_stream_to_write_submessage, and the payload then written in *)
(* the room it reserved. *)
WriteToStream(name, length, flags, layout, p) ==
    LET size == SUBHEADER_SIZE + length + uxr_submessage_padding(length)
        writer == Len(stream.octets)
        future_length == writer + uxr_submessage_padding(writer) + size
        written == WithPayload(stream.octets, name, length, flags, layout, p)
        payload == Len(written) - writer - uxr_submessage_padding(writer) - SUBHEADER_SIZE
    IN  /\ agent.client # NoClient /\ Quiet
        /\ future_length <= Capacity
        /\ stream' = Message(CutTo(future_length, written),
                             Append(stream.meant, Meaning(name, flags, p, payload)))
        /\ last_request_id' = NextRequestId
        /\ UNCHANGED <<id, line, agent, answers, listener, heard>>

(* The representation of an entity: a text that names it or describes it,  *)
(* and the object it belongs to, or the domain.                            *)
Representation(type, format, text) ==
    LET layout == Client!ObjectVariant.members[Client!ObjectVariant.cases[type]]
    IN  [x \in {layout.order[1], layout.order[2]} |->
            IF x = "base" THEN [representation |-> <<format, text>>]
            ELSE IF x = "domain_id" THEN 5 ELSE Object(PARTICIPANT)]

EntityTypes == 1..8
FormatsOf(type) ==
    {Client!DDS_XRCE_REPRESENTATION_AS_XML_STRING}
        \cup IF type \in {Client!DDS_XRCE_OBJK_PUBLISHER, Client!DDS_XRCE_OBJK_SUBSCRIBER}
             THEN {} ELSE {Client!DDS_XRCE_REPRESENTATION_BY_REFERENCE}

(* The length uxr_common_create_entity counts: the base, the two kinds,    *)
(* their padding, the length of the text, the text, a padding where a      *)
(* number follows, and that number or object id.                           *)
BugCreateLength(type, xml_ref_size) == 4 + 1 + 1 + 2 + 4 + xml_ref_size + 2
CreateLength(type, xml_ref_size) ==
    LET length == 4 + 1 + 1 + 2 + 4 + xml_ref_size
    IN  length + (IF type = PARTICIPANT /\ length % 2 # 0 THEN 1 ELSE 0) + 2

BufferCreate ==
    /\ Asks("create")
    /\ \E type \in EntityTypes, text \in Texts :
           \E format \in FormatsOf(type), mode \in Modes :
               WriteToStream("CREATE", CreateLength(type, Len(text) + 1), mode,
                   Client!CREATE_Payload,
                   [base |-> Base(Object(type)),
                    object_representation |-> <<type, Representation(type, format, text)>>])

BufferDelete ==
    /\ Asks("delete")
    /\ \E type \in EntityTypes :
           WriteToStream("DELETE", 4, 0, Client!DELETE_Payload, [base |-> Base(Object(type))])

(* uxr_buffer_request_data; uxr_buffer_cancel_data is one with a control.  *)
ReadLength(control) == 4 + 4 + (IF control = <<>> THEN 0 ELSE 8)
Controls ==
    {<<>>, <<[max_samples |-> 3, max_elapsed_time |-> 500, max_bytes_per_second |-> 7,
              min_pace_period |-> 1]>>}

BufferRequestData ==
    /\ Asks("request_data")
    /\ \E type \in {DATAREADER, REQUESTER, REPLIER}, control \in Controls, in \in {1, 128} :
           WriteToStream("READ_DATA", ReadLength(control), 0, Client!READ_DATA_Payload,
               [base |-> Base(Object(type)),
                read_specification |->
                   [preferred_stream_id |-> in, data_format |-> Client!FORMAT_DATA,
                    content_filter_expression |-> <<>>, delivery_control |-> control]])

(* The octets of a sample behind the base, and before them the identity of *)
(* the request a replier answers or the request a requester made.          *)
Sample(prefix, size) ==
    Struct([base |-> Client!BaseObjectRequest, prefix |-> prefix, data |-> Raw(size)],
           <<"base", "prefix", "data">>)
NoPrefix == Octets(0)

WRITE_DATA_PAYLOAD_SIZE == 4
SAMPLE_IDENTITY_SIZE == 24
SomeIdentity ==
    [writer_guid |->
        [guidPrefix |-> [i \in 1..12 |-> 200 + i],
         entityId |-> [entityKey |-> <<1, 2, 3>>, entityKind |-> 4]],
     sequence_number |-> [high |-> 0, low |-> 77]]

BufferTopic ==
    /\ Asks("topic")
    /\ \E data \in Bodies :
           WriteToStream("WRITE_DATA", WRITE_DATA_PAYLOAD_SIZE + Len(data), 0,
               Sample(NoPrefix, Len(data)),
               [base |-> Base(Object(Client!DDS_XRCE_OBJK_DATAWRITER)), prefix |-> <<>>,
                data |-> data])

BufferRequest ==
    /\ Asks("request")
    /\ \E data \in Bodies :
           WriteToStream("WRITE_DATA", WRITE_DATA_PAYLOAD_SIZE + Len(data), 0,
               Sample(NoPrefix, Len(data)),
               [base |-> Base(Object(REQUESTER)), prefix |-> <<>>, data |-> data])

BufferReply ==
    /\ Asks("reply")
    /\ \E data \in Bodies :
           WriteToStream("WRITE_DATA",
               WRITE_DATA_PAYLOAD_SIZE + SAMPLE_IDENTITY_SIZE + Len(data), 0,
               Sample(Client!SampleIdentity, Len(data)),
               [base |-> Base(Object(REPLIER)), prefix |-> SomeIdentity, data |-> data])

(* uxr_flash_output_streams, for this stream. *)
FlashStream ==
    /\ Quiet /\ stream.meant # <<>>
    /\ LET head == uxr_serialize_message_header(id, 1, 0, Key)
       IN  line' = [stream EXCEPT !.octets = head \o SubSeq(@, Len(head) + 1, Len(@))]
    /\ stream' = EmptyStream
    /\ listener' = "session"
    /\ UNCHANGED <<id, last_request_id, agent, answers, heard, requests>>

(* A message of its own, written in a buffer that has room for the longest *)
(* header and the payload.                                                 *)
SendAlone(waits, head, room, name, length, layout, p) ==
    LET written == WithPayload(Padding(Len(head)), name, length, 0, layout, p)
        b == SubSeq(head \o SubSeq(written, Len(head) + 1, Len(written)), 1,
                    IF Len(written) <= room THEN Len(written) ELSE room)
    IN  /\ Quiet
        /\ line' = Message(b, <<Meaning(name, 0, p,
                                       Len(written) - Len(head) - SUBHEADER_SIZE)>>)
        /\ listener' = waits
        /\ UNCHANGED <<id, stream, agent, answers, heard>>

MaxSize(length) == MAX_HEADER_SIZE + SUBHEADER_SIZE + length
SessionHeader == uxr_serialize_message_header(id, NONE_STREAM, 0, Key)

CREATE_CLIENT_PAYLOAD_SIZE == 16

(* uxr_create_session_retries; the session's own id travels in the payload.*)
Login ==
    /\ Asks("login")
    /\ SendAlone("session",
          uxr_serialize_message_header(IF id < 128 THEN 0 ELSE 128, NONE_STREAM, 0, Key),
          MaxSize(CREATE_CLIENT_PAYLOAD_SIZE), "CREATE_CLIENT", CREATE_CLIENT_PAYLOAD_SIZE,
          Client!CREATE_CLIENT_Payload,
          [client_representation |->
            [xrce_cookie |-> XRCE_COOKIE, xrce_version |-> XRCE_VERSION,
             xrce_vendor_id |-> EPROSIMA_VENDOR_ID, client_key |-> Key, session_id |-> id,
             properties |-> <<>>, mtu |-> Mtu]])
    /\ last_request_id' = REQUEST_LOGIN

(* uxr_delete_session_retries. *)
Logout ==
    /\ Asks("logout")
    /\ SendAlone("session", SessionHeader, MaxSize(4), "DELETE", 4, Client!DELETE_Payload,
          [base |-> [request_id |-> <<0, REQUEST_LOGOUT>>, object_id |-> OBJECTID_CLIENT]])
    /\ last_request_id' = REQUEST_LOGOUT

HEARTBEAT_PAYLOAD_SIZE == 5
ACKNACK_PAYLOAD_SIZE == 5
TIMESTAMP_PAYLOAD_SIZE == 8

(* write_submessage_heartbeat, write_submessage_acknack, uxr_sync_session. *)
Heartbeat ==
    /\ Asks("heartbeat")
    /\ SendAlone("session", SessionHeader, MaxSize(HEARTBEAT_PAYLOAD_SIZE), "HEARTBEAT",
          HEARTBEAT_PAYLOAD_SIZE, Client!HEARTBEAT_Payload,
          [first_unacked_seq_nr |-> 258, last_unacked_seq_nr |-> 772, stream_id |-> 128])
    /\ UNCHANGED last_request_id

Acknack ==
    /\ Asks("acknack")
    /\ SendAlone("session", SessionHeader, MaxSize(ACKNACK_PAYLOAD_SIZE), "ACKNACK",
          ACKNACK_PAYLOAD_SIZE, Client!ACKNACK_Payload,
          [first_unacked_seq_num |-> 515, nack_bitmap |-> <<1, 2>>, stream_id |-> 128])
    /\ UNCHANGED last_request_id

Now(t) == [seconds |-> 1000 + t, nanoseconds |-> 70000 + t]

Sync ==
    /\ Asks("sync")
    /\ SendAlone("session", SessionHeader, MaxSize(TIMESTAMP_PAYLOAD_SIZE), "TIMESTAMP",
          TIMESTAMP_PAYLOAD_SIZE, Client!TIMESTAMP_Payload, [transmit_timestamp |-> Now(0)])
    /\ UNCHANGED last_request_id

GET_INFO_MSG_SIZE == 8
UXR_PING_BUF == 16
INFO_CONFIGURATION == 1
INFO_ACTIVITY == 2

(* serialize_get_info_message of ping.c, write_get_info_message of         *)
(* discovery.c: no session and no key.                                     *)
GetInfo(waits, room, mask) ==
    /\ SendAlone(waits,
          uxr_serialize_message_header(SESSION_ID_WITHOUT_CLIENT_KEY, NONE_STREAM, 0, Key),
          room, "GET_INFO", GET_INFO_MSG_SIZE, Client!GET_INFO_Payload,
          [base |-> [request_id |-> <<0, GET_INFO_REQUEST_ID>>, object_id |-> OBJECTID_AGENT],
           info_mask |-> mask])
    /\ UNCHANGED last_request_id

Ping == Asks("ping") /\ GetInfo("ping", UXR_PING_BUF, INFO_ACTIVITY)
Discovery ==
    Asks("discovery") /\ GetInfo("discovery", Mtu, INFO_CONFIGURATION + INFO_ACTIVITY)

-----------------------------------------------------------------------------
(* The Agent takes a message apart. *)

Header == InputHeader(line.octets)
WithoutSession == Header.v.session_id \in {0, SESSION_ID_WITHOUT_CLIENT_KEY}

(* The next submessage, where the last one ended. *)
NextSubmessage ==
    prepare_next_submessage(line.octets, IF agent.at = 0 THEN Header.at ELSE agent.at)
Has(name) == NextSubmessage.ok /\ NextSubmessage.v.id = SubmessageId[name]
Payload(layout) == Get(layout, line.octets, NextSubmessage.at)
Took(name, value) ==
    Append(agent.took,
           [id |-> SubmessageId[name], flags |-> NextSubmessage.v.flags, value |-> value])

(* A message with one submessage.  Where a message is made for one it has  *)
(* exactly the size counted; the none and the best-effort streams give it  *)
(* the session's mtu.  Longer than the mtu and on a reliable stream it     *)
(* would be fragmented: Mtu is longer than all of them.                    *)
Answer(header, size, name, layout, counted, p) ==
    Message(append_submessage(header, size, SubmessageId[name], layout, counted, p),
            <<Meaning(name, 0, p, Len(Put(layout, p, <<>>)))>>)
Alone(header, name, layout, counted, p) ==
    Answer(header, message_size(header, counted, p), name, layout, counted, p)
HeaderOn(stream_id) ==
    [session_id |-> agent.client.session_id, stream_id |-> stream_id, sequence_nr |-> 0,
     client_key |-> agent.client.client_key]
OnStream(stream_id, name, layout, p) ==
    LET h == HeaderOn(stream_id)
    IN  Answer(h, IF stream_id >= 128 THEN message_size(h, layout, p) ELSE Mtu,
               name, layout, layout, p)

Status(base, status) ==
    [base |-> [related_request |-> base,
               result |-> [status |-> status, implementation_status |-> 0]]]
STATUS_OK == 0
STATUS_ERR_UNKNOWN_REFERENCE == 131

(* Of a message that is none of a known session's, and after the Client's  *)
(* end, no further submessage is looked at.                                *)
Done(client, took, replies) ==
    /\ agent' = [client |-> client, at |-> Len(line.octets), took |-> took,
                 refused |-> took = <<>>]
    /\ answers' = answers \o replies
    /\ UNCHANGED <<id, last_request_id, stream, line, listener, heard, requests>>

First == line # NoMessage /\ agent.at = 0

ProcessCreateClient ==
    /\ First /\ WithoutSession /\ Has("CREATE_CLIENT")
    /\ \E r \in {Payload(Agent!CREATE_CLIENT_Payload)} :
       LET rep == r.v.client_representation
           h == [Header.v EXCEPT !.session_id = rep.session_id]
           header == [x \in DOMAIN h \cup {"client_key"} |->
                        IF x \in DOMAIN h THEN h[x] ELSE <<0, 0, 0, 0>>]
           p == [result |-> [status |-> STATUS_OK, implementation_status |-> 0],
                 agent_info |-> [xrce_cookie |-> XRCE_COOKIE, xrce_version |-> XRCE_VERSION,
                                 xrce_vendor_id |-> EPROSIMA_VENDOR_ID, properties |-> <<>>]]
       IN  IF r.ok
           THEN Done([session_id |-> rep.session_id, client_key |-> rep.client_key],
                     Took("CREATE_CLIENT", r.v),
                     <<Alone(header, "STATUS_AGENT", Agent!STATUS_AGENT_Payload,
                             Agent!STATUS_AGENT_Payload_counted, p)>>)
           ELSE Done(agent.client, <<>>, <<>>)

(* process_get_info_packet, of the processor or of the discovery server:   *)
(* only the latter has addresses.  An unreadable payload is answered too.  *)
ProcessGetInfo ==
    /\ First /\ WithoutSession /\ Has("GET_INFO")
    /\ \E r \in {Payload(Agent!GET_INFO_Payload)} :
       LET info(addresses) ==
            [base |-> Status(r.v.base, STATUS_OK).base,
             object_info |->
                [config |-> <<<<Agent!OBJK_AGENT,
                    [xrce_cookie |-> XRCE_COOKIE, xrce_version |-> XRCE_VERSION,
                     xrce_vendor_id |-> EPROSIMA_VENDOR_ID, properties |-> <<>>]>>>>,
                 activity |-> <<<<Agent!OBJK_AGENT,
                    [availability |-> 1, address_seq |-> addresses]>>>>]]
           answer(p) == Alone(Header.v, "INFO", Agent!INFO_Payload,
                              Agent!INFO_Payload_counted, p)
       IN  IF listener = "discovery"
           THEN \E addresses \in Addresses :
                    Done(agent.client, Took("GET_INFO", r.v), <<answer(info(addresses))>>)
           ELSE Done(agent.client, Took("GET_INFO", r.v), <<answer(info(<<>>))>>)

KnownSession == agent.client # NoClient

(* A Client the Agent does not know is told that it is deleted. *)
ProcessUnknownClient ==
    /\ First /\ ~WithoutSession /\ ~KnownSession
    /\ \E r \in {Payload(Agent!DELETE_Payload)} :
       LET p == Status(r.v.base, STATUS_OK)
       IN  IF Has("DELETE") /\ r.ok /\ TypeOf(r.v.base.object_id) = Agent!OBJK_CLIENT
           THEN Done(NoClient, Took("DELETE", r.v),
                     <<Alone(Header.v, "STATUS", Agent!STATUS_Payload,
                             Agent!STATUS_Payload, p)>>)
           ELSE Done(NoClient, <<>>, <<>>)

(* process_submessage, of a known session: what its handler took, whether  *)
(* it refuses the rest of the message, and what it answers.                *)
Handle(name, r, refused, replies) ==
    /\ agent' = [agent EXCEPT !.at = r.at, !.refused = refused,
                             !.took = IF r.ok THEN Took(name, r.v) ELSE @]
    /\ answers' = answers \o replies
    /\ UNCHANGED <<id, last_request_id, stream, line, listener, heard, requests>>

Submessage(name) ==
    line # NoMessage /\ ~WithoutSession /\ KnownSession /\ ~agent.refused /\ Has(name)

(* Whether it could be created is Entities' question. *)
ProcessCreate ==
    /\ Submessage("CREATE")
    /\ \E r \in {Payload(Agent!CREATE_Payload)} :
           \E status \in {STATUS_OK, STATUS_ERR_UNKNOWN_REFERENCE} :
            Handle("CREATE", r, FALSE,
                IF r.ok THEN <<OnStream(BUILTIN_RELIABLE, "STATUS", Agent!STATUS_Payload,
                                        Status(r.v.base, status))>>
                ELSE <<>>)

ProcessDelete ==
    /\ Submessage("DELETE")
    /\ \E r \in {Payload(Agent!DELETE_Payload)} :
       LET status(on) ==
            <<OnStream(on, "STATUS", Agent!STATUS_Payload, Status(r.v.base, STATUS_OK))>>
       IN  IF ~r.ok THEN Handle("DELETE", r, TRUE, <<>>)
           ELSE IF TypeOf(r.v.base.object_id) = Agent!OBJK_CLIENT
           THEN Done(NoClient, Took("DELETE", r.v), status(NONE_STREAM))
           ELSE Handle("DELETE", r, FALSE, status(BUILTIN_RELIABLE))

(* The Agent keeps a replier's identity and sample in one piece and only   *)
(* the middleware takes them apart (FastDDSReplier::write).                *)
BugWithIdentity(r, identity) == [r EXCEPT !.v.prefix = identity.v]
WithIdentity(r, identity) ==
    [r EXCEPT !.v.prefix = identity.v, !.v.data = SubSeq(@, identity.at + 1, Len(@))]
TakeApart(r) ==
    IF r.ok /\ TypeOf(r.v.base.object_id) = REPLIER
    THEN WithIdentity(r, Get(Agent!SampleIdentity, r.v.data, 0))
    ELSE r

(* What could not be written in the middleware ends the message. *)
ProcessWriteData ==
    /\ Submessage("WRITE_DATA")
    /\ \E r \in {TakeApart(Payload(Sample(NoPrefix, NextSubmessage.v.length - 4)))} :
           \E written \in BOOLEAN : Handle("WRITE_DATA", r, ~(r.ok /\ written), <<>>)

(* What a reader hands on: the sample, behind the identity of the request  *)
(* (FastDDSReplier::read, in the size counted for it) or behind the        *)
(* request it answers (Requester::read_fn).                                *)
Serialized(type, prefix, body) ==
    CASE type = DATAREADER -> body
      [] type = REPLIER -> CutTo(Agent!Size(Agent!SampleIdentity_counted, prefix) + Len(body),
                                 Put(Agent!SampleIdentity, prefix, <<>>) \o body)
      [] type = REQUESTER -> Put(Agent!BaseObjectRequest, prefix, <<>>) \o body

PrefixFor(type) ==
    CASE type = DATAREADER -> <<>>
      [] type = REPLIER -> SomeIdentity
      [] type = REQUESTER -> [request_id |-> <<0, 12>>, object_id |-> Object(REQUESTER)]

(* A sample is sent by the reader's thread, later; one of them stands for  *)
(* them all.                                                               *)
Data(request, body) ==
    LET type == TypeOf(request.base.object_id)
        prefix == PrefixFor(type)
        octets == Serialized(type, prefix, body)
        sent == OnStream(request.read_specification.preferred_stream_id, "DATA",
                    Sample(NoPrefix, Len(octets)),
                    [base |-> request.base, prefix |-> <<>>, data |-> octets])
    IN  [sent EXCEPT !.meant[1].value =
            [base |-> request.base, prefix |-> prefix, data |-> body]]

ProcessReadData ==
    /\ Submessage("READ_DATA")
    /\ \E r \in {Payload(Agent!READ_DATA_Payload)} :
           IF ~r.ok THEN Handle("READ_DATA", r, TRUE, <<>>)
           ELSE \/ \E body \in Bodies : Handle("READ_DATA", r, FALSE, <<Data(r.v, body)>>)
                \/ Handle("READ_DATA", r, FALSE,
                        <<OnStream(BUILTIN_RELIABLE, "STATUS", Agent!STATUS_Payload,
                                   Status(r.v.base, STATUS_ERR_UNKNOWN_REFERENCE))>>)

(* What is sent again is not in this model. *)
ProcessAcknack ==
    /\ Submessage("ACKNACK")
    /\ \E r \in {Payload(Agent!ACKNACK_Payload)} : Handle("ACKNACK", r, ~r.ok, <<>>)

SomeAcknack(stream_id) ==
    [first_unacked_seq_num |-> 1027, nack_bitmap |-> <<5, 6>>, stream_id |-> stream_id]

ProcessHeartbeat ==
    /\ Submessage("HEARTBEAT")
    /\ \E r \in {Payload(Agent!HEARTBEAT_Payload)} :
           Handle("HEARTBEAT", r, ~r.ok,
             IF r.ok THEN <<OnStream(NONE_STREAM, "ACKNACK", Agent!ACKNACK_Payload,
                                     SomeAcknack(r.v.stream_id))>>
             ELSE <<>>)

ProcessTimestamp ==
    /\ Submessage("TIMESTAMP")
    /\ \E r \in {Payload(Agent!TIMESTAMP_Payload)} :
           Handle("TIMESTAMP", r, ~r.ok,
             IF r.ok
             THEN <<OnStream(NONE_STREAM, "TIMESTAMP_REPLY", Agent!TIMESTAMP_REPLY_Payload,
                        [transmit_timestamp |-> Now(2), receive_timestamp |-> Now(1),
                         originate_timestamp |-> r.v.transmit_timestamp])>>
             ELSE <<>>)

(* process_input_message ends: nothing is left, or the rest is refused. *)
Finished == line # NoMessage /\ agent.at > 0 /\ (~NextSubmessage.ok \/ agent.refused)

EndOfMessage ==
    /\ Finished
    /\ agent' = Idle(agent.client)
    /\ line' = NoMessage
    /\ UNCHANGED <<id, last_request_id, stream, answers, listener, heard, requests>>

(* check_heartbeats, of the heartbeat thread: the size is counted before   *)
(* the session id is filled in.                                            *)
CheckHeartbeats ==
    /\ KnownSession /\ Quiet /\ "heartbeat" \in Requests
    /\ LET p == [first_unacked_seq_nr |-> 1281, last_unacked_seq_nr |-> 1285, stream_id |-> 128]
           h == HeaderOn(NONE_STREAM)
           size == message_size([h EXCEPT !.session_id = 0], Agent!HEARTBEAT_Payload, p)
       IN  answers' = <<Answer(h, size, "HEARTBEAT", Agent!HEARTBEAT_Payload,
                               Agent!HEARTBEAT_Payload, p)>>
    /\ listener' = "session"
    /\ UNCHANGED <<id, last_request_id, stream, line, agent, heard, requests>>

-----------------------------------------------------------------------------
(* The Client takes an answer apart. *)

(* ucdr_advance_buffer: not beyond the end. *)
Advance(b, at, n) == IF at + n <= Len(b) THEN at + n ELSE at

(* read_submessage_data, read_format_data: the sample and what is before   *)
(* it, and where the next submessage is looked for.  A requester's buffer  *)
(* is advanced twice; with nothing behind the sample the second has no     *)
(* effect.                                                                 *)
PrefixOf(type) ==
    CASE type = REPLIER   -> Client!SampleIdentity
      [] type = REQUESTER -> Client!BaseObjectRequest
      [] OTHER            -> NoPrefix
DataOf(b, length, type, base, prefix) ==
    [at |-> Advance(b, IF type = REQUESTER THEN base.at + length ELSE base.at, length),
     value |-> [base |-> base.v, prefix |-> prefix.v,
                data |-> SubSeq(b, prefix.at + 1, base.at + length)]]
ReadSample(b, length, type, base) ==
    DataOf(b, length, type, base, Get(PrefixOf(type), b, base.at))
ReadDataOf(b, length, base) == ReadSample(b, length, TypeOf(base.v.object_id), base)
ReadData(b, at, submessage) ==
    ReadDataOf(b, submessage.length - 4, Get(Client!BaseObjectRequest, b, at))

AtAndValue(r) == [at |-> r.at, value |-> r.v]
ReadAs(layout, b, at) == AtAndValue(Get(layout, b, at))

(* read_submessage: what is not known is not skipped either. *)
ReadSubmessage(b, at, stream_id, s) ==
    CASE s.id = SubmessageId["STATUS_AGENT"] /\ stream_id = NONE_STREAM ->
            ReadAs(Client!STATUS_AGENT_Payload, b, at)
      [] s.id = SubmessageId["STATUS"]          -> ReadAs(Client!STATUS_Payload, b, at)
      [] s.id = SubmessageId["DATA"]            -> ReadData(b, at, s)
      [] s.id = SubmessageId["HEARTBEAT"]       -> ReadAs(Client!HEARTBEAT_Payload, b, at)
      [] s.id = SubmessageId["ACKNACK"]         -> ReadAs(Client!ACKNACK_Payload, b, at)
      [] s.id = SubmessageId["TIMESTAMP_REPLY"] -> ReadAs(Client!TIMESTAMP_REPLY_Payload, b, at)
      [] OTHER                                  -> [at |-> at, value |-> <<>>]

RECURSIVE ReadSubmessages(_, _, _), ReadFrom(_, _, _), ReadBehind(_, _, _, _)
ReadSubmessages(b, at, stream_id) ==
    ReadFrom(b, stream_id, uxr_read_submessage_header(b, at))
ReadFrom(b, stream_id, s) ==
    IF s.ok THEN ReadBehind(b, stream_id, s.v, ReadSubmessage(b, s.at, stream_id, s.v))
    ELSE <<>>
ReadBehind(b, stream_id, s, r) ==
    <<[id |-> s.id, flags |-> s.flags, value |-> r.value]>>
        \o ReadSubmessages(b, r.at, stream_id)

(* read_message, when its stream accepts the message. *)
ReadMessageOf(b, h) == IF h.ok THEN ReadSubmessages(b, h.at, h.v.stream_id) ELSE <<>>
ReadMessage(b) == ReadMessageOf(b, uxr_read_session_header(id, Key, b))

(* uxr_acknack_pong, behind the twelve octets listen_info_message skips:   *)
(* of the activity it reads no more than an Agent's availability.          *)
PONG_ADVANCE == 1 + 1 + 2 + 4 + 1 + 1 + 2
Pong ==
    Struct([base |-> Client!BaseObjectReply, config |-> Opt(Client!ObjectVariant),
            activity |-> Opt(Union(1, [agent |-> UInt(2)],
                                   Case(Client!DDS_XRCE_OBJK_AGENT, "agent")))],
           <<"base", "config", "activity">>)
ReadPong(b) ==
    <<[id |-> SubmessageId["INFO"], flags |-> 0,
       value |-> Get(Pong, b, Advance(b, 0, PONG_ADVANCE)).v]>>

(* discovery.c: listen_info_message.  Of the addresses no more are read    *)
(* than there is room for.                                                 *)
Limit == Client!UXR_TRANSPORT_LOCATOR_SEQUENCE_MAX
AtMostLimit(n) == IF n > Limit THEN Limit ELSE n
ReadAddresses(b, n) == GetEach(Client!TransportLocator, AtMostLimit(n.v), b, n.at, <<>>).v
Discovered(b, s, r) ==
    <<[id |-> s.id, flags |-> s.flags,
       value |-> [base |-> r.v.base,
                  object_info |->
                    [config |-> r.v.config,
                     activity |-> <<<<r.v.activity[1][1],
                        [availability |-> r.v.activity[1][2],
                         address_seq |-> ReadAddresses(b, GetNumber(4, b, r.at))]>>>>]]]>>
ReadInfo(b, s) == Discovered(b, s.v, Get(Pong, b, s.at))
ReadDiscovered(b) ==
    ReadInfo(b, uxr_read_submessage_header(b, uxr_session_header_offset(b[1])))

(* listen_message, or the function of ping.c or discovery.c that waits. *)
Hear ==
    /\ answers # <<>> /\ (line = NoMessage \/ Finished)
    /\ LET m == Head(answers)
       IN  heard' = [by |-> listener, meant |-> m.meant,
                     read |-> CASE listener = "session"   -> ReadMessage(m.octets)
                                [] listener = "ping"      -> ReadPong(m.octets)
                                [] listener = "discovery" -> ReadDiscovered(m.octets)]
    /\ answers' = Tail(answers)
    /\ UNCHANGED <<id, last_request_id, stream, line, agent, listener, requests>>

ClientStep ==
    \/ BufferCreate \/ BufferDelete \/ BufferRequestData
    \/ BufferTopic \/ BufferRequest \/ BufferReply \/ FlashStream
    \/ Login \/ Logout \/ Heartbeat \/ Acknack \/ Sync \/ Ping \/ Discovery
    \/ Hear

AgentStep ==
    \/ ProcessCreateClient \/ ProcessGetInfo \/ ProcessUnknownClient
    \/ ProcessCreate \/ ProcessDelete \/ ProcessWriteData \/ ProcessReadData
    \/ ProcessAcknack \/ ProcessHeartbeat \/ ProcessTimestamp
    \/ EndOfMessage \/ CheckHeartbeats

Next == ClientStep \/ AgentStep
Spec == Init /\ [][Next]_vars

-----------------------------------------------------------------------------
(* What the properties compare: a meaning as its reader should have it.    *)
ToRead(m) ==
    [id |-> m.id, flags |-> m.flags,
     value |-> IF m.id = SubmessageId["INFO"]
               THEN [m.value EXCEPT !.object_info.activity[1][2].address_seq =
                        SubSeq(@, 1, AtMostLimit(Len(@)))]
               ELSE m.value]
AllToRead(ms) == [i \in DOMAIN ms |-> ToRead(ms[i])]

(* The Agent takes from a message the submessages the Client put in it, in *)
(* their order and with their values, and all of them unless a handler     *)
(* refused the rest; the session and the discovery read in an answer what  *)
(* the Agent put in it.  The length counted by hand for each request, the  *)
(* sizes the Agent counts and the two sides' own ideas of where the next   *)
(* submessage is all have to be right for it.                              *)
Understood ==
    /\ line # NoMessage =>
        LET meant == AllToRead(line.meant)
        IN  /\ Len(agent.took) <= Len(meant)
            /\ agent.took = SubSeq(meant, 1, Len(agent.took))
            /\ (Finished /\ ~agent.refused) => agent.took = meant
    /\ heard.by # "ping" => heard.read = AllToRead(heard.meant)

(* The submessages found by walking along the length fields: for each its  *)
(* id and the length announced.                                            *)
RECURSIVE Walk(_, _)
Walk(b, at) ==
    LET s == uxr_read_submessage_header(b, at)
    IN  IF s.ok
        THEN <<<<s.v.id, s.v.length>>>> \o Walk(b, s.at + s.v.length)
        ELSE <<>>

(* Every length field is the length of the payload written behind it, and  *)
(* nothing was cut off or left unwritten at the end of a message: a reader *)
(* that skips what it does not know would find the same submessages.       *)
LengthsTrue ==
    \A m \in {line} \cup {answers[i] : i \in DOMAIN answers} :
        m # NoMessage =>
            /\ Walk(m.octets, uxr_session_header_offset(m.octets[1]))
                    = [i \in DOMAIN m.meant |-> <<m.meant[i].id, m.meant[i].size>>]

(* ping.h:29 counts four octets of message header.  What the ping reads is *)
(* the answer's payload.                                                   *)
PongUnderstood ==
    heard.by = "ping" /\ heard.meant # <<>> =>
        LET info == heard.meant[1].value
            pong == heard.read[1].value
        IN  /\ pong # <<>> /\ pong.base = info.base
            /\ pong.config = info.object_info.config

=============================================================================
