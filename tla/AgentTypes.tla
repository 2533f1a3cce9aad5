----------------------------- MODULE AgentTypes -----------------------------
(***************************************************************************)
(* How the Agent lays out the types of the protocol: for every class of    *)
(* XRCETypes.hpp the types its members are declared with (X_members) and,  *)
(* from XRCETypes.cpp, the order in which X::serialize writes them and     *)
(* X::deserialize reads them, and the size X::getCdrSerializedSize counts. *)
(* The class itself - constructors, copies and accessors - is a record     *)
(* with those members.                                                     *)
(*                                                                         *)
(* A member keeps its name without the m_ of the source; what a class      *)
(* inherits is its member "base".  Where the Client calls the same member  *)
(* otherwise, this module's name is used on both sides.                    *)
(***************************************************************************)
EXTENDS AgentConstants, TLC

-----------------------------------------------------------------------------
Time_t_members == [seconds |-> UInt(4), nanoseconds |-> UInt(4)]
Time_t == Struct(Time_t_members, <<"seconds", "nanoseconds">>)

TransportAddressSmall_members == [address |-> Octets(2), port |-> UInt(1)]
TransportAddressSmall == Struct(TransportAddressSmall_members, <<"address", "port">>)

TransportAddressMedium_members == [address |-> Octets(4), port |-> UInt(2)]
TransportAddressMedium == Struct(TransportAddressMedium_members, <<"address", "port">>)

TransportAddressLarge_members == [address |-> Octets(16), port |-> UInt(4)]
TransportAddressLarge == Struct(TransportAddressLarge_members, <<"address", "port">>)

TransportAddressString_members == [value |-> String(Unlimited)]
TransportAddressString == Struct(TransportAddressString_members, <<"value">>)

TransportAddress_members ==
    [small_locator |-> TransportAddressSmall, medium_locator |-> TransportAddressMedium,
     large_locator |-> TransportAddressLarge, string_locator |-> TransportAddressString]
TransportAddress_cases ==
    Case(ADDRESS_FORMAT_SMALL, "small_locator") @@
    Case(ADDRESS_FORMAT_MEDIUM, "medium_locator") @@
    Case(ADDRESS_FORMAT_LARGE, "large_locator") @@
    Case(ADDRESS_FORMAT_STRING, "string_locator")
TransportAddress == Union(1, TransportAddress_members, TransportAddress_cases)

Property_members == [name |-> String(Unlimited), value |-> String(Unlimited)]
Property == Struct(Property_members, <<"name", "value">>)

PropertySeq == SeqOf(Property, Unlimited)

CLIENT_Representation_members ==
    [xrce_cookie |-> XrceCookie, xrce_version |-> XrceVersion, xrce_vendor_id |-> XrceVendorId,
     client_key |-> ClientKey, session_id |-> UInt(1), properties |-> Opt(PropertySeq),
     mtu |-> UInt(2)]
CLIENT_Representation ==
    Struct(CLIENT_Representation_members, <<"xrce_cookie", "xrce_version", "xrce_vendor_id",
                                            "client_key", "session_id", "properties", "mtu">>)

AGENT_Representation_members ==
    [xrce_cookie |-> XrceCookie, xrce_version |-> XrceVersion, xrce_vendor_id |-> XrceVendorId,
     properties |-> Opt(PropertySeq)]
AGENT_Representation ==
    Struct(AGENT_Representation_members, <<"xrce_cookie", "xrce_version", "xrce_vendor_id",
                                           "properties">>)

OBJK_Representation3Formats_members ==
    [object_reference |-> String(Unlimited), xml_string_representation |-> String(Unlimited),
     binary_representation |-> SeqOf(UInt(1), Unlimited)]
OBJK_Representation3Formats_cases ==
    Case(REPRESENTATION_BY_REFERENCE, "object_reference") @@
    Case(REPRESENTATION_AS_XML_STRING, "xml_string_representation") @@
    Case(REPRESENTATION_IN_BINARY, "binary_representation")
OBJK_Representation3Formats ==
    Union(1, OBJK_Representation3Formats_members,
          OBJK_Representation3Formats_cases)

OBJK_RepresentationRefAndXMLFormats_members ==
    [object_reference |-> String(Unlimited), string_representation |-> String(Unlimited)]
OBJK_RepresentationRefAndXMLFormats_cases ==
    Case(REPRESENTATION_BY_REFERENCE, "object_reference") @@
    Case(REPRESENTATION_AS_XML_STRING, "string_representation")
OBJK_RepresentationRefAndXMLFormats ==
    Union(1, OBJK_RepresentationRefAndXMLFormats_members,
          OBJK_RepresentationRefAndXMLFormats_cases)

OBJK_RepresentationBinAndXMLFormats_members ==
    [binary_representation |-> SeqOf(UInt(1), Unlimited),
     string_representation |-> String(Unlimited)]
OBJK_RepresentationBinAndXMLFormats_cases ==
    Case(REPRESENTATION_IN_BINARY, "binary_representation") @@
    Case(REPRESENTATION_AS_XML_STRING, "string_representation")
OBJK_RepresentationBinAndXMLFormats ==
    Union(1, OBJK_RepresentationBinAndXMLFormats_members,
          OBJK_RepresentationBinAndXMLFormats_cases)

OBJK_RepresentationRefAndXML_Base_members ==
    [representation |-> OBJK_RepresentationRefAndXMLFormats]
OBJK_RepresentationRefAndXML_Base ==
    Struct(OBJK_RepresentationRefAndXML_Base_members, <<"representation">>)

OBJK_RepresentationBinAndXML_Base_members ==
    [representation |-> OBJK_RepresentationBinAndXMLFormats]
OBJK_RepresentationBinAndXML_Base ==
    Struct(OBJK_RepresentationBinAndXML_Base_members, <<"representation">>)

OBJK_Representation3_Base_members == [representation |-> OBJK_Representation3Formats]
OBJK_Representation3_Base == Struct(OBJK_Representation3_Base_members, <<"representation">>)

OBJK_QOSPROFILE_Representation_members == [base |-> OBJK_RepresentationRefAndXML_Base]
OBJK_QOSPROFILE_Representation == Struct(OBJK_QOSPROFILE_Representation_members, <<"base">>)

OBJK_TYPE_Representation_members == [base |-> OBJK_RepresentationRefAndXML_Base]
OBJK_TYPE_Representation == Struct(OBJK_TYPE_Representation_members, <<"base">>)

OBJK_DOMAIN_Representation_members == [base |-> OBJK_RepresentationRefAndXML_Base]
OBJK_DOMAIN_Representation == Struct(OBJK_DOMAIN_Representation_members, <<"base">>)

OBJK_APPLICATION_Representation_members == [base |-> OBJK_RepresentationRefAndXML_Base]
OBJK_APPLICATION_Representation == Struct(OBJK_APPLICATION_Representation_members, <<"base">>)

OBJK_PARTICIPANT_Representation_members ==
    [base |-> OBJK_Representation3_Base, domain_id |-> UInt(2)]
OBJK_PARTICIPANT_Representation ==
    Struct(OBJK_PARTICIPANT_Representation_members, <<"base", "domain_id">>)

OBJK_TOPIC_Representation_members ==
    [base |-> OBJK_Representation3_Base, participant_id |-> ObjectId]
OBJK_TOPIC_Representation ==
    Struct(OBJK_TOPIC_Representation_members, <<"base", "participant_id">>)

OBJK_PUBLISHER_Representation_members ==
    [base |-> OBJK_RepresentationBinAndXML_Base, participant_id |-> ObjectId]
OBJK_PUBLISHER_Representation ==
    Struct(OBJK_PUBLISHER_Representation_members, <<"base", "participant_id">>)

OBJK_SUBSCRIBER_Representation_members ==
    [base |-> OBJK_RepresentationBinAndXML_Base, participant_id |-> ObjectId]
OBJK_SUBSCRIBER_Representation ==
    Struct(OBJK_SUBSCRIBER_Representation_members, <<"base", "participant_id">>)

DATAWRITER_Representation_members ==
    [base |-> OBJK_Representation3_Base, publisher_id |-> ObjectId]
DATAWRITER_Representation ==
    Struct(DATAWRITER_Representation_members, <<"base", "publisher_id">>)

DATAREADER_Representation_members ==
    [base |-> OBJK_Representation3_Base, subscriber_id |-> ObjectId]
DATAREADER_Representation ==
    Struct(DATAREADER_Representation_members, <<"base", "subscriber_id">>)

REQUESTER_Representation_members ==
    [base |-> OBJK_Representation3_Base, participant_id |-> ObjectId]
REQUESTER_Representation ==
    Struct(REQUESTER_Representation_members, <<"base", "participant_id">>)

REPLIER_Representation_members ==
    [base |-> OBJK_Representation3_Base, participant_id |-> ObjectId]
REPLIER_Representation == Struct(REPLIER_Representation_members, <<"base", "participant_id">>)

OBJK_DomainParticipant_Binary_members ==
    [domain_id |-> UInt(4), domain_referente |-> String(Unlimited),
     qos_profile |-> String(Unlimited)]
OBJK_DomainParticipant_Binary ==
    Struct(OBJK_DomainParticipant_Binary_members, <<"domain_id", "domain_referente",
                                                    "qos_profile">>)

OBJK_Topic_Binary_members ==
    [topic_name |-> String(Unlimited), type_name |-> String(Unlimited),
     type_identifier |-> String(Unlimited)]
OBJK_Topic_Binary ==
    Struct(OBJK_Topic_Binary_members, <<"topic_name", "type_name", "type_identifier">>)

OBJK_PUBLISHER_QosBinary_members ==
    [partitions |-> SeqOf(String(Unlimited), Unlimited),
     group_data |-> SeqOf(String(Unlimited), Unlimited)]
OBJK_PUBLISHER_QosBinary ==
    Struct(OBJK_PUBLISHER_QosBinary_members, <<"partitions", "group_data">>)

OBJK_Publisher_Binary_members ==
    [publisher_name |-> String(Unlimited), qos |-> OBJK_PUBLISHER_QosBinary]
OBJK_Publisher_Binary == Struct(OBJK_Publisher_Binary_members, <<"publisher_name", "qos">>)

OBJK_SUBSCRIBER_QosBinary_members ==
    [partitions |-> SeqOf(String(Unlimited), Unlimited),
     group_data |-> SeqOf(UInt(1), Unlimited)]
OBJK_SUBSCRIBER_QosBinary ==
    Struct(OBJK_SUBSCRIBER_QosBinary_members, <<"partitions", "group_data">>)

OBJK_Subscriber_Binary_members ==
    [subscriber_name |-> String(Unlimited), qos |-> OBJK_SUBSCRIBER_QosBinary]
OBJK_Subscriber_Binary == Struct(OBJK_Subscriber_Binary_members, <<"subscriber_name", "qos">>)

OBJK_Endpoint_QosBinary_members ==
    [qos_flags |-> UInt(2), history_depth |-> UInt(2), deadline_msec |-> UInt(4),
     lifespan_msec |-> UInt(4), user_data |-> SeqOf(UInt(1), Unlimited)]
OBJK_Endpoint_QosBinary ==
    Struct(OBJK_Endpoint_QosBinary_members, <<"qos_flags", "history_depth", "deadline_msec",
                                              "lifespan_msec", "user_data">>)

OBJK_DataReader_Binary_members ==
    [topic_name |-> String(Unlimited), endpoint_qos |-> OBJK_Endpoint_QosBinary,
     timebasedfilter_msec |-> UInt(4), contentbased_filter |-> String(Unlimited)]
OBJK_DataReader_Binary ==
    Struct(OBJK_DataReader_Binary_members, <<"topic_name", "endpoint_qos",
                                             "timebasedfilter_msec", "contentbased_filter">>)

OBJK_DataWriter_Binary_members ==
    [topic_name |-> String(Unlimited), endpoint_qos |-> OBJK_Endpoint_QosBinary,
     ownership_strength |-> UInt(4)]
OBJK_DataWriter_Binary ==
    Struct(OBJK_DataWriter_Binary_members, <<"topic_name", "endpoint_qos",
                                             "ownership_strength">>)

ObjectVariant_members ==
    [agent |-> AGENT_Representation, client |-> CLIENT_Representation,
     application |-> OBJK_APPLICATION_Representation,
     participant |-> OBJK_PARTICIPANT_Representation,
     qos_profile |-> OBJK_QOSPROFILE_Representation, type |-> OBJK_TYPE_Representation,
     topic |-> OBJK_TOPIC_Representation, publisher |-> OBJK_PUBLISHER_Representation,
     subscriber |-> OBJK_SUBSCRIBER_Representation, data_writer |-> DATAWRITER_Representation,
     data_reader |-> DATAREADER_Representation, requester |-> REQUESTER_Representation,
     replier |-> REPLIER_Representation]
ObjectVariant_cases ==
    Case(OBJK_AGENT, "agent") @@ Case(OBJK_CLIENT, "client") @@
    Case(OBJK_APPLICATION, "application") @@ Case(OBJK_PARTICIPANT, "participant") @@
    Case(OBJK_QOSPROFILE, "qos_profile") @@ Case(OBJK_TYPE, "type") @@
    Case(OBJK_TOPIC, "topic") @@ Case(OBJK_PUBLISHER, "publisher") @@
    Case(OBJK_SUBSCRIBER, "subscriber") @@ Case(OBJK_DATAWRITER, "data_writer") @@
    Case(OBJK_DATAREADER, "data_reader") @@ Case(OBJK_REQUESTER, "requester") @@
    Case(OBJK_REPLIER, "replier")
ObjectVariant == Union(1, ObjectVariant_members, ObjectVariant_cases)

CreationMode_members == [reuse |-> UInt(1), replace |-> UInt(1)]
CreationMode == Struct(CreationMode_members, <<"reuse", "replace">>)

ResultStatus_members == [status |-> UInt(1), implementation_status |-> UInt(1)]
ResultStatus == Struct(ResultStatus_members, <<"status", "implementation_status">>)

TransportAddressSeq == SeqOf(TransportAddress, Unlimited)

AGENT_ActivityInfo_members == [availability |-> UInt(2), address_seq |-> TransportAddressSeq]
AGENT_ActivityInfo == Struct(AGENT_ActivityInfo_members, <<"availability", "address_seq">>)

DATAREADER_ActivityInfo_members == [highest_acked_num |-> UInt(2)]
DATAREADER_ActivityInfo == Struct(DATAREADER_ActivityInfo_members, <<"highest_acked_num">>)

DATAWRITER_ActivityInfo_members == [stream_seq_num |-> UInt(2), sample_seq_num |-> UInt(8)]
DATAWRITER_ActivityInfo ==
    Struct(DATAWRITER_ActivityInfo_members, <<"stream_seq_num", "sample_seq_num">>)

ActivityInfoVariant_members ==
    [agent |-> AGENT_ActivityInfo, data_writer |-> DATAWRITER_ActivityInfo,
     data_reader |-> DATAREADER_ActivityInfo]
ActivityInfoVariant_cases ==
    Case(OBJK_AGENT, "agent") @@ Case(OBJK_DATAWRITER, "data_writer") @@
    Case(OBJK_DATAREADER, "data_reader")
ActivityInfoVariant == Union(1, ActivityInfoVariant_members, ActivityInfoVariant_cases)

ObjectInfo_members == [config |-> Opt(ObjectVariant), activity |-> Opt(ActivityInfoVariant)]
ObjectInfo == Struct(ObjectInfo_members, <<"config", "activity">>)

BaseObjectRequest_members == [request_id |-> RequestId, object_id |-> ObjectId]
BaseObjectRequest == Struct(BaseObjectRequest_members, <<"request_id", "object_id">>)

BaseObjectReply_members == [related_request |-> BaseObjectRequest, result |-> ResultStatus]
BaseObjectReply == Struct(BaseObjectReply_members, <<"related_request", "result">>)

DataDeliveryControl_members ==
    [max_samples |-> UInt(2), max_elapsed_time |-> UInt(2), max_bytes_per_second |-> UInt(2),
     min_pace_period |-> UInt(2)]
DataDeliveryControl ==
    Struct(DataDeliveryControl_members, <<"max_samples", "max_elapsed_time",
                                          "max_bytes_per_second", "min_pace_period">>)

ReadSpecification_members ==
    [preferred_stream_id |-> UInt(1), data_format |-> UInt(1),
     content_filter_expression |-> Opt(String(Unlimited)),
     delivery_control |-> Opt(DataDeliveryControl)]
ReadSpecification ==
    Struct(ReadSpecification_members, <<"preferred_stream_id", "data_format",
                                        "content_filter_expression", "delivery_control">>)

SampleInfo_members ==
    [state |-> UInt(1), sequence_number |-> UInt(4), session_time_offset |-> UInt(4)]
SampleInfo == Struct(SampleInfo_members, <<"state", "sequence_number", "session_time_offset">>)

SampleInfoDelta_members ==
    [state |-> UInt(1), seq_number_delta |-> UInt(1), timestamp_delta |-> UInt(2)]
SampleInfoDelta ==
    Struct(SampleInfoDelta_members, <<"state", "seq_number_delta", "timestamp_delta">>)

SampleData(n) == Raw(n)

Sample_members == [info |-> SampleInfo, data |-> SampleData(0)]
Sample == Struct(Sample_members, <<"info", "data">>)

SampleDelta_members == [info_delta |-> SampleInfoDelta, data |-> SampleData(0)]
SampleDelta == Struct(SampleDelta_members, <<"info_delta", "data">>)

PackedSamples_members ==
    [info_base |-> SampleInfo, sample_delta_seq |-> SeqOf(SampleDelta, Unlimited)]
PackedSamples == Struct(PackedSamples_members, <<"info_base", "sample_delta_seq">>)

SampleDataSeq == SeqOf(SampleData(0), Unlimited)

SampleSeq == SeqOf(Sample, Unlimited)

DataRepresentation_members ==
    [data |-> SampleData(0), sample |-> Sample, data_seq |-> SampleDataSeq,
     sample_seq |-> SampleSeq, packed_samples |-> PackedSamples]
DataRepresentation_cases ==
    Case(FORMAT_DATA, "data") @@ Case(FORMAT_SAMPLE, "sample") @@
    Case(FORMAT_DATA_SEQ, "data_seq") @@ Case(FORMAT_SAMPLE_SEQ, "sample_seq") @@
    Case(FORMAT_PACKED_SAMPLES, "packed_samples")
DataRepresentation == Union(1, DataRepresentation_members, DataRepresentation_cases)

CREATE_CLIENT_Payload_members == [client_representation |-> CLIENT_Representation]
CREATE_CLIENT_Payload == Struct(CREATE_CLIENT_Payload_members, <<"client_representation">>)

CREATE_Payload_members == [base |-> BaseObjectRequest, object_representation |-> ObjectVariant]
CREATE_Payload == Struct(CREATE_Payload_members, <<"base", "object_representation">>)

GET_INFO_Payload_members == [base |-> BaseObjectRequest, info_mask |-> UInt(4)]
GET_INFO_Payload == Struct(GET_INFO_Payload_members, <<"base", "info_mask">>)

DELETE_Payload_members == [base |-> BaseObjectRequest]
DELETE_Payload == Struct(DELETE_Payload_members, <<"base">>)

STATUS_AGENT_Payload_members == [result |-> ResultStatus, agent_info |-> AGENT_Representation]
STATUS_AGENT_Payload == Struct(STATUS_AGENT_Payload_members, <<"result", "agent_info">>)

STATUS_Payload_members == [base |-> BaseObjectReply]
STATUS_Payload == Struct(STATUS_Payload_members, <<"base">>)

INFO_Payload_members == [base |-> BaseObjectReply, object_info |-> ObjectInfo]
INFO_Payload == Struct(INFO_Payload_members, <<"base", "object_info">>)

READ_DATA_Payload_members ==
    [base |-> BaseObjectRequest, read_specification |-> ReadSpecification]
READ_DATA_Payload == Struct(READ_DATA_Payload_members, <<"base", "read_specification">>)

WRITE_DATA_Payload_Data_members(n) == [base |-> BaseObjectRequest, data |-> SampleData(n)]
WRITE_DATA_Payload_Data(n) == Struct(WRITE_DATA_Payload_Data_members(n), <<"base", "data">>)

WRITE_DATA_Payload_Sample_members == [base |-> BaseObjectRequest, sample |-> Sample]
WRITE_DATA_Payload_Sample == Struct(WRITE_DATA_Payload_Sample_members, <<"base", "sample">>)

WRITE_DATA_Payload_DataSeq_members ==
    [base |-> BaseObjectRequest, data_seq |-> SeqOf(SampleData(0), Unlimited)]
WRITE_DATA_Payload_DataSeq == Struct(WRITE_DATA_Payload_DataSeq_members, <<"base", "data_seq">>)

WRITE_DATA_Payload_SampleSeq_members ==
    [base |-> BaseObjectRequest, sample_seq |-> SeqOf(Sample, Unlimited)]
WRITE_DATA_Payload_SampleSeq ==
    Struct(WRITE_DATA_Payload_SampleSeq_members, <<"base", "sample_seq">>)

WRITE_DATA_Payload_PackedSamples_members ==
    [base |-> BaseObjectRequest, packed_samples |-> PackedSamples]
WRITE_DATA_Payload_PackedSamples ==
    Struct(WRITE_DATA_Payload_PackedSamples_members, <<"base", "packed_samples">>)

DATA_Payload_Data_members(n) == [base |-> BaseObjectRequest, data |-> SampleData(n)]
DATA_Payload_Data(n) == Struct(DATA_Payload_Data_members(n), <<"base", "data">>)

DATA_Payload_Sample_members == [base |-> BaseObjectRequest, sample |-> Sample]
DATA_Payload_Sample == Struct(DATA_Payload_Sample_members, <<"base", "sample">>)

DATA_Payload_DataSeq_members ==
    [base |-> BaseObjectRequest, data_seq |-> SeqOf(SampleData(0), Unlimited)]
DATA_Payload_DataSeq == Struct(DATA_Payload_DataSeq_members, <<"base", "data_seq">>)

DATA_Payload_SampleSeq_members ==
    [base |-> BaseObjectRequest, sample_seq |-> SeqOf(Sample, Unlimited)]
DATA_Payload_SampleSeq == Struct(DATA_Payload_SampleSeq_members, <<"base", "sample_seq">>)

DATA_Payload_PackedSamples_members ==
    [base |-> BaseObjectRequest, packed_samples |-> PackedSamples]
DATA_Payload_PackedSamples ==
    Struct(DATA_Payload_PackedSamples_members, <<"base", "packed_samples">>)

ACKNACK_Payload_members ==
    [first_unacked_seq_num |-> UInt(2), nack_bitmap |-> Octets(2), stream_id |-> UInt(1)]
BugACKNACK_Payload ==
    Struct(ACKNACK_Payload_members, <<"first_unacked_seq_num", "stream_id", "nack_bitmap">>)
ACKNACK_Payload ==
    Struct(ACKNACK_Payload_members, <<"first_unacked_seq_num", "nack_bitmap", "stream_id">>)

HEARTBEAT_Payload_members ==
    [first_unacked_seq_nr |-> UInt(2), last_unacked_seq_nr |-> UInt(2), stream_id |-> UInt(1)]
HEARTBEAT_Payload ==
    Struct(HEARTBEAT_Payload_members, <<"first_unacked_seq_nr", "last_unacked_seq_nr",
                                        "stream_id">>)

TIMESTAMP_Payload_members == [transmit_timestamp |-> Time_t]
TIMESTAMP_Payload == Struct(TIMESTAMP_Payload_members, <<"transmit_timestamp">>)

TIMESTAMP_REPLY_Payload_members ==
    [transmit_timestamp |-> Time_t, receive_timestamp |-> Time_t,
     originate_timestamp |-> Time_t]
TIMESTAMP_REPLY_Payload ==
    Struct(TIMESTAMP_REPLY_Payload_members, <<"transmit_timestamp", "receive_timestamp",
                                              "originate_timestamp">>)

EntityId_t_members == [entityKey |-> Octets(3), entityKind |-> UInt(1)]
EntityId_t == Struct(EntityId_t_members, <<"entityKey", "entityKind">>)

GUID_t_members == [guidPrefix |-> GuidPrefix_t, entityId |-> EntityId_t]
GUID_t == Struct(GUID_t_members, <<"guidPrefix", "entityId">>)

SequenceNumber_t_members == [high |-> UInt(4), low |-> UInt(4)]
SequenceNumber_t == Struct(SequenceNumber_t_members, <<"high", "low">>)

SampleIdentity_members == [writer_guid |-> GUID_t, sequence_number |-> SequenceNumber_t]
SampleIdentity == Struct(SampleIdentity_members, <<"writer_guid", "sequence_number">>)

-----------------------------------------------------------------------------
(* What the Agent believes a value takes: the getCdrSerializedSize of each *)
(* class.  It decides the length field of a submessage and the size of the *)
(* buffer its message is written in, and it is code of its own beside      *)
(* serialize: where the two count differently, the layout of what is       *)
(* counted is given here.                                                  *)

RECURSIVE After(_, _, _), AfterCase(_, _, _), AfterMembers(_, _, _, _), AfterEach(_, _, _)

(* The position after the value v of layout L counted from the position at.*)
After(L, v, at) ==
    CASE L.kind = "octets"   -> at + L.size
      [] L.kind = "raw"      -> at + Len(v)
      [] L.kind = "uint"     -> at + Align(at, L.width) + L.width
      [] L.kind = "string"   -> at + Align(at, 4) + 4 + Len(v) + 1
      [] L.kind = "seq"      -> AfterEach(L.of, v, at + Align(at, 4) + 4)
      [] L.kind = "elements" -> AfterEach(L.of, v, at)
      [] L.kind = "opt"      -> IF v = <<>> THEN at + 1 ELSE After(L.of, v[1], at + 1)
      [] L.kind = "struct"   -> AfterMembers(L.members, L.order, v, at)
      [] L.kind = "union"    -> AfterCase(L, v, at + Align(at, L.width) + L.width)

AfterCase(L, v, at) ==
    IF v[1] \in DOMAIN L.cases THEN After(L.members[L.cases[v[1]]], v[2], at) ELSE at

AfterMembers(members, order, v, at) ==
    IF order = <<>> THEN at
    ELSE AfterMembers(members, Tail(order), v, After(members[Head(order)], v[Head(order)], at))

AfterEach(of, vs, at) ==
    IF vs = <<>> THEN at ELSE AfterEach(of, Tail(vs), After(of, Head(vs), at))

(* X::getCdrSerializedSize(current_alignment). *)
BugSizeAt(L, v, at) == After(L, v, at)
SizeAt(L, v, at) == After(L, v, at) - at
Size(L, v) == SizeAt(L, v, 0)

-----------------------------------------------------------------------------
(* What is counted differently from what is written.                       *)

(* No number of properties, and an mtu that needs no alignment. *)
CLIENT_Representation_counted ==
    Struct([CLIENT_Representation_members EXCEPT
                !.properties = Opt(Elements(Property)), !.mtu = Octets(2)],
           CLIENT_Representation.order)

(* No number of properties. *)
AGENT_Representation_counted ==
    Struct([AGENT_Representation_members EXCEPT
                !.properties = Opt(Elements(Property))],
           AGENT_Representation.order)

(* Two octets of a key that has three. *)
EntityId_t_counted ==
    Struct([EntityId_t_members EXCEPT !.entityKey = Octets(2)], EntityId_t.order)

(* The types that contain one of these. *)
GUID_t_counted ==
    Struct([GUID_t_members EXCEPT !.entityId = EntityId_t_counted], GUID_t.order)
SampleIdentity_counted ==
    Struct([SampleIdentity_members EXCEPT !.writer_guid = GUID_t_counted],
           SampleIdentity.order)
ObjectVariant_counted ==
    Union(1, [ObjectVariant_members EXCEPT
                !.agent = AGENT_Representation_counted,
                !.client = CLIENT_Representation_counted],
          ObjectVariant_cases)
ObjectInfo_counted ==
    Struct([ObjectInfo_members EXCEPT !.config = Opt(ObjectVariant_counted)],
           ObjectInfo.order)
CREATE_CLIENT_Payload_counted ==
    Struct([CREATE_CLIENT_Payload_members EXCEPT
                !.client_representation = CLIENT_Representation_counted],
           CREATE_CLIENT_Payload.order)
CREATE_Payload_counted ==
    Struct([CREATE_Payload_members EXCEPT !.object_representation =
                ObjectVariant_counted],
           CREATE_Payload.order)
STATUS_AGENT_Payload_counted ==
    Struct([STATUS_AGENT_Payload_members EXCEPT !.agent_info =
                AGENT_Representation_counted],
           STATUS_AGENT_Payload.order)
INFO_Payload_counted ==
    Struct([INFO_Payload_members EXCEPT !.object_info = ObjectInfo_counted],
           INFO_Payload.order)

(* The layouts counted for these types; every other type is counted as it  *)
(* is written.                                                             *)
CountedOtherwise ==
    [CLIENT_Representation |-> CLIENT_Representation_counted,
     AGENT_Representation  |-> AGENT_Representation_counted,
     EntityId_t            |-> EntityId_t_counted,
     GUID_t                |-> GUID_t_counted,
     SampleIdentity        |-> SampleIdentity_counted,
     ObjectVariant         |-> ObjectVariant_counted,
     ObjectInfo            |-> ObjectInfo_counted,
     CREATE_CLIENT_Payload |-> CREATE_CLIENT_Payload_counted,
     CREATE_Payload        |-> CREATE_Payload_counted,
     STATUS_AGENT_Payload  |-> STATUS_AGENT_Payload_counted,
     INFO_Payload          |-> INFO_Payload_counted]

=============================================================================
