---------------------------- MODULE ClientTypes -----------------------------
(***************************************************************************)
(* How the Client lays out the types of the protocol: the structures of    *)
(* xrce_types.h (X_members) with the capacities that bound what it reads,  *)
(* and the order in which uxr_serialize_X of xrce_types.c writes them and  *)
(* uxr_deserialize_X reads them.                                           *)
(*                                                                         *)
(* Members have the names AgentTypes gives them.  A flag optional_x and    *)
(* its member x are one optional member.                                   *)
(***************************************************************************)
EXTENDS ClientConstants, TLC

-----------------------------------------------------------------------------
Time_t_members == [seconds |-> UInt(4), nanoseconds |-> UInt(4)]
Time_t == Struct(Time_t_members, <<"seconds", "nanoseconds">>)

BinarySequence_t == SeqOf(UInt(1), UXR_BINARY_SEQUENCE_MAX)

StringSequence_t == SeqOf(String(UXR_STRING_SIZE_MAX), UXR_STRING_SEQUENCE_MAX)

ClientKey == Octets(4)

ObjectId == Octets(2)

ObjectPrefix == Octets(2)

XrceCookie == Octets(4)

XrceVersion == Octets(2)

XrceVendorId == Octets(2)

TransportLocatorSmall_members == [address |-> Octets(2), port |-> UInt(1)]
TransportLocatorSmall == Struct(TransportLocatorSmall_members, <<"address", "port">>)

TransportLocatorMedium_members == [address |-> Octets(4), port |-> UInt(2)]
TransportLocatorMedium == Struct(TransportLocatorMedium_members, <<"address", "port">>)

TransportLocatorLarge_members == [address |-> Octets(16), port |-> UInt(4)]
TransportLocatorLarge == Struct(TransportLocatorLarge_members, <<"address", "port">>)

TransportLocatorString_members == [value |-> String(UXR_STRING_SIZE_MAX)]
TransportLocatorString == Struct(TransportLocatorString_members, <<"value">>)

TransportLocator_members ==
    [small_locator |-> TransportLocatorSmall, medium_locator |-> TransportLocatorMedium,
     large_locator |-> TransportLocatorLarge, string_locator |-> TransportLocatorString]
TransportLocator ==
    Union(1, TransportLocator_members,
        Case(ADDRESS_FORMAT_SMALL, "small_locator") @@
        Case(ADDRESS_FORMAT_MEDIUM, "medium_locator") @@
        Case(ADDRESS_FORMAT_LARGE, "large_locator") @@
        Case(ADDRESS_FORMAT_STRING, "string_locator"))

TransportLocatorSeq == SeqOf(TransportLocator, UXR_TRANSPORT_LOCATOR_SEQUENCE_MAX)

Property_members ==
    [name |-> String(UXR_STRING_SIZE_MAX), value |-> String(UXR_STRING_SIZE_MAX)]
Property == Struct(Property_members, <<"name", "value">>)

PropertySeq == SeqOf(Property, UXR_PROPERTY_SEQUENCE_MAX)

CLIENT_Representation_members ==
    [xrce_cookie |-> XrceCookie, xrce_version |-> XrceVersion, xrce_vendor_id |-> XrceVendorId,
     client_key |-> ClientKey, session_id |-> UInt(1), properties |-> Opt(PropertySeq),
     mtu |-> UInt(2)]
CLIENT_Representation ==
    Struct(CLIENT_Representation_members, <<"xrce_cookie", "xrce_version", "xrce_vendor_id",
                                            "client_key", "session_id", "properties", "mtu">>)

AGENT_Representation_members ==
    [xrce_cookie |-> XrceCookie, xrce_version |-> XrceVersion, xrce_vendor_id |-> XrceVendorId,
     properties |-> Flagged(PropertySeq)]
AGENT_Representation ==
    Struct(AGENT_Representation_members, <<"xrce_cookie", "xrce_version", "xrce_vendor_id",
                                           "properties">>)

OBJK_Representation3Formats_members ==
    [object_reference |-> String(UXR_STRING_SIZE_MAX),
     xml_string_representation |-> String(UXR_STRING_SIZE_MAX),
     binary_representation |-> BinarySequence_t]
OBJK_Representation3Formats ==
    Union(1, OBJK_Representation3Formats_members,
        Case(DDS_XRCE_REPRESENTATION_BY_REFERENCE, "object_reference") @@
        Case(DDS_XRCE_REPRESENTATION_AS_XML_STRING, "xml_string_representation") @@
        Case(DDS_XRCE_REPRESENTATION_IN_BINARY, "binary_representation"))

OBJK_RepresentationRefAndXMLFormats_members ==
    [object_reference |-> String(UXR_STRING_SIZE_MAX),
     string_representation |-> String(UXR_STRING_SIZE_MAX)]
OBJK_RepresentationRefAndXMLFormats ==
    Union(1, OBJK_RepresentationRefAndXMLFormats_members,
        Case(DDS_XRCE_REPRESENTATION_BY_REFERENCE, "object_reference") @@
        Case(DDS_XRCE_REPRESENTATION_AS_XML_STRING, "string_representation"))

OBJK_RepresentationBinAndXMLFormats_members ==
    [binary_representation |-> BinarySequence_t,
     string_representation |-> String(UXR_STRING_SIZE_MAX)]
OBJK_RepresentationBinAndXMLFormats ==
    Union(1, OBJK_RepresentationBinAndXMLFormats_members,
        Case(DDS_XRCE_REPRESENTATION_IN_BINARY, "binary_representation") @@
        Case(DDS_XRCE_REPRESENTATION_AS_XML_STRING, "string_representation"))

OBJK_RepresentationRefAndXML_Base_members ==
    [representation |-> OBJK_RepresentationRefAndXMLFormats]
OBJK_RepresentationRefAndXML_Base ==
    Struct(OBJK_RepresentationRefAndXML_Base_members, <<"representation">>)

OBJK_RepresentationBinAndXML_Base_members ==
    [representation |-> OBJK_RepresentationBinAndXMLFormats]
OBJK_RepresentationBinAndXML_Base ==
    Struct(OBJK_RepresentationBinAndXML_Base_members, <<"representation">>)

OBJK_Representation3_Base_members == [representation |-> OBJK_Representation3Formats]
OBJK_Representation3_Base == Struct(OBJK_Representation3_Base_members, <<"representation">>)

OBJK_QOSPROFILE_Representation_members == [base |-> OBJK_RepresentationRefAndXML_Base]
OBJK_QOSPROFILE_Representation == Struct(OBJK_QOSPROFILE_Representation_members, <<"base">>)

OBJK_TYPE_Representation_members == [base |-> OBJK_RepresentationRefAndXML_Base]
OBJK_TYPE_Representation == Struct(OBJK_TYPE_Representation_members, <<"base">>)

OBJK_DOMAIN_Representation_members == [base |-> OBJK_RepresentationRefAndXML_Base]
OBJK_DOMAIN_Representation == Struct(OBJK_DOMAIN_Representation_members, <<"base">>)

OBJK_APPLICATION_Representation_members == [base |-> OBJK_RepresentationRefAndXML_Base]
OBJK_APPLICATION_Representation == Struct(OBJK_APPLICATION_Representation_members, <<"base">>)

OBJK_PUBLISHER_Representation_members ==
    [base |-> OBJK_RepresentationBinAndXML_Base, participant_id |-> ObjectId]
OBJK_PUBLISHER_Representation ==
    Struct(OBJK_PUBLISHER_Representation_members, <<"base", "participant_id">>)

OBJK_SUBSCRIBER_Representation_members ==
    [base |-> OBJK_RepresentationBinAndXML_Base, participant_id |-> ObjectId]
OBJK_SUBSCRIBER_Representation ==
    Struct(OBJK_SUBSCRIBER_Representation_members, <<"base", "participant_id">>)

DATAWRITER_Representation_members ==
    [base |-> OBJK_Representation3_Base, publisher_id |-> ObjectId]
DATAWRITER_Representation ==
    Struct(DATAWRITER_Representation_members, <<"base", "publisher_id">>)

DATAREADER_Representation_members ==
    [base |-> OBJK_Representation3_Base, subscriber_id |-> ObjectId]
DATAREADER_Representation ==
    Struct(DATAREADER_Representation_members, <<"base", "subscriber_id">>)

OBJK_PARTICIPANT_Representation_members ==
    [base |-> OBJK_Representation3_Base, domain_id |-> UInt(2)]
OBJK_PARTICIPANT_Representation ==
    Struct(OBJK_PARTICIPANT_Representation_members, <<"base", "domain_id">>)

OBJK_TOPIC_Representation_members ==
    [base |-> OBJK_Representation3_Base, participant_id |-> ObjectId]
OBJK_TOPIC_Representation ==
    Struct(OBJK_TOPIC_Representation_members, <<"base", "participant_id">>)

OBJK_REQUESTER_Representation_members ==
    [base |-> OBJK_Representation3_Base, participant_id |-> ObjectId]
OBJK_REQUESTER_Representation ==
    Struct(OBJK_REQUESTER_Representation_members, <<"base", "participant_id">>)

OBJK_REPLIER_Representation_members ==
    [base |-> OBJK_Representation3_Base, participant_id |-> ObjectId]
OBJK_REPLIER_Representation ==
    Struct(OBJK_REPLIER_Representation_members, <<"base", "participant_id">>)

OBJK_DomainParticipant_Binary_members ==
    [domain_reference |-> Opt(String(UXR_STRING_SIZE_MAX)),
     qos_profile_reference |-> Opt(String(UXR_STRING_SIZE_MAX))]
OBJK_DomainParticipant_Binary ==
    Struct(OBJK_DomainParticipant_Binary_members, <<"domain_reference",
                                                    "qos_profile_reference">>)

OBJK_Topic_Binary_members ==
    [topic_name |-> String(UXR_STRING_SIZE_MAX),
     type_reference |-> Opt(String(UXR_STRING_SIZE_MAX)),
     type_name |-> Opt(String(UXR_STRING_SIZE_MAX))]
OBJK_Topic_Binary ==
    Struct(OBJK_Topic_Binary_members, <<"topic_name", "type_reference", "type_name">>)

OBJK_Publisher_Binary_Qos_members ==
    [partitions |-> Opt(StringSequence_t), group_data |-> Opt(BinarySequence_t)]
OBJK_Publisher_Binary_Qos ==
    Struct(OBJK_Publisher_Binary_Qos_members, <<"partitions", "group_data">>)

OBJK_Publisher_Binary_members ==
    [publisher_name |-> Opt(String(UXR_STRING_SIZE_MAX)),
     qos |-> Opt(OBJK_Publisher_Binary_Qos)]
OBJK_Publisher_Binary == Struct(OBJK_Publisher_Binary_members, <<"publisher_name", "qos">>)

OBJK_Subscriber_Binary_Qos_members ==
    [partitions |-> Opt(StringSequence_t), group_data |-> Opt(BinarySequence_t)]
OBJK_Subscriber_Binary_Qos ==
    Struct(OBJK_Subscriber_Binary_Qos_members, <<"partitions", "group_data">>)

OBJK_Subscriber_Binary_members ==
    [subscriber_name |-> Opt(String(UXR_STRING_SIZE_MAX)),
     qos |-> Opt(OBJK_Subscriber_Binary_Qos)]
OBJK_Subscriber_Binary == Struct(OBJK_Subscriber_Binary_members, <<"subscriber_name", "qos">>)

OBJK_Endpoint_QosBinary_members ==
    [qos_flags |-> UInt(2), history_depth |-> Opt(UInt(2)), deadline_msec |-> Opt(UInt(4)),
     lifespan_msec |-> Opt(UInt(4)), user_data |-> Opt(BinarySequence_t)]
OBJK_Endpoint_QosBinary ==
    Struct(OBJK_Endpoint_QosBinary_members, <<"qos_flags", "history_depth", "deadline_msec",
                                              "lifespan_msec", "user_data">>)

OBJK_DataWriter_Binary_Qos_members ==
    [base |-> OBJK_Endpoint_QosBinary, ownership_strength |-> Opt(UInt(8))]
OBJK_DataWriter_Binary_Qos ==
    Struct(OBJK_DataWriter_Binary_Qos_members, <<"base", "ownership_strength">>)

OBJK_DataReader_Binary_Qos_members ==
    [base |-> OBJK_Endpoint_QosBinary, timebasedfilter_msec |-> Opt(UInt(8)),
     contentbased_filter |-> Opt(String(UXR_STRING_SIZE_MAX))]
OBJK_DataReader_Binary_Qos ==
    Struct(OBJK_DataReader_Binary_Qos_members, <<"base", "timebasedfilter_msec",
                                                 "contentbased_filter">>)

OBJK_DataReader_Binary_members ==
    [topic_name |-> String(UXR_STRING_SIZE_MAX), qos |-> Opt(OBJK_DataReader_Binary_Qos)]
OBJK_DataReader_Binary == Struct(OBJK_DataReader_Binary_members, <<"topic_name", "qos">>)

OBJK_DataWriter_Binary_members ==
    [topic_name |-> String(UXR_STRING_SIZE_MAX), qos |-> Opt(OBJK_DataWriter_Binary_Qos)]
OBJK_DataWriter_Binary == Struct(OBJK_DataWriter_Binary_members, <<"topic_name", "qos">>)

ObjectVariant_members ==
    [agent |-> AGENT_Representation, client |-> CLIENT_Representation,
     application |-> OBJK_APPLICATION_Representation,
     participant |-> OBJK_PARTICIPANT_Representation,
     qos_profile |-> OBJK_QOSPROFILE_Representation, type |-> OBJK_TYPE_Representation,
     topic |-> OBJK_TOPIC_Representation, publisher |-> OBJK_PUBLISHER_Representation,
     subscriber |-> OBJK_SUBSCRIBER_Representation, data_writer |-> DATAWRITER_Representation,
     data_reader |-> DATAREADER_Representation, requester |-> OBJK_REQUESTER_Representation,
     replier |-> OBJK_REPLIER_Representation]
ObjectVariant ==
    Union(1, ObjectVariant_members,
        Case(DDS_XRCE_OBJK_AGENT, "agent") @@ Case(DDS_XRCE_OBJK_CLIENT, "client") @@
        Case(DDS_XRCE_OBJK_APPLICATION, "application") @@
        Case(DDS_XRCE_OBJK_PARTICIPANT, "participant") @@
        Case(DDS_XRCE_OBJK_QOSPROFILE, "qos_profile") @@ Case(DDS_XRCE_OBJK_TYPE, "type") @@
        Case(DDS_XRCE_OBJK_TOPIC, "topic") @@ Case(DDS_XRCE_OBJK_PUBLISHER, "publisher") @@
        Case(DDS_XRCE_OBJK_SUBSCRIBER, "subscriber") @@
        Case(DDS_XRCE_OBJK_DATAWRITER, "data_writer") @@
        Case(DDS_XRCE_OBJK_DATAREADER, "data_reader") @@
        Case(DDS_XRCE_OBJK_REQUESTER, "requester") @@ Case(DDS_XRCE_OBJK_REPLIER, "replier"))

CreationMode_members == [reuse |-> UInt(1), replace |-> UInt(1)]
CreationMode == Struct(CreationMode_members, <<"reuse", "replace">>)

RequestId == Octets(2)

ResultStatus_members == [status |-> UInt(1), implementation_status |-> UInt(1)]
ResultStatus == Struct(ResultStatus_members, <<"status", "implementation_status">>)

BaseObjectRequest_members == [request_id |-> RequestId, object_id |-> ObjectId]
BaseObjectRequest == Struct(BaseObjectRequest_members, <<"request_id", "object_id">>)

AGENT_ActivityInfo_members == [availability |-> UInt(2), address_seq |-> TransportLocatorSeq]
AGENT_ActivityInfo == Struct(AGENT_ActivityInfo_members, <<"availability", "address_seq">>)

DATAREADER_ActivityInfo_members == [highest_acked_num |-> UInt(2)]
DATAREADER_ActivityInfo == Struct(DATAREADER_ActivityInfo_members, <<"highest_acked_num">>)

DATAWRITER_ActivityInfo_members == [stream_seq_num |-> UInt(2), sample_seq_num |-> UInt(8)]
DATAWRITER_ActivityInfo ==
    Struct(DATAWRITER_ActivityInfo_members, <<"stream_seq_num", "sample_seq_num">>)

ActivityInfoVariant_members ==
    [agent |-> AGENT_ActivityInfo, data_writer |-> DATAWRITER_ActivityInfo,
     data_reader |-> DATAREADER_ActivityInfo]
ActivityInfoVariant ==
    Union(1, ActivityInfoVariant_members,
        Case(DDS_XRCE_OBJK_AGENT, "agent") @@ Case(DDS_XRCE_OBJK_DATAWRITER, "data_writer") @@
        Case(DDS_XRCE_OBJK_DATAREADER, "data_reader"))

ObjectInfo_members == [config |-> Opt(ObjectVariant), activity |-> Opt(ActivityInfoVariant)]
ObjectInfo == Struct(ObjectInfo_members, <<"config", "activity">>)

BaseObjectReply_members == [related_request |-> BaseObjectRequest, result |-> ResultStatus]
BaseObjectReply == Struct(BaseObjectReply_members, <<"related_request", "result">>)

DataDeliveryControl_members ==
    [max_samples |-> UInt(2), max_elapsed_time |-> UInt(2), max_bytes_per_second |-> UInt(2),
     min_pace_period |-> UInt(2)]
DataDeliveryControl ==
    Struct(DataDeliveryControl_members, <<"max_samples", "max_elapsed_time",
                                          "max_bytes_per_second", "min_pace_period">>)

ReadSpecification_members ==
    [preferred_stream_id |-> UInt(1), data_format |-> UInt(1),
     content_filter_expression |-> Opt(String(UXR_STRING_SIZE_MAX)),
     delivery_control |-> Opt(DataDeliveryControl)]
ReadSpecification ==
    Struct(ReadSpecification_members, <<"preferred_stream_id", "data_format",
                                        "content_filter_expression", "delivery_control">>)

SeqNumberAndTimestamp_members == [sequence_number |-> UInt(4), session_time_offset |-> UInt(4)]
SeqNumberAndTimestamp ==
    Struct(SeqNumberAndTimestamp_members, <<"sequence_number", "session_time_offset">>)

SampleInfoDetail_members ==
    [sequence_number |-> UInt(4), session_time_offset |-> UInt(4),
     seqnum_n_timestamp |-> SeqNumberAndTimestamp]
SampleInfoDetail ==
    Union(4, SampleInfoDetail_members,
        Case(FORMAT_EMPTY, "sequence_number") @@ Case(FORMAT_SEQNUM, "session_time_offset") @@
        Case(FORMAT_TIMESTAMP, "seqnum_n_timestamp"))

SampleInfo_members == [state |-> UInt(1), detail |-> SampleInfoDetail]
SampleInfo == Struct(SampleInfo_members, <<"state", "detail">>)

SampleInfoDelta_members ==
    [state |-> UInt(1), seq_number_delta |-> UInt(1), timestamp_delta |-> UInt(2)]
SampleInfoDelta ==
    Struct(SampleInfoDelta_members, <<"state", "seq_number_delta", "timestamp_delta">>)

SampleData == SeqOf(UInt(1), UXR_SAMPLE_DATA_SIZE_MAX)

SampleDataSeq == SeqOf(SampleData, UXR_SAMPLE_DATA_SEQUENCE_MAX)

Sample_members == [info |-> SampleInfo, data |-> SampleData]
Sample == Struct(Sample_members, <<"info", "data">>)

SampleSeq == SeqOf(Sample, UXR_SAMPLE_SEQUENCE_MAX)

SampleDelta_members == [info_delta |-> SampleInfoDelta, data |-> SampleData]
SampleDelta == Struct(SampleDelta_members, <<"info_delta", "data">>)

SampleDeltaSequence == SeqOf(SampleDelta, UXR_SAMPLE_DELTA_SEQUENCE_MAX)

PackedSamples_members == [info_base |-> SampleInfo, sample_delta_seq |-> SampleDeltaSequence]
PackedSamples == Struct(PackedSamples_members, <<"info_base", "sample_delta_seq">>)

SamplePackedSeq == SeqOf(PackedSamples, UXR_PACKED_SAMPLES_SEQUENCE_MAX)

DataRepresentation_members ==
    [data |-> SampleData, sample |-> Sample, data_seq |-> SampleDataSeq,
     sample_seq |-> SampleSeq, packed_samples |-> PackedSamples]
DataRepresentation ==
    Union(1, DataRepresentation_members,
        Case(FORMAT_DATA, "data") @@ Case(FORMAT_SAMPLE, "sample") @@
        Case(FORMAT_DATA_SEQ, "data_seq") @@ Case(FORMAT_SAMPLE_SEQ, "sample_seq") @@
        Case(FORMAT_PACKED_SAMPLES, "packed_samples"))

CREATE_CLIENT_Payload_members == [client_representation |-> CLIENT_Representation]
CREATE_CLIENT_Payload == Struct(CREATE_CLIENT_Payload_members, <<"client_representation">>)

CREATE_Payload_members == [base |-> BaseObjectRequest, object_representation |-> ObjectVariant]
CREATE_Payload == Struct(CREATE_Payload_members, <<"base", "object_representation">>)

GET_INFO_Payload_members == [base |-> BaseObjectRequest, info_mask |-> UInt(4)]
GET_INFO_Payload == Struct(GET_INFO_Payload_members, <<"base", "info_mask">>)

DELETE_Payload_members == [base |-> BaseObjectRequest]
DELETE_Payload == Struct(DELETE_Payload_members, <<"base">>)

STATUS_AGENT_Payload_members == [result |-> ResultStatus, agent_info |-> AGENT_Representation]
STATUS_AGENT_Payload == Struct(STATUS_AGENT_Payload_members, <<"result", "agent_info">>)

STATUS_Payload_members == [base |-> BaseObjectReply]
STATUS_Payload == Struct(STATUS_Payload_members, <<"base">>)

INFO_Payload_members == [base |-> BaseObjectReply, object_info |-> ObjectInfo]
INFO_Payload == Struct(INFO_Payload_members, <<"base", "object_info">>)

READ_DATA_Payload_members ==
    [base |-> BaseObjectRequest, read_specification |-> ReadSpecification]
READ_DATA_Payload == Struct(READ_DATA_Payload_members, <<"base", "read_specification">>)

WRITE_DATA_Payload_Data_members == [base |-> BaseObjectRequest]
WRITE_DATA_Payload_Data == Struct(WRITE_DATA_Payload_Data_members, <<"base">>)

WRITE_DATA_Payload_Sample_members == [base |-> BaseObjectRequest, sample |-> Sample]
WRITE_DATA_Payload_Sample == Struct(WRITE_DATA_Payload_Sample_members, <<"base", "sample">>)

WRITE_DATA_Payload_DataSeq_members == [base |-> BaseObjectRequest, data_seq |-> SampleDataSeq]
WRITE_DATA_Payload_DataSeq == Struct(WRITE_DATA_Payload_DataSeq_members, <<"base", "data_seq">>)

WRITE_DATA_Payload_SampleSeq_members == [base |-> BaseObjectRequest, sample_seq |-> SampleSeq]
WRITE_DATA_Payload_SampleSeq ==
    Struct(WRITE_DATA_Payload_SampleSeq_members, <<"base", "sample_seq">>)

WRITE_DATA_Payload_PackedSamples_members ==
    [base |-> BaseObjectRequest, packed_samples |-> PackedSamples]
WRITE_DATA_Payload_PackedSamples ==
    Struct(WRITE_DATA_Payload_PackedSamples_members, <<"base", "packed_samples">>)

DATA_Payload_Data_members == [base |-> BaseObjectRequest]
DATA_Payload_Data == Struct(DATA_Payload_Data_members, <<"base">>)

DATA_Payload_Sample_members == [base |-> BaseObjectRequest, sample |-> Sample]
DATA_Payload_Sample == Struct(DATA_Payload_Sample_members, <<"base", "sample">>)

DATA_Payload_DataSeq_members == [base |-> BaseObjectRequest, data_seq |-> SampleDataSeq]
DATA_Payload_DataSeq == Struct(DATA_Payload_DataSeq_members, <<"base", "data_seq">>)

DATA_Payload_SampleSeq_members == [base |-> BaseObjectRequest, sample_seq |-> SampleSeq]
DATA_Payload_SampleSeq == Struct(DATA_Payload_SampleSeq_members, <<"base", "sample_seq">>)

DATA_Payload_PackedSamples_members ==
    [base |-> BaseObjectRequest, packed_samples |-> PackedSamples]
DATA_Payload_PackedSamples ==
    Struct(DATA_Payload_PackedSamples_members, <<"base", "packed_samples">>)

ACKNACK_Payload_members ==
    [first_unacked_seq_num |-> UInt(2), nack_bitmap |-> Octets(2), stream_id |-> UInt(1)]
ACKNACK_Payload ==
    Struct(ACKNACK_Payload_members, <<"first_unacked_seq_num", "nack_bitmap", "stream_id">>)

HEARTBEAT_Payload_members ==
    [first_unacked_seq_nr |-> UInt(2), last_unacked_seq_nr |-> UInt(2), stream_id |-> UInt(1)]
HEARTBEAT_Payload ==
    Struct(HEARTBEAT_Payload_members, <<"first_unacked_seq_nr", "last_unacked_seq_nr",
                                        "stream_id">>)

TIMESTAMP_Payload_members == [transmit_timestamp |-> Time_t]
TIMESTAMP_Payload == Struct(TIMESTAMP_Payload_members, <<"transmit_timestamp">>)

TIMESTAMP_REPLY_Payload_members ==
    [transmit_timestamp |-> Time_t, receive_timestamp |-> Time_t,
     originate_timestamp |-> Time_t]
TIMESTAMP_REPLY_Payload ==
    Struct(TIMESTAMP_REPLY_Payload_members, <<"transmit_timestamp", "receive_timestamp",
                                              "originate_timestamp">>)

GuidPrefix_t == Octets(12)

EntityId_t_members == [entityKey |-> Octets(3), entityKind |-> UInt(1)]
EntityId_t == Struct(EntityId_t_members, <<"entityKey", "entityKind">>)

GUID_t_members == [guidPrefix |-> GuidPrefix_t, entityId |-> EntityId_t]
GUID_t == Struct(GUID_t_members, <<"guidPrefix", "entityId">>)

SequenceNumber_t_members == [high |-> UInt(4), low |-> UInt(4)]
SequenceNumber_t == Struct(SequenceNumber_t_members, <<"high", "low">>)

SampleIdentity_members == [writer_guid |-> GUID_t, sequence_number |-> SequenceNumber_t]
SampleIdentity == Struct(SampleIdentity_members, <<"writer_guid", "sequence_number">>)

=============================================================================
