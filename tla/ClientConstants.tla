-------------------------- MODULE ClientConstants ---------------------------
(***************************************************************************)
(* The constants of xrce_types.h: the capacities of the structures the     *)
(* Client reads into, and the discriminators of the unions.                *)
(***************************************************************************)
EXTENDS Cdr

UXR_STRING_SIZE_MAX == 512
UXR_SAMPLE_DATA_SIZE_MAX == 512
UXR_STRING_SEQUENCE_MAX == 8
UXR_BINARY_SEQUENCE_MAX == 8
UXR_SAMPLE_SEQUENCE_MAX == 8
UXR_SAMPLE_DATA_SEQUENCE_MAX == 8
UXR_SAMPLE_DELTA_SEQUENCE_MAX == 8
UXR_PACKED_SAMPLES_SEQUENCE_MAX == 8
UXR_TRANSPORT_LOCATOR_SEQUENCE_MAX == 4
UXR_PROPERTY_SEQUENCE_MAX == 1

DDS_XRCE_OBJK_PARTICIPANT == 1
DDS_XRCE_OBJK_TOPIC == 2
DDS_XRCE_OBJK_PUBLISHER == 3
DDS_XRCE_OBJK_SUBSCRIBER == 4
DDS_XRCE_OBJK_DATAWRITER == 5
DDS_XRCE_OBJK_DATAREADER == 6
DDS_XRCE_OBJK_REQUESTER == 7
DDS_XRCE_OBJK_REPLIER == 8
DDS_XRCE_OBJK_TYPE == 10
DDS_XRCE_OBJK_QOSPROFILE == 11
DDS_XRCE_OBJK_APPLICATION == 12
DDS_XRCE_OBJK_AGENT == 13
DDS_XRCE_OBJK_CLIENT == 14

DDS_XRCE_REPRESENTATION_BY_REFERENCE == 1
DDS_XRCE_REPRESENTATION_AS_XML_STRING == 2
DDS_XRCE_REPRESENTATION_IN_BINARY == 3

ADDRESS_FORMAT_SMALL == 0
ADDRESS_FORMAT_MEDIUM == 1
ADDRESS_FORMAT_LARGE == 2
ADDRESS_FORMAT_STRING == 3

FORMAT_DATA == 0
FORMAT_SAMPLE == 2
FORMAT_DATA_SEQ == 8
FORMAT_SAMPLE_SEQ == 10
FORMAT_PACKED_SAMPLES == 14

FORMAT_EMPTY == 0
FORMAT_SEQNUM == 1
FORMAT_TIMESTAMP == 2
=============================================================================
