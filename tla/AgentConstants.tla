--------------------------- MODULE AgentConstants ---------------------------
(***************************************************************************)
(* The constants of XRCETypes.hpp and the types it names that are arrays   *)
(* of octets.                                                              *)
(***************************************************************************)
EXTENDS Cdr

OBJK_PARTICIPANT == 1
OBJK_TOPIC == 2
OBJK_PUBLISHER == 3
OBJK_SUBSCRIBER == 4
OBJK_DATAWRITER == 5
OBJK_DATAREADER == 6
OBJK_REQUESTER == 7
OBJK_REPLIER == 8
OBJK_TYPE == 10
OBJK_QOSPROFILE == 11
OBJK_APPLICATION == 12
OBJK_AGENT == 13
OBJK_CLIENT == 14

REPRESENTATION_BY_REFERENCE == 1
REPRESENTATION_AS_XML_STRING == 2
REPRESENTATION_IN_BINARY == 3
ADDRESS_FORMAT_SMALL == 0
ADDRESS_FORMAT_MEDIUM == 1
ADDRESS_FORMAT_LARGE == 2
ADDRESS_FORMAT_STRING == 3
FORMAT_DATA == 0
FORMAT_SAMPLE == 2
FORMAT_DATA_SEQ == 8
FORMAT_SAMPLE_SEQ == 10
FORMAT_PACKED_SAMPLES == 14

ClientKey == Octets(4)
ObjectId == Octets(2)
XrceCookie == Octets(4)
XrceVersion == Octets(2)
XrceVendorId == Octets(2)
RequestId == Octets(2)
GuidPrefix_t == Octets(12)
=============================================================================
