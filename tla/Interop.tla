------------------------------ MODULE Interop -------------------------------
(***************************************************************************)
(* One value of a protocol type crosses from one side to the other: the    *)
(* writer lays it out behind what is already in its buffer, the reader     *)
(* takes it from the same place.  The two sides have their serializers     *)
(* from different generators (XRCETypes.cpp and xrce_types.c), and nothing *)
(* but the octets connects them.                                           *)
(*                                                                         *)
(* Shared lists the types both sides have, under the Agent's name.  Not in *)
(* it, for the two sides lay them out differently and no submessage of the *)
(* Client carries them: the binary representations of the entities, and    *)
(* every type with a SampleInfo or a SampleData in it.  The octets of a    *)
(* sample are no type of the Client; Wire has them.                        *)
(***************************************************************************)
EXTENDS Cdr, FiniteSets

CONSTANTS
    Seeds,      \* the numbers the values are made from
    Offsets,    \* how many octets the buffer holds before the value
    Miscounted  \* the types whose size functions are known to be wrong

Client == INSTANCE ClientTypes
Agent == INSTANCE AgentTypes

Sides(client, agent) == [client |-> client, agent |-> agent]

Shared ==
    [ClientKey |-> Sides(Client!ClientKey, Agent!ClientKey),
     ObjectId |-> Sides(Client!ObjectId, Agent!ObjectId),
     XrceCookie |-> Sides(Client!XrceCookie, Agent!XrceCookie),
     XrceVersion |-> Sides(Client!XrceVersion, Agent!XrceVersion),
     XrceVendorId |-> Sides(Client!XrceVendorId, Agent!XrceVendorId),
     RequestId |-> Sides(Client!RequestId, Agent!RequestId),
     GuidPrefix_t |-> Sides(Client!GuidPrefix_t, Agent!GuidPrefix_t),
     Time_t |-> Sides(Client!Time_t, Agent!Time_t),
     TransportAddressSmall |->
        Sides(Client!TransportLocatorSmall, Agent!TransportAddressSmall),
     TransportAddressMedium |->
        Sides(Client!TransportLocatorMedium, Agent!TransportAddressMedium),
     TransportAddressLarge |->
        Sides(Client!TransportLocatorLarge, Agent!TransportAddressLarge),
     TransportAddressString |->
        Sides(Client!TransportLocatorString, Agent!TransportAddressString),
     TransportAddress |-> Sides(Client!TransportLocator, Agent!TransportAddress),
     Property |-> Sides(Client!Property, Agent!Property),
     PropertySeq |-> Sides(Client!PropertySeq, Agent!PropertySeq),
     CLIENT_Representation |->
        Sides(Client!CLIENT_Representation, Agent!CLIENT_Representation),
     AGENT_Representation |-> Sides(Client!AGENT_Representation, Agent!AGENT_Representation),
     OBJK_Representation3Formats |->
        Sides(Client!OBJK_Representation3Formats, Agent!OBJK_Representation3Formats),
     OBJK_RepresentationRefAndXMLFormats |->
        Sides(Client!OBJK_RepresentationRefAndXMLFormats,
              Agent!OBJK_RepresentationRefAndXMLFormats),
     OBJK_RepresentationBinAndXMLFormats |->
        Sides(Client!OBJK_RepresentationBinAndXMLFormats,
              Agent!OBJK_RepresentationBinAndXMLFormats),
     OBJK_RepresentationRefAndXML_Base |->
        Sides(Client!OBJK_RepresentationRefAndXML_Base,
              Agent!OBJK_RepresentationRefAndXML_Base),
     OBJK_RepresentationBinAndXML_Base |->
        Sides(Client!OBJK_RepresentationBinAndXML_Base,
              Agent!OBJK_RepresentationBinAndXML_Base),
     OBJK_Representation3_Base |->
        Sides(Client!OBJK_Representation3_Base, Agent!OBJK_Representation3_Base),
     OBJK_QOSPROFILE_Representation |->
        Sides(Client!OBJK_QOSPROFILE_Representation, Agent!OBJK_QOSPROFILE_Representation),
     OBJK_TYPE_Representation |->
        Sides(Client!OBJK_TYPE_Representation, Agent!OBJK_TYPE_Representation),
     OBJK_DOMAIN_Representation |->
        Sides(Client!OBJK_DOMAIN_Representation, Agent!OBJK_DOMAIN_Representation),
     OBJK_APPLICATION_Representation |->
        Sides(Client!OBJK_APPLICATION_Representation, Agent!OBJK_APPLICATION_Representation),
     OBJK_PARTICIPANT_Representation |->
        Sides(Client!OBJK_PARTICIPANT_Representation, Agent!OBJK_PARTICIPANT_Representation),
     OBJK_TOPIC_Representation |->
        Sides(Client!OBJK_TOPIC_Representation, Agent!OBJK_TOPIC_Representation),
     OBJK_PUBLISHER_Representation |->
        Sides(Client!OBJK_PUBLISHER_Representation, Agent!OBJK_PUBLISHER_Representation),
     OBJK_SUBSCRIBER_Representation |->
        Sides(Client!OBJK_SUBSCRIBER_Representation, Agent!OBJK_SUBSCRIBER_Representation),
     DATAWRITER_Representation |->
        Sides(Client!DATAWRITER_Representation, Agent!DATAWRITER_Representation),
     DATAREADER_Representation |->
        Sides(Client!DATAREADER_Representation, Agent!DATAREADER_Representation),
     REQUESTER_Representation |->
        Sides(Client!OBJK_REQUESTER_Representation, Agent!REQUESTER_Representation),
     REPLIER_Representation |->
        Sides(Client!OBJK_REPLIER_Representation, Agent!REPLIER_Representation),
     ObjectVariant |-> Sides(Client!ObjectVariant, Agent!ObjectVariant),
     CreationMode |-> Sides(Client!CreationMode, Agent!CreationMode),
     ResultStatus |-> Sides(Client!ResultStatus, Agent!ResultStatus),
     TransportAddressSeq |-> Sides(Client!TransportLocatorSeq, Agent!TransportAddressSeq),
     AGENT_ActivityInfo |-> Sides(Client!AGENT_ActivityInfo, Agent!AGENT_ActivityInfo),
     DATAREADER_ActivityInfo |->
        Sides(Client!DATAREADER_ActivityInfo, Agent!DATAREADER_ActivityInfo),
     DATAWRITER_ActivityInfo |->
        Sides(Client!DATAWRITER_ActivityInfo, Agent!DATAWRITER_ActivityInfo),
     ActivityInfoVariant |-> Sides(Client!ActivityInfoVariant, Agent!ActivityInfoVariant),
     ObjectInfo |-> Sides(Client!ObjectInfo, Agent!ObjectInfo),
     BaseObjectRequest |-> Sides(Client!BaseObjectRequest, Agent!BaseObjectRequest),
     BaseObjectReply |-> Sides(Client!BaseObjectReply, Agent!BaseObjectReply),
     DataDeliveryControl |-> Sides(Client!DataDeliveryControl, Agent!DataDeliveryControl),
     ReadSpecification |-> Sides(Client!ReadSpecification, Agent!ReadSpecification),
     SampleInfoDelta |-> Sides(Client!SampleInfoDelta, Agent!SampleInfoDelta),
     CREATE_CLIENT_Payload |->
        Sides(Client!CREATE_CLIENT_Payload, Agent!CREATE_CLIENT_Payload),
     CREATE_Payload |-> Sides(Client!CREATE_Payload, Agent!CREATE_Payload),
     GET_INFO_Payload |-> Sides(Client!GET_INFO_Payload, Agent!GET_INFO_Payload),
     DELETE_Payload |-> Sides(Client!DELETE_Payload, Agent!DELETE_Payload),
     STATUS_AGENT_Payload |-> Sides(Client!STATUS_AGENT_Payload, Agent!STATUS_AGENT_Payload),
     STATUS_Payload |-> Sides(Client!STATUS_Payload, Agent!STATUS_Payload),
     INFO_Payload |-> Sides(Client!INFO_Payload, Agent!INFO_Payload),
     READ_DATA_Payload |-> Sides(Client!READ_DATA_Payload, Agent!READ_DATA_Payload),
     ACKNACK_Payload |-> Sides(Client!ACKNACK_Payload, Agent!ACKNACK_Payload),
     HEARTBEAT_Payload |-> Sides(Client!HEARTBEAT_Payload, Agent!HEARTBEAT_Payload),
     TIMESTAMP_Payload |-> Sides(Client!TIMESTAMP_Payload, Agent!TIMESTAMP_Payload),
     TIMESTAMP_REPLY_Payload |->
        Sides(Client!TIMESTAMP_REPLY_Payload, Agent!TIMESTAMP_REPLY_Payload),
     EntityId_t |-> Sides(Client!EntityId_t, Agent!EntityId_t),
     GUID_t |-> Sides(Client!GUID_t, Agent!GUID_t),
     SequenceNumber_t |-> Sides(Client!SequenceNumber_t, Agent!SequenceNumber_t),
     SampleIdentity |-> Sides(Client!SampleIdentity, Agent!SampleIdentity)]

InteropAssumption ==
    Miscounted \subseteq DOMAIN Shared /\ Seeds \subseteq Nat /\ Offsets \subseteq Nat

-----------------------------------------------------------------------------
(* The value number k of a layout: k selects the cases, the optionals and  *)
(* the lengths, and the salt s makes the numbers in it differ.  Nobody     *)
(* fills in the member the Client does not read.                           *)
RECURSIVE ValueOf(_, _, _)
ValueOf(L, k, s) ==
    LET octets(n) == [i \in 1..n |-> 1 + ((s + 5 * k + i) % 200)]
    IN  CASE L.kind \in {"octets", "raw"} -> octets(L.size)
          [] L.kind = "uint" ->
                IF L.width = 1 THEN octets(1)[1] ELSE 256 * octets(2)[1] + octets(2)[2]
          [] L.kind = "string" -> octets(k % 6)
          [] L.kind = "seq" -> [i \in 1..(k % 6) |-> ValueOf(L.of, k \div 6 + i, 3 * s + i)]
          [] L.kind = "flagged" -> <<>>
          [] L.kind = "opt" ->
                IF k % 2 = 0 THEN <<>> ELSE <<ValueOf(L.of, k \div 2, s + 1)>>
          [] L.kind = "struct" ->
                [x \in {L.order[i] : i \in DOMAIN L.order} |->
                    LET i == CHOOSE j \in DOMAIN L.order : L.order[j] = x
                    IN  ValueOf(L.members[x], k \div i, 7 * s + i)]
          [] L.kind = "union" ->
                LET n == Cardinality(DOMAIN L.cases)
                    d == CHOOSE x \in DOMAIN L.cases :
                            Cardinality({y \in DOMAIN L.cases : y < x}) = k % n
                IN  <<d, ValueOf(L.members[L.cases[d]], k \div n, s + 2)>>

(* The value is within what a reader of the layout has room for.           *)
RECURSIVE Fits(_, _)
Fits(L, v) ==
    CASE L.kind = "string" -> Len(v) + 1 <= L.max
      [] L.kind = "seq"    -> Len(v) <= L.max /\ \A i \in DOMAIN v : Fits(L.of, v[i])
      [] L.kind = "opt"    -> v = <<>> \/ Fits(L.of, v[1])
      [] L.kind = "struct" -> \A x \in DOMAIN v : Fits(L.members[x], v[x])
      [] L.kind = "union"  -> Fits(L.members[L.cases[v[1]]], v[2])
      [] OTHER             -> TRUE

-----------------------------------------------------------------------------
VARIABLES type, writer, seed, offset, buffer, counted, got, phase
vars == <<type, writer, seed, offset, buffer, counted, got, phase>>

Nothing == [ok |-> FALSE, at |-> 0, v |-> <<>>]
Reader == IF writer = "client" THEN "agent" ELSE "client"
value == ValueOf(Shared[type].client, seed, seed)

Init ==
    /\ type \in DOMAIN Shared
    /\ writer \in {"client", "agent"}
    /\ seed \in Seeds
    /\ offset \in Offsets
    /\ buffer = Padding(offset)
    /\ counted = 0
    /\ got = Nothing
    /\ phase = "write"

(* X::getCdrSerializedSize. *)
CountedLayout ==
    IF type \in DOMAIN Agent!CountedOtherwise
    THEN Agent!CountedOtherwise[type]
    ELSE Shared[type].agent

(* X::serialize, or uxr_serialize_X.  Only the Agent asks for the size first. *)
Serialize ==
    /\ phase = "write"
    /\ buffer' = Put(Shared[type][writer], value, buffer)
    /\ counted' = IF writer = "agent" THEN Agent!SizeAt(CountedLayout, value, offset) ELSE 0
    /\ phase' = "read"
    /\ UNCHANGED <<type, writer, seed, offset, got>>

(* X::deserialize, or uxr_deserialize_X. *)
Deserialize ==
    /\ phase = "read"
    /\ got' = Get(Shared[type][Reader], buffer, offset)
    /\ phase' = "done"
    /\ UNCHANGED <<type, writer, seed, offset, buffer, counted>>

Next == Serialize \/ Deserialize
Spec == Init /\ [][Next]_vars

-----------------------------------------------------------------------------
(* What one side writes the other reads as the same value, up to the same  *)
(* octet, unless it has no room for it; then the read fails and no part of *)
(* the value is taken.                                                     *)
SidesAgree ==
    phase = "done" =>
        IF Fits(Shared[type][Reader], value)
        THEN got = [ok |-> TRUE, at |-> Len(buffer), v |-> value]
        ELSE ~got.ok

(* The size the Agent counts for a value is the number of octets it then   *)
(* writes: no submessage is announced longer or shorter than it is, and no *)
(* message is cut because its buffer was too small.                        *)
SizesTrue ==
    (phase # "write" /\ writer = "agent" /\ type \notin Miscounted) => counted = Len(buffer) - offset

=============================================================================
