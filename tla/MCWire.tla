------------------------------- MODULE MCWire -------------------------------
(***************************************************************************)
(* A small instance of Wire (three requests, two of which may share a      *)
(* message: after the first every submessage starts at a multiple of four  *)
(* again) and, beside it, one of Interop: every type that both sides have, *)
(* with eighty values, at every alignment of its start.  A behaviour is of *)
(* the one that part names, and the other stays as it is.                  *)
(***************************************************************************)
EXTENDS Wire

CONSTANT Parts

VARIABLES part, type, writer, seed, offset, buffer, counted, got, phase

valueVars == <<type, writer, seed, offset, buffer, counted, got, phase>>

(* The sizes of the first three are counted as others than what is written, *)
(* and so are those of the types that contain them.                        *)
Values == INSTANCE Interop WITH
    Seeds <- 0..79,
    Offsets <- {0, 3, 4},
    Miscounted <-
        {"CLIENT_Representation", "EntityId_t", "GUID_t",
         "CREATE_CLIENT_Payload", "ObjectVariant", "CREATE_Payload", "ObjectInfo",
         "INFO_Payload", "SampleIdentity"}

ASSUME Values!InteropAssumption

FirstValue == type = "ClientKey" /\ writer = "client" /\ seed = 0 /\ offset = 0
FirstId == \A other \in SessionIds : id <= other

BothInit ==
    /\ part \in Parts
    /\ Init
    /\ Values!Init
    /\ part = "wire" => FirstValue
    /\ part = "values" => FirstId

WireNext == part = "wire" /\ Next /\ UNCHANGED <<part, valueVars>>

ValuesNext == part = "values" /\ Values!Next /\ UNCHANGED <<part, vars>>

BothNext == WireNext \/ ValuesNext

BothSpec == BothInit /\ [][BothNext]_<<part, vars, valueVars>>

(* Interop: what one side writes the other reads as the same value.        *)
SidesAgree == Values!SidesAgree

(* Interop: the size the Agent counts is what it then writes.              *)
SizesTrue == Values!SizesTrue

KeyOctets == <<11, 12, 13, 14>>
FourTexts == {<<>>, <<21>>, <<21, 22>>, <<21, 22, 23>>}
FourBodies == {<<>>, <<31>>, <<31, 32>>, <<31, 32, 33>>}

(* An address of each format but the largest, and more than the Client has *)
(* room for.                                                               *)
Medium(n) == <<1, [address |-> <<10, 0, 0, n>>, port |-> 2000 + n]>>
AddressLists ==
    {<<>>, <<Medium(1)>>,
     <<<<0, [address |-> <<7, 8>>, port |-> 9]>>, <<3, [value |-> <<65, 66>>]>>>>,
     <<Medium(1), Medium(2), Medium(3), Medium(4), Medium(5)>>}
OnePing == {"ping"}
=============================================================================
