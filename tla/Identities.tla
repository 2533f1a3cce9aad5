----------------------------- MODULE Identities -----------------------------
(* Who takes part in a session, and where. *)
EXTENDS Naturals

CONSTANTS
    Keys,           \* client keys, in the order of std::map
    Endpoints,      \* addresses of the transport
    SessionIds,
    Keyed           \* those below 128: their messages carry the client's key

ASSUME KeysAssumption == Keys \subseteq Nat \ {0}   \* 0 is CLIENTKEY_INVALID

ASSUME SessionIdsAssumption == Keyed \subseteq SessionIds
=============================================================================
