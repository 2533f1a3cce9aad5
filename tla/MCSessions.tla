----------------------------- MODULE MCSessions -----------------------------
(***************************************************************************)
(* A small instance of Sessions and, beside it, one of ClientRequests: the *)
(* sessions of some Clients, or the requests within one of them.  A        *)
(* behaviour is of the one that part names, and the other stays as it is.  *)
(***************************************************************************)
EXTENDS Sessions, TLC

CONSTANTS
    Parts,                                      \* what the run checks
    e1, e2, v1, v2,
    Reserved, MaxId, MaxList, Unread, NoCall    \* of ClientRequests

VARIABLES part, last_request_id, undecided, answers, accepted, call, returned

requestVars == <<last_request_id, undecided, answers, accepted, call, returned>>

Requests == INSTANCE ClientRequests WITH InFlight <- Unread, open <- undecided

ASSUME ListsAssumption == Requests!RequestsAssumption

MCKeys == {1, 2}
\* One of the programs may be of another version.
MCVersions == [k \in MCKeys |-> IF k = 1 THEN {v1} ELSE {v1, v2}]
MCEndpoints == {e1, e2}
MCSymmetry == Permutations(MCEndpoints)

BothInit == part \in Parts /\ Init /\ Requests!Init

LoginsNext == part = "logins" /\ Next /\ UNCHANGED <<part, requestVars>>

RequestsNext == part = "requests" /\ Requests!Next /\ UNCHANGED <<part, vars>>

BothNext == LoginsNext \/ RequestsNext

BothSpec == BothInit /\ [][BothNext]_<<part, vars, requestVars>>

\* ClientRequests: the call for all statuses returns true only if the Agent
\* accepted every request of its list.
TrueIsAccepted == Requests!TrueIsAccepted
=============================================================================
