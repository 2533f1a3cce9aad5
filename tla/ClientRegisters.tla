-------------------------- MODULE ClientRegisters --------------------------
(***************************************************************************)
(* Where the Agent keeps its clients.  Root registers them and has the     *)
(* position of the heartbeat thread's walk over them.  SessionManager, of  *)
(* the transports, knows which client an endpoint belongs to, for the      *)
(* messages that carry no client key, and where a client is, for what the  *)
(* Agent sends by itself.  Each has a mutex that makes its operations one  *)
(* step; nothing locks both.                                               *)
(***************************************************************************)
EXTENDS Identities, Registers, FiniteSetsExt

VARIABLES
    \* Root
    clients,        \* clients_: the session of each client: its id, and which
                    \* of the client's logins made it or last reset it
    current_client, \* current_client_: a key, or End
    \* SessionManager
    endpoint_to_client,
    client_to_endpoint

rootVars == <<clients, current_client>>
sessionVars == <<endpoint_to_client, client_to_endpoint>>

----------------------------------------------------------------------------
(* Root *)

End == 0

RootInit ==
    /\ clients = EmptyMap
    /\ current_client = End

\* The key an iterator reaches from k.
Following(k) ==
    LET later == {j \in DOMAIN clients : j > k}
    IN  IF later = {} THEN End ELSE Min(later)

First == IF clients = EmptyMap THEN End ELSE Min(DOMAIN clients)

\* Mistake: a client that comes back keeps the streams it had.
BugAccepted(k, sid, login) ==
    IF k \in DOMAIN clients THEN clients[k] ELSE [session_id |-> sid, login |-> login]

\* A new ProxyClient (also if the client is known by another session id), or
\* the old one with its session reset.
Accepted(k, sid, login) == [session_id |-> sid, login |-> login]

create_client(k, sid, login) ==
    /\ clients' = Put(clients, k, Accepted(k, sid, login))
    /\ UNCHANGED current_client

\* Mistake: the walk stays at the client that goes.
BugSkip(k) == current_client

\* The walk does not stay at a client that goes.
Skip(k) == IF current_client = k THEN Following(k) ELSE current_client

delete_client(k) ==
    /\ clients' = Erase(clients, k)
    /\ current_client' = Skip(k)

\* The next client of the walk; at its end the walk begins again, next time.
get_next_client ==
    /\ current_client' = IF current_client = End THEN First ELSE Following(current_client)
    /\ UNCHANGED clients

\* reset
reset ==
    /\ clients' = EmptyMap
    /\ current_client' = End

----------------------------------------------------------------------------
(* SessionManager *)

\* Both maps are about the endpoints and clients there are.
SessionsTypeOK ==
    /\ DOMAIN endpoint_to_client \subseteq Endpoints
    /\ \A e \in DOMAIN endpoint_to_client : endpoint_to_client[e] \in Keys
    /\ DOMAIN client_to_endpoint \subseteq Keys
    /\ \A k \in DOMAIN client_to_endpoint : client_to_endpoint[k] \in Endpoints

SessionsInit ==
    /\ endpoint_to_client = EmptyMap
    /\ client_to_endpoint = EmptyMap

HasClient(e) == e \in DOMAIN endpoint_to_client

HasEndpoint(k) == k \in DOMAIN client_to_endpoint

\* Mistake: the client's previous endpoint goes on being its own.
BugForget(k) == endpoint_to_client

\* What remains once a client is no longer where it was.
Forget(k) ==
    IF HasEndpoint(k) THEN Erase(endpoint_to_client, client_to_endpoint[k])
                      ELSE endpoint_to_client

establish_session(e, k, sid) ==
    /\ client_to_endpoint' = Put(client_to_endpoint, k, e)
    /\ endpoint_to_client' = IF sid \in Keyed THEN Forget(k) ELSE Put(Forget(k), e, k)

destroy_session(e) ==
    IF HasClient(e)
    THEN /\ client_to_endpoint' = Erase(client_to_endpoint, endpoint_to_client[e])
         /\ endpoint_to_client' = Erase(endpoint_to_client, e)
    ELSE UNCHANGED sessionVars

----------------------------------------------------------------------------

\* The processor establishes a session only at an endpoint that is free or
\* that already belongs to the client, and so keeps the maps in step.
SessionsNext ==
    \E e \in Endpoints :
        \/ destroy_session(e)
        \/ \E k \in Keys :
              /\ HasClient(e) => endpoint_to_client[e] = k
              /\ \E sid \in SessionIds \ Keyed : establish_session(e, k, sid)

SessionsSpec == SessionsInit /\ [][SessionsNext]_sessionVars

\* The two maps are inverse to each other: a client is answered where its
\* messages come from, and no endpoint belongs to a client that has left it.
MapsInStep ==
    /\ \A e \in DOMAIN endpoint_to_client :
          /\ HasEndpoint(endpoint_to_client[e])
          /\ client_to_endpoint[endpoint_to_client[e]] = e
    /\ \A k \in DOMAIN client_to_endpoint :
          /\ HasClient(client_to_endpoint[k])
          /\ endpoint_to_client[client_to_endpoint[k]] = k
=============================================================================
