------------------------------ MODULE Sessions ------------------------------
(***************************************************************************)
(* Clients log in to the Agent, log out, crash and come back, also at an   *)
(* endpoint another one had: the Client's sessions, a line per endpoint    *)
(* that loses packets, and the Agent's processing thread and heartbeat     *)
(* thread over Root and SessionManager.                                    *)
(***************************************************************************)
EXTENDS ClientSession, ClientRegisters, Sequences

CONSTANTS
    Version,        \* XRCE_VERSION_MAJOR of the Agent
    InFlight,       \* bound of the model: packets on a line, in each direction
    Outages,        \* bound of the model: restarts and resets of the Agent
    Drained         \* TRUE: what was sent before a login or logout has died out

ASSUME LinesAssumption == InFlight \in Nat /\ Outages \in Nat

VARIABLES
    to_agent, to_client,    \* packets per endpoint, oldest first
    job,                    \* what the processing thread is at
    beat,                   \* the client the heartbeat thread looks after
    outages,                \* how often the Agent lost its clients
    spared                  \* clients whose last login no outage followed

lines == <<to_agent, to_client>>
agent == <<rootVars, sessionVars, job, beat>>

vars == <<session, agent, lines, outages, spared>>

Nothing == [step |-> "wait"]

Nobody == [key |-> End]

TypeOK ==
    /\ ClientTypeOK
    /\ SessionsTypeOK
    /\ \A k \in DOMAIN clients : clients[k].session_id \in SessionIds
    /\ \A e \in Endpoints : Len(to_agent[e]) <= InFlight /\ Len(to_client[e]) <= InFlight
    /\ job.step \in {"wait", "delete other", "destroy other", "create", "establish",
                     "delete", "destroy"}
    /\ beat.key \in Keys \cup {End}

Init ==
    /\ ClientInit
    /\ RootInit
    /\ SessionsInit
    /\ to_agent = [e \in Endpoints |-> <<>>]
    /\ to_client = [e \in Endpoints |-> <<>>]
    /\ job = Nothing
    /\ beat = Nobody
    /\ outages = 0
    /\ spared = {}

\* A packet gets through or not; a full line takes none.
Sent(line, e, m) ==
    {line} \cup IF Len(line[e]) < InFlight THEN {[line EXCEPT ![e] = Append(@, m)]} ELSE {}

----------------------------------------------------------------------------
(* The Clients *)

Place(k) == session[k].endpoint

\* Nothing of or for the client is on its way, nor at its endpoint.
DiedOut(k) ==
    /\ to_agent[Place(k)] = <<>> /\ to_client[Place(k)] = <<>>
    /\ \A e \in Endpoints, i \in 1 .. InFlight :
          i \in DOMAIN to_agent[e] => to_agent[e][i].key # k
    /\ job # Nothing => job.source # Place(k) /\ job.key # k

Send(k) == to_agent' \in Sent(to_agent, Place(k), Request(k)')

StartClient(k, e, sid, v) ==
    /\ Begin(k, e, sid, v)
    /\ UNCHANGED <<agent, lines, outages, spared>>

CrashClient(k) ==
    /\ Crash(k)
    /\ spared' = spared \ {k}
    /\ UNCHANGED <<agent, lines, outages>>

Login(k) ==
    /\ create_session(k)
    /\ Drained => DiedOut(k)
    /\ Send(k)
    /\ spared' = spared \cup {k}
    /\ UNCHANGED <<agent, to_client, outages>>

Logout(k) ==
    /\ delete_session(k)
    /\ Drained => DiedOut(k)
    /\ Send(k)
    /\ UNCHANGED <<agent, to_client, outages, spared>>

Ask(k) ==
    /\ session[k].phase = "open"
    /\ to_agent' \in Sent(to_agent, Place(k), AskMessage(k))
    /\ UNCHANGED <<session, agent, to_client, outages, spared>>

\* The rest of an attempt that brought no status.
NoStatus(k) == (TryAgain(k) /\ Send(k)) \/ (GiveUp(k) /\ UNCHANGED to_agent)

TimeOut(k) ==
    /\ Waits(k)
    /\ NoStatus(k)
    /\ UNCHANGED <<agent, to_client, outages, spared>>

\* The program listens, within an attempt or (open) while it runs the session.
Hear(k) ==
    /\ Running(k)
    /\ to_client[Place(k)] # <<>>
    /\ to_client' = [to_client EXCEPT ![Place(k)] = Tail(@)]
    /\ LET m == Head(to_client[Place(k)])
           status == IF Accepts(k, m) THEN StatusOf(k, m) ELSE "NONE"
       IN  IF ~Waits(k) THEN UNCHANGED <<session, to_agent>>
           ELSE IF status = "NONE" THEN NoStatus(k)
           ELSE Conclude(k, status) /\ UNCHANGED to_agent
    /\ UNCHANGED <<agent, outages, spared>>

----------------------------------------------------------------------------
(* The processing thread *)

\* The client a packet belongs to: by the key it carries, or its endpoint.
ClientOf(m, e) ==
    IF m.session_id \in Keyed THEN m.key ELSE IF HasClient(e) THEN endpoint_to_client[e] ELSE 0

Known(k) == k \in DOMAIN clients

Reply(e, m, type, status) ==
    to_client' \in Sent(to_client, e,
        [type |-> type, key |-> m.key, session_id |-> m.session_id, status |-> status])

At(step, m, e, k) == [step |-> step, source |-> e, key |-> k, packet |-> m]

Go(step) == job' = [job EXCEPT !.step = step]

\* process_input_packet.  A DELETE of a client nobody knows is answered OK.
TakePacket(e) ==
    /\ job = Nothing
    /\ to_agent[e] # <<>>
    /\ to_agent' = [to_agent EXCEPT ![e] = Tail(@)]
    /\ LET m == Head(to_agent[e])
           k == ClientOf(m, e)
       IN  CASE m.type = "CREATE_CLIENT" ->
                    /\ job' = At(IF HasClient(e) /\ endpoint_to_client[e] # m.key
                                 THEN "delete other" ELSE "create", m, e, m.key)
                    /\ UNCHANGED to_client
             [] m.type = "DELETE" /\ Known(k) ->
                    job' = At("delete", m, e, k) /\ UNCHANGED to_client
             [] m.type = "DELETE" /\ ~Known(k) ->
                    UNCHANGED job /\ Reply(e, m, "STATUS", "OK")
             [] m.type = "REQUEST" -> UNCHANGED <<job, to_client>>
    /\ UNCHANGED <<session, rootVars, sessionVars, beat, outages, spared>>

\* process_create_client_submessage: the endpoint was another client's.
DeleteOther ==
    /\ job.step = "delete other"
    /\ LET other == endpoint_to_client[job.source]
       IN  IF Known(other) THEN delete_client(other) ELSE UNCHANGED rootVars
    /\ Go("destroy other")
    /\ UNCHANGED <<session, sessionVars, beat, lines, outages, spared>>

DestroyOther ==
    /\ job.step = "destroy other"
    /\ destroy_session(job.source)
    /\ Go("create")
    /\ UNCHANGED <<session, rootVars, beat, lines, outages, spared>>

CreateClient ==
    /\ job.step = "create"
    /\ IF job.packet.version # Version
       THEN /\ Reply(job.source, job.packet, "STATUS_AGENT", "ERR_INCOMPATIBLE")
            /\ job' = Nothing
            /\ UNCHANGED rootVars
       ELSE /\ create_client(job.key, job.packet.session_id, job.packet.login)
            /\ Go("establish")
            /\ UNCHANGED to_client
    /\ UNCHANGED <<session, sessionVars, beat, to_agent, outages, spared>>

EstablishSession ==
    /\ job.step = "establish"
    /\ establish_session(job.source, job.key, job.packet.session_id)
    /\ Reply(job.source, job.packet, "STATUS_AGENT", "OK")
    /\ job' = Nothing
    /\ UNCHANGED <<session, rootVars, beat, to_agent, outages, spared>>

\* process_delete_submessage for a client
DeleteClient ==
    /\ job.step = "delete"
    /\ IF Known(job.key)
       THEN delete_client(job.key) /\ Go("destroy") /\ UNCHANGED to_client
       ELSE /\ Reply(job.source, job.packet, "STATUS", "ERR_UNKNOWN_REFERENCE")
            /\ job' = Nothing
            /\ UNCHANGED rootVars
    /\ UNCHANGED <<session, sessionVars, beat, to_agent, outages, spared>>

DestroySession ==
    /\ job.step = "destroy"
    /\ destroy_session(job.source)
    /\ Reply(job.source, job.packet, "STATUS", "OK")
    /\ job' = Nothing
    /\ UNCHANGED <<session, rootVars, beat, to_agent, outages, spared>>

----------------------------------------------------------------------------
(* The heartbeat thread: check_heartbeats *)

NextClient ==
    /\ beat = Nobody
    /\ get_next_client
    /\ beat' = IF current_client = End THEN Nobody
               ELSE [key |-> current_client, session_id |-> clients[current_client].session_id]
    /\ UNCHANGED <<session, sessionVars, job, lines, outages, spared>>

\* A HEARTBEAT, if the client is alive and has something to acknowledge.
SendHeartbeat ==
    /\ beat # Nobody
    /\ beat' = Nobody
    /\ \/ UNCHANGED to_client
       \/ /\ HasEndpoint(beat.key)
          /\ to_client' \in Sent(to_client, client_to_endpoint[beat.key],
                [type |-> "HEARTBEAT", key |-> beat.key, session_id |-> beat.session_id])
    /\ UNCHANGED <<session, rootVars, sessionVars, job, to_agent, outages, spared>>

----------------------------------------------------------------------------

\* Agent::reset
ResetAgent ==
    /\ outages < Outages
    /\ reset
    /\ outages' = outages + 1
    /\ spared' = {}
    /\ UNCHANGED <<session, sessionVars, job, beat, lines>>

\* The Agent ends and is started again.  Nothing is persistent.
RestartAgent ==
    /\ outages < Outages
    /\ reset
    /\ endpoint_to_client' = EmptyMap
    /\ client_to_endpoint' = EmptyMap
    /\ job' = Nothing
    /\ beat' = Nobody
    /\ outages' = outages + 1
    /\ spared' = {}
    /\ UNCHANGED <<session, lines>>

ClientNext ==
    \E k \in Keys :
        \/ \E e \in Endpoints, sid \in SessionIds, v \in Versions[k] : StartClient(k, e, sid, v)
        \/ CrashClient(k)
        \/ Login(k)
        \/ Logout(k)
        \/ Ask(k)
        \/ TimeOut(k)
        \/ Hear(k)

ProcessorNext ==
    \/ \E e \in Endpoints : TakePacket(e)
    \/ DeleteOther
    \/ DestroyOther
    \/ CreateClient
    \/ EstablishSession
    \/ DeleteClient
    \/ DestroySession

Next ==
    \/ ClientNext
    \/ ProcessorNext
    \/ NextClient
    \/ SendHeartbeat
    \/ ResetAgent
    \/ RestartAgent

Spec == Init /\ [][Next]_vars

----------------------------------------------------------------------------
(* Properties *)

\* A client whose uxr_create_session returned true is registered with the
\* streams of that login and reached where it runs, until it logs out or the
\* Agent loses its clients.
CreatedIsKnown ==
    \A k \in Keys :
        session[k].phase = "open" /\ k \in spared =>
            /\ Known(k)
            /\ clients[k].login = session[k].login
            /\ HasEndpoint(k)
            /\ client_to_endpoint[k] = Place(k)

\* A client whose uxr_delete_session returned true is not registered any more.
DeletedIsGone == \A k \in Keys : session[k].phase = "closed" => ~Known(k)

\* What a client asks in a session is never attributed to another client or to
\* another login of its own.
AskedOfItsOwn ==
    \A e \in Endpoints :
        job = Nothing /\ to_agent[e] # <<>> /\ Head(to_agent[e]).type = "REQUEST" =>
            LET m == Head(to_agent[e])
                k == ClientOf(m, e)
            IN  Known(k) => k = m.key /\ clients[k].login = m.login

\* The Agent is in the state a Client was told, until it loses its clients, and
\* takes what that Client then asks for its own.
LoginTrue == CreatedIsKnown /\ DeletedIsGone /\ AskedOfItsOwn

\* Between two packets every registered client can be reached.
RegisteredIsReached == job = Nothing => DOMAIN clients \subseteq DOMAIN client_to_endpoint

\* What the SessionManager says of a client holds in both directions, and it
\* knows the clients the Root knows.
RegistersSound == TypeOK /\ MapsInStep /\ RegisteredIsReached

\* The heartbeat thread's iterator stands on a registered client or at the end:
\* what is deleted under it does not leave it dangling.
WalkStands == current_client = End \/ Known(current_client)
=============================================================================
