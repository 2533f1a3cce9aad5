--------------------------- MODULE ClientSession ---------------------------
(***************************************************************************)
(* The login and the logout of the Client (session.c, session_info.c):     *)
(* wait_session_status sends the request, listens for one packet or until  *)
(* it times out, and tries again while it has no status.  There is one     *)
(* thread: nothing else of the session runs meanwhile.                     *)
(***************************************************************************)
EXTENDS Identities, FiniteSetsExt

CONSTANTS
    Versions,       \* per client, the major versions its program may be built for
    Attempts,       \* UXR_CONFIG_MAX_SESSION_CONNECTION_ATTEMPTS
    MaxLogins       \* bound of the model: logins in all

ASSUME AttemptsAssumption == Attempts \in Nat \ {0}

VARIABLE session
    \* per client key:
    \*   phase       "off" (not running), "idle" (no session), "login", "open",
    \*               "logout", "closed", "lost" (a logout without an answer)
    \*   endpoint    where the program runs
    \*   session_id  info.id
    \*   version     XRCE_VERSION_MAJOR of its library
    \*   login       which of the key's logins this is
    \*   attempts    attempts that are left

NotSet == "not set"

Phases == {"off", "idle", "login", "open", "logout", "closed", "lost"}

Builds == UNION {Versions[k] : k \in Keys}

Programs ==
    [phase : Phases, endpoint : Endpoints \cup {NotSet}, session_id : SessionIds \cup {NotSet},
     version : Builds \cup {NotSet}, login : Nat, attempts : 0 .. Attempts - 1]

ClientTypeOK == session \in [Keys -> Programs]

Unset(n) ==
    [phase |-> "off", endpoint |-> NotSet, session_id |-> NotSet, version |-> NotSet,
     login |-> n, attempts |-> 0]

ClientInit == session = [k \in Keys |-> Unset(0)]

Running(k) == session[k].phase # "off"

Waits(k) == session[k].phase \in {"login", "logout"}

LoginMessage(k) ==
    [type |-> "CREATE_CLIENT", key |-> k, session_id |-> session[k].session_id,
     version |-> session[k].version, login |-> session[k].login]

LogoutMessage(k) == [type |-> "DELETE", key |-> k, session_id |-> session[k].session_id]

\* A request within the session: CREATE or WRITE_DATA, say.
AskMessage(k) ==
    [type |-> "REQUEST", key |-> k, session_id |-> session[k].session_id,
     login |-> session[k].login]

\* The message wait_session_status sends, and sends again
\* (uxr_buffer_create_session, uxr_buffer_delete_session).
Request(k) == IF session[k].phase = "login" THEN LoginMessage(k) ELSE LogoutMessage(k)

----------------------------------------------------------------------------

\* The program starts (uxr_init_session); an endpoint has one user at a time.
Begin(k, e, sid, v) ==
    /\ ~Running(k)
    /\ \A j \in Keys : Running(j) => session[j].endpoint # e
    /\ session' = [session EXCEPT ![k].phase = "idle", ![k].endpoint = e,
                                  ![k].session_id = sid, ![k].version = v]

\* It crashes, or ends without a word.
Crash(k) ==
    /\ Running(k)
    /\ session' = [session EXCEPT ![k] = Unset(@.login)]

\* uxr_create_session_retries, as far as its first attempt
create_session(k) ==
    /\ session[k].phase \in {"idle", "open", "closed", "lost"}
    /\ MapThenSumSet(LAMBDA j : session[j].login, Keys) < MaxLogins
    /\ session' = [session EXCEPT ![k].phase = "login", ![k].login = @ + 1,
                                  ![k].attempts = Attempts - 1]

\* uxr_delete_session_retries, as far as its first attempt
delete_session(k) ==
    /\ session[k].phase \in {"open", "lost"}
    /\ session' = [session EXCEPT ![k].phase = "logout", ![k].attempts = Attempts - 1]

\* uxr_read_session_header
Accepts(k, m) ==
    /\ m.session_id = session[k].session_id
    /\ m.session_id \in Keyed => m.key = k

\* uxr_read_create_session_status takes any STATUS_AGENT, whatever is waited
\* for; uxr_read_delete_session_status looks at what was asked last.
StatusOf(k, m) ==
    IF \/ m.type = "STATUS_AGENT"
       \/ m.type = "STATUS" /\ session[k].phase = "logout"
    THEN m.status ELSE "NONE"

Failed(phase) == IF phase = "login" THEN "idle" ELSE "lost"

Done(phase) == IF phase = "login" THEN "open" ELSE "closed"

\* A status ends the wait.
Conclude(k, status) ==
    session' = [session EXCEPT
        ![k].attempts = 0,
        ![k].phase = IF status = "OK" THEN Done(@) ELSE Failed(@)]

\* An attempt went by without a status.
TryAgain(k) ==
    /\ session[k].attempts > 0
    /\ session' = [session EXCEPT ![k].attempts = @ - 1]

GiveUp(k) ==
    /\ session[k].attempts = 0
    /\ session' = [session EXCEPT ![k].phase = Failed(@)]
=============================================================================
