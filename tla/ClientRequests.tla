---------------------------- MODULE ClientRequests ----------------------------
(***************************************************************************)
(* The requests of a Client and the statuses that answer them: the ids of  *)
(* session_info.c, the application's calls of                              *)
(* uxr_run_session_until_all_status and uxr_run_session_until_one_status,  *)
(* and process_status of session.c, which writes what arrives meanwhile    *)
(* into the list of the call.                                              *)
(*                                                                         *)
(* An answer reaches the Client some time, or never; when several messages *)
(* become deliverable at once it hears several before it looks.  CREATE    *)
(* and DELETE are answered once.  A READ_DATA is answered with an error,   *)
(* or with DATA, again and again, and every DATA counts as OK.             *)
(***************************************************************************)
EXTENDS Integers, Sequences, FiniteSets

CONSTANTS
    Reserved,   \* RESERVED_REQUESTS_ID
    MaxId,      \* UINT16_MAX
    MaxList,    \* requests one call waits for (a bound of the model)
    InFlight,   \* answers on their way (a bound of the model)
    NoCall      \* the application is not in a call

INVALID == 0    \* UXR_INVALID_REQUEST_ID

RequestsAssumption ==
    /\ Reserved \in Nat /\ MaxId \in Nat /\ Reserved < MaxId
    /\ MaxList \in Nat /\ InFlight \in Nat

Ids == Reserved + 1 .. MaxId

VARIABLES
    last_request_id,
    open,       \* what the Agent has still to answer: id -> kind
    answers,    \* on their way to the Client
    accepted,   \* ids of which the newest request was answered with OK
    call,       \* request_list and status_list of the call
    returned    \* what the last call returned, until the next request or call

vars == <<last_request_id, open, answers, accepted, call, returned>>

\* The statuses a Client tells apart; "NONE" is its own.
Good     == {"OK", "OK_MATCHED"}
Statuses == Good \cup {"ERROR"}

Calls == {"all", "one"}

Nothing == [value |-> FALSE, op |-> "all", request_list |-> <<>>, status_list |-> <<>>]

Init ==
    /\ last_request_id = Reserved
    /\ open = [id \in {} |-> "read"]
    /\ answers = {}
    /\ accepted = {}
    /\ call = NoCall
    /\ returned = Nothing

----------------------------------------------------------------------------
(* Requests and answers *)

\* generate_request_id
NextId ==
    IF last_request_id = MaxId \/ last_request_id <= Reserved
    THEN Reserved + 1
    ELSE last_request_id + 1

\* An id does not come round while the request before it can still be answered.
Free(id) == id \notin DOMAIN open /\ \A a \in answers : a.id # id

\* A request finds room in its stream.  (One that does not has INVALID for an
\* id, which the application may wait for, too.)
Request(kind) ==
    /\ call = NoCall
    /\ Free(NextId)
    /\ last_request_id' = NextId
    /\ open' = [id \in DOMAIN open \cup {NextId} |-> IF id = NextId THEN kind ELSE open[id]]
    /\ accepted' = accepted \ {NextId}
    /\ returned' = Nothing
    /\ UNCHANGED <<answers, call>>

\* The Agent answers, or the answer to a CREATE or DELETE is never sent.
Answer(id, status) ==
    /\ id \in DOMAIN open
    /\ answers' = answers \cup {[id |-> id, status |-> status]}
    /\ Cardinality(answers') <= InFlight
    /\ accepted' = IF status \in Good THEN accepted \cup {id} ELSE accepted
    /\ open' = IF open[id] = "read" /\ status = "OK" THEN open
               ELSE [i \in DOMAIN open \ {id} |-> open[i]]
    /\ UNCHANGED <<last_request_id, call, returned>>

\* The status was dropped, or a reading ends.
NoAnswer(id) ==
    /\ id \in DOMAIN open
    /\ open' = [i \in DOMAIN open \ {id} |-> open[i]]
    /\ UNCHANGED <<last_request_id, answers, accepted, call, returned>>

----------------------------------------------------------------------------
(* Calls *)

\* Mistake: the list keeps what it had ("uninitialized", session.h:401).
BugCleared(n) == [i \in 1 .. n |-> IF i \in DOMAIN returned.status_list
                                   THEN returned.status_list[i] ELSE "NONE"]

Cleared(n) == [i \in 1 .. n |-> "NONE"]

Run(op, request_list) ==
    /\ call = NoCall
    /\ call' = [op |-> op, request_list |-> request_list,
                status_list |-> Cleared(Len(request_list))]
    /\ returned' = Nothing
    /\ UNCHANGED <<last_request_id, open, answers, accepted>>

\* process_status writes the first place of the list that has the id.
Place(request_list, id) ==
    {i \in DOMAIN request_list :
        request_list[i] = id /\ \A j \in 1 .. i - 1 : request_list[j] # id}

\* What the list holds when the answers heard were processed, the last of one
\* id last.
After(heard, list) ==
    {l \in [DOMAIN list -> Statuses \cup {"NONE"}] :
        \A i \in DOMAIN list :
            LET news == {a.status : a \in {b \in heard : i \in Place(call.request_list, b.id)}}
            IN  IF news = {} THEN l[i] = list[i] ELSE l[i] \in news}

Confirmed(i, list) == list[i] # "NONE" \/ call.request_list[i] = INVALID

\* What ends the loop of the call before its time.
Enough(list) ==
    IF call.op = "all" THEN \A i \in DOMAIN list : Confirmed(i, list)
                       ELSE \E i \in DOMAIN list : Confirmed(i, list)

\* What the call returns.
Value(list) ==
    IF call.op = "all" THEN \A i \in DOMAIN list : list[i] \in Good ELSE Enough(list)

Return(list) ==
    /\ returned' = [value |-> Value(list), op |-> call.op,
                    request_list |-> call.request_list, status_list |-> list]
    /\ call' = NoCall

\* A message that carries some answers, or that carries none.
Listen(heard) ==
    /\ call # NoCall
    /\ answers' = answers \ heard
    /\ \E list \in After(heard, call.status_list) :
          IF Enough(list) THEN Return(list)
          ELSE call' = [call EXCEPT !.status_list = list] /\ UNCHANGED returned
    /\ UNCHANGED <<last_request_id, open, accepted>>

\* Nothing was heard all the time.
TimeOut ==
    /\ call # NoCall
    /\ Return(call.status_list)
    /\ UNCHANGED <<last_request_id, open, answers, accepted>>

\* Answers that arrive while the application runs the session otherwise, with
\* no list set, are for its callback only.
Ignore(heard) ==
    /\ call = NoCall
    /\ heard # {}
    /\ answers' = answers \ heard
    /\ UNCHANGED <<last_request_id, open, accepted, call, returned>>

Lists == UNION {[1 .. n -> Ids \cup {INVALID}] : n \in 1 .. MaxList}

Next ==
    \/ \E kind \in {"create", "read"} : Request(kind)
    \/ \E id \in DOMAIN open, status \in Statuses : Answer(id, status)
    \/ \E id \in DOMAIN open : NoAnswer(id)
    \/ \E op \in Calls, request_list \in Lists : Run(op, request_list)
    \/ \E heard \in SUBSET answers : Listen(heard) \/ Ignore(heard)
    \/ TimeOut

Spec == Init /\ [][Next]_vars

----------------------------------------------------------------------------
(* Properties *)

\* uxr_run_session_until_all_status returns true only if the Agent accepted
\* every request of the list, whichever answers were late, lost, heard by an
\* earlier call or for an id that was used before.
TrueIsAccepted ==
    (returned.op = "all" /\ returned.value) =>
        \A i \in DOMAIN returned.request_list : returned.request_list[i] \in accepted
=============================================================================
