------------------------------ MODULE Entities ------------------------------
(***************************************************************************)
(* The objects of the Agent's ProxyClients and the entities they stand for *)
(* in the middleware, here the Centralized Embedded Data one: the requests *)
(* of CREATE and DELETE, by creation mode (ProxyClient::create_object), a  *)
(* client deleted or replaced in Root, samples written, and samples taken  *)
(* by the threads of the DataReaders.  The processing thread carries out   *)
(* one request at a time; stop_reading joins a reader's thread first.      *)
(***************************************************************************)
EXTENDS CedMiddleware

CONSTANTS
    IdsOf,          \* the objects each client creates
    DomainsOf,      \* and in which domains
    Reconnecting,   \* clients that start a new session without deleting the old
    Overrun         \* TRUE: a topic may be written HistorySize times and more
                    \* while a reader that waits has not got its mutex yet

ObjectIds == ParticipantIds \cup TopicIds \cup PublisherIds \cup SubscriberIds
                \cup DataWriterIds \cup DataReaderIds

AllPairs == Clients \X ObjectIds

ASSUME EntitiesAssumption ==
    /\ IdsOf \in [Clients -> SUBSET ObjectIds]
    /\ DomainsOf \in [Clients -> SUBSET Domains]
    /\ Source \in [Clients -> Sources]
    /\ WriteAccess \in [Clients -> Accesses]
    /\ ReadAccess \in [Clients -> Accesses]
    /\ Reconnecting \subseteq Clients
    /\ Overrun \in BOOLEAN

\* The last four bits of an id are its kind.
ASSUME KindsAssumption ==
    /\ ParticipantIds \cap (TopicIds \cup PublisherIds \cup SubscriberIds
                               \cup DataWriterIds \cup DataReaderIds) = {}
    /\ TopicIds \cap (PublisherIds \cup SubscriberIds \cup DataWriterIds \cup DataReaderIds) = {}
    /\ PublisherIds \cap (SubscriberIds \cup DataWriterIds \cup DataReaderIds) = {}
    /\ SubscriberIds \cap (DataWriterIds \cup DataReaderIds) = {}
    /\ DataWriterIds \cap DataReaderIds = {}

\* There are more addresses than what may be at them: the topics alive differ in
\* domain or name, and a participant alive, or referred to, has an object that
\* refers to it.
ASSUME AddressesAssumption ==
    /\ Null \notin Topics
    /\ \A f \in [Topics -> Domains \X Names] : \E s, t \in Topics : s # t /\ f[s] = f[t]
    /\ \A c \in Clients : \A f \in [Participants -> IdsOf[c]] :
          \E p, q \in Participants : p # q /\ f[p] = f[q]

VARIABLES
    objects,        \* objects_ of each ProxyClient: the ids in it
    middleware,     \* see CedMiddleware
    answer          \* the last request carried out and its status

entityVars == <<objects, middleware, answer>>

NoAnswer == [status |-> "none"]

NewMiddleware ==
    [entities |-> [c \in Clients |-> EmptyMap],
     participants |-> [c \in Clients |-> EmptyMap],
     topics |-> EmptyMap, registered |-> EmptyMap, leaked |-> {}]

EntitiesInit ==
    /\ objects = [c \in Clients |-> {}]
    /\ middleware = NewMiddleware
    /\ answer = NoAnswer

----------------------------------------------------------------------------
(* Requests: an id, its parent, a name or a domain. *)

Unnamed(kind, ids, parents) ==
    [kind : {kind}, id : ids, parent : parents]

Named(kind, ids, parents) ==
    [kind : {kind}, id : ids, parent : parents, name : Names]

ObjectRequests == [c \in Clients |->
    {r \in [kind : {"participant"}, id : ParticipantIds, domain : DomainsOf[c]]
            \cup Named("topic", TopicIds, ParticipantIds)
            \cup Unnamed("publisher", PublisherIds, ParticipantIds)
            \cup Unnamed("subscriber", SubscriberIds, ParticipantIds)
            \cup Named("datawriter", DataWriterIds, PublisherIds)
            \cup Named("datareader", DataReaderIds, SubscriberIds) : r.id \in IdsOf[c]}]

Modes == [reuse : BOOLEAN, replace : BOOLEAN]     \* dds::xrce::CreationMode

Answers(c, r, mode, status) ==
    answer' = [client |-> c, request |-> r, mode |-> mode, status |-> status]

\* ProxyClient::create_object of an object that is not there, with objects
\* "held" and middleware m.
Creates(c, r, mode, m, held) ==
    IF r.kind # "participant" /\ r.parent \notin held
    THEN /\ objects' = [objects EXCEPT ![c] = held]
         /\ middleware' = m
         /\ Answers(c, r, mode, "ERR_UNKNOWN_REFERENCE")
    ELSE /\ middleware' \in Create(m, c, r)
         /\ IF middleware' # m
            THEN /\ objects' = [objects EXCEPT ![c] = held \cup {r.id}]
                 /\ Answers(c, r, mode, "OK")
            ELSE /\ objects' = [objects EXCEPT ![c] = held]
                 /\ Answers(c, r, mode, "ERR_DDS_ERROR")

Stays(c, r, mode, status) ==
    /\ Answers(c, r, mode, status)
    /\ UNCHANGED <<objects, middleware>>

\* Mistake: a replaced object leaves its entity in the middleware.
BugCreateObject(c, r, mode) ==
    IF r.id \notin objects[c]
    THEN Creates(c, r, mode, middleware, objects[c])
    ELSE CASE ~mode.reuse /\ ~mode.replace -> Stays(c, r, mode, "ERR_ALREADY_EXISTS")
           [] mode.reuse /\ Matched(middleware, c, r) -> Stays(c, r, mode, "OK_MATCHED")
           [] mode.reuse /\ ~mode.replace /\ ~Matched(middleware, c, r) ->
                Stays(c, r, mode, "ERR_MISMATCH")
           [] OTHER -> Creates(c, r, mode, middleware, objects[c] \ {r.id})

\* ProxyClient::create_object: Table 7 of the DDS-XRCE specification.
CreateObject(c, r, mode) ==
    IF r.id \notin objects[c]
    THEN Creates(c, r, mode, middleware, objects[c])
    ELSE CASE ~mode.reuse /\ ~mode.replace -> Stays(c, r, mode, "ERR_ALREADY_EXISTS")
           [] mode.reuse /\ Matched(middleware, c, r) -> Stays(c, r, mode, "OK_MATCHED")
           [] mode.reuse /\ ~mode.replace /\ ~Matched(middleware, c, r) ->
                Stays(c, r, mode, "ERR_MISMATCH")
           [] OTHER -> Creates(c, r, mode, Delete(middleware, c, r.id), objects[c] \ {r.id})

\* ProxyClient::delete_object: the object's destructor deletes its entity.
\* What was made on it stays.
DeleteObject(c, id) ==
    /\ IF id \in objects[c]
       THEN /\ objects' = [objects EXCEPT ![c] = @ \ {id}]
            /\ middleware' = Delete(middleware, c, id)
       ELSE UNCHANGED <<objects, middleware>>
    /\ answer' = NoAnswer

\* Root::delete_client: ProxyClient::release clears the objects.
Release(c) ==
    /\ objects[c] # {}
    /\ objects' = [objects EXCEPT ![c] = {}]
    /\ middleware' = Swept([middleware EXCEPT !.entities[c] = EmptyMap], c, Held(middleware, c))
    /\ answer' = NoAnswer

\* Root::create_client for a session id that is not the client's: a new
\* ProxyClient takes its place and the old one is not released.  Its objects
\* keep it, and it keeps them: its topics are never let go.
Replace(c) ==
    /\ c \in Reconnecting
    /\ objects[c] # {}
    /\ objects' = [objects EXCEPT ![c] = {}]
    /\ middleware' =
         [middleware EXCEPT !.leaked = @ \cup {t.topic : t \in Held(middleware, c)},
                            !.entities[c] = EmptyMap, !.participants[c] = EmptyMap]
    /\ answer' = NoAnswer

----------------------------------------------------------------------------
(* Samples *)

ReadersOn(t) ==
    {middleware.entities[p[1]][p[2]].reader :
        p \in {q \in AllPairs : /\ q[2] \in DOMAIN middleware.entities[q[1]] \cap DataReaderIds
                                /\ middleware.entities[q[1]][q[2]].topic.topic = t}}

\* CedGlobalTopic::write for a WRITE_DATA; without write access nothing is written.
WriteData(c, id) ==
    LET t     == middleware.entities[c][id].topic.topic
        topic == middleware.topics[t]
    IN  /\ id \in objects[c]
        /\ Allows(WriteAccess[c], Source[c])
        /\ Written(topic) < MaxWrites
        /\ Overrun \/ \A reader \in ReadersOn(t) :
              reader.waiting => SeqSub(topic.last_write, reader.last_read) < HistorySize
        /\ middleware' = [middleware EXCEPT !.topics[t] = Write(@, Source[c])]
        /\ answer' = NoAnswer
        /\ UNCHANGED objects

TopicOf(c, id) == middleware.topics[middleware.entities[c][id].topic.topic]

ReaderOf(c, id) == middleware.entities[c][id].reader

Reads(c, id, result) ==
    /\ middleware' = [middleware EXCEPT !.entities[c][id].reader = result]
    /\ answer' = NoAnswer
    /\ UNCHANGED objects

\* The thread of a reader calls read, the first time or after a wait timed out.
ReadData(c, id) ==
    /\ id \in objects[c]
    /\ Reads(c, id, Read(TopicOf(c, id), ReaderOf(c, id), ReadAccess[c]))

WakeReader(c, id) ==
    /\ id \in objects[c]
    /\ ReaderOf(c, id).waiting
    /\ ReaderOf(c, id).last_read # TopicOf(c, id).last_write
    /\ Reads(c, id, Wake(TopicOf(c, id), ReaderOf(c, id), ReadAccess[c]))

EntitiesNext ==
    \E c \in Clients :
        \/ \E r \in ObjectRequests[c], mode \in Modes : CreateObject(c, r, mode)
        \/ \E id \in IdsOf[c] : DeleteObject(c, id)
        \/ Release(c)
        \/ Replace(c)
        \/ \E id \in IdsOf[c] \cap DataWriterIds : WriteData(c, id)
        \/ \E id \in IdsOf[c] \cap DataReaderIds : ReadData(c, id) \/ WakeReader(c, id)

EntitiesSpec == EntitiesInit /\ [][EntitiesNext]_entityVars

----------------------------------------------------------------------------
(* Properties *)

Entity(c, id) == middleware.entities[c][id]

\* Everything refers to topics and participants there are, and the histories
\* hold samples that were written.
EntitiesTypeOK ==
    /\ objects \in [Clients -> SUBSET ObjectIds]
    /\ DOMAIN middleware.topics \subseteq Topics
    /\ \A c \in Clients : DOMAIN middleware.participants[c] \subseteq Participants
    /\ \A t \in DOMAIN middleware.topics :
          /\ middleware.topics[t].last_write \in SeqNums
          /\ middleware.topics[t].history \in [Slots -> 0 .. MaxWrites]
          /\ middleware.topics[t].srcs \in [Slots -> Sources]

\* Whatever was created, replaced, matched or refused, and in which order, the
\* objects of a ProxyClient are those its middleware has entities for: the id of
\* one that is gone can be used again, and none is left without its object.
InStep == EntitiesTypeOK /\ \A c \in Clients : objects[c] = DOMAIN middleware.entities[c]

\* The weak_ptrs of both registers are those of the topics that are alive: no
\* name is taken by a topic that is gone, and none that is alive is missing.
RegistersLive ==
    /\ \A t \in DOMAIN middleware.topics :
          LET topic == middleware.topics[t]
          IN  /\ <<topic.domain_id, topic.name>> \in DOMAIN middleware.registered
              /\ middleware.registered[<<topic.domain_id, topic.name>>] = t
    /\ \A key \in DOMAIN middleware.registered :
          middleware.registered[key] \in DOMAIN middleware.topics
    /\ \A c \in Clients :
          Held(middleware, c) =
              UNION {{[participant |-> p, topic |-> middleware.participants[c][p].topic_register[name]] :
                        name \in DOMAIN middleware.participants[c][p].topic_register} :
                     p \in DOMAIN middleware.participants[c]}

\* Participants of a domain, of any clients and old or new, with a topic of the
\* same name share what is written: CedTopicManager keeps one CedGlobalTopic of
\* a name alive, from the first topic on it to the last writer or reader.
Connected ==
    /\ RegistersLive
    /\ \A c, d \in Clients : \A s \in Held(middleware, c), t \in Held(middleware, d) :
          LET p == middleware.participants[c][s.participant].domain_id
              q == middleware.participants[d][t.participant].domain_id
          IN  (p = q /\ middleware.topics[s.topic].name = middleware.topics[t.topic].name)
                  <=> s.topic = t.topic

\* The entity of an object is of the domain, or topic name, it was asked for.
AsAsked(c, r) ==
    LET entity == Entity(c, r.id)
    IN  CASE r.kind = "participant" ->
               middleware.participants[c][entity.participant].domain_id = r.domain
          [] HasTopic(entity) -> middleware.topics[entity.topic.topic].name = r.name
          [] OTHER -> TRUE

\* The status of a CREATE tells the truth.  OK and OK_MATCHED: the object is
\* there, of the domain or name asked for.  An error leaves all as it was, but
\* for an object that was to be replaced: that one is lost, and no other.
StatusTrue ==
    [][answer' # NoAnswer =>
         \A c \in {answer'.client}, r \in {answer'.request} :
            IF answer'.status \in {"OK", "OK_MATCHED"}
            THEN /\ objects'[c] = objects[c] \cup {r.id}
                 /\ AsAsked(c, r)'
            ELSE \/ UNCHANGED <<objects, middleware>>
                 \/ answer'.mode.replace /\ objects'[c] = objects[c] \ {r.id}]_entityVars

\* A reader's thread gets the samples of its topic in the order in which they
\* were written and none of them twice, however far behind it has fallen; one it
\* passes over was overwritten or is not for it.
SamplesInOrder ==
    \A c \in Clients : \A id \in DOMAIN middleware.entities[c] \cap DataReaderIds :
        Entity(c, id).reader.ordered /\ Entity(c, id).reader.complete
=============================================================================
