--------------------------- MODULE CedMiddleware ---------------------------
(***************************************************************************)
(* The entities of the Centralized Embedded Data middleware, one           *)
(* CedMiddleware per client, and what their reference counts keep alive.   *)
(* An entity is destroyed when the last shared_ptr to it goes: the map it  *)
(* is in, a topic or publisher on a participant, a writer or reader on a   *)
(* topic.  Registers hold weak_ptrs, erased by the destructors.            *)
(*                                                                         *)
(* The operators take and give a state "m" of the middleware as a record:  *)
(*   entities      the six maps of each client, as one, by object id       *)
(*   participants  the CedParticipants alive, with their topic_register_   *)
(*   topics        the CedGlobalTopics alive                               *)
(*   registered    CedTopicManager::topics_, by domain and name            *)
(*                                                                         *)
(* A topic (CedGlobalTopic) is a ring with the last samples written,       *)
(* numbered by a SeqNum, and readers keep the number of the last sample    *)
(* they took.  A sample stands for its place in the order of writing, 1,   *)
(* 2, ...; 0 is an empty slot.                                             *)
(***************************************************************************)
EXTENDS SeqNum, Registers, FiniteSets

----------------------------------------------------------------------------
(* CedGlobalTopic *)

CONSTANTS
    HistorySize,    \* history_.size(), 16 in the code
    MaxWrites       \* bound: samples written to one topic

\* MaxWrites keeps a reader less than half a turn behind: beyond that the
\* comparisons of Read are not an order.
ASSUME HistoryAssumption ==
    /\ HistorySize \in Nat \ {0}
    /\ Modulus % HistorySize = 0
    /\ HistorySize < Half
    /\ MaxWrites \in 0 .. Half - 1

Sources == {"INTERNAL", "EXTERNAL"}                       \* TopicSource
Accesses == {"NONE", "INTERNAL", "EXTERNAL", "COMPLETE"}  \* WriteAccess, ReadAccess

Slots == 0 .. HistorySize - 1

\* srcs_ is not initialised; no source is read before it is written.
NewTopic(domain, name) ==
    [domain_id |-> domain, name |-> name, last_write |-> MaxSeq,
     history |-> [i \in Slots |-> 0], srcs |-> [i \in Slots |-> "INTERNAL"]]

\* How many samples were written, as long as the numbers have not come round.
Written(topic) == Wrap(topic.last_write + 1)

Allows(access, source) == access \in {"COMPLETE", source}

Write(topic, source) ==
    LET index == Written(topic) % HistorySize
    IN  [topic EXCEPT !.last_write = Wrap(@ + 1),
                      !.history[index] = Written(topic) + 1,
                      !.srcs[index] = source]

NewReader == [last_read |-> MaxSeq, waiting |-> FALSE, got |-> 0,
              ordered |-> TRUE, complete |-> TRUE]

\* Mistake: a reader that has fallen behind is left where it is.
BugFixLastRead(topic, last_read) == last_read

\* A reader that has fallen behind goes on at the oldest sample of the ring.
FixLastRead(topic, last_read) ==
    LET oldest == SeqSub(topic.last_write, HistorySize)
    IN  IF SeqLeq(last_read, oldest) \/ SeqLt(topic.last_write, last_read)
        THEN oldest ELSE last_read

\* The numbers after last_read up to last_write, as distances from last_read.
Ahead(topic, last_read) == 1 .. SeqSub(topic.last_write, last_read)

SlotAt(last_read, n) == Wrap(last_read + n) % HistorySize

\* The reader takes the n-th number after "from".  What it gets is monitored:
\* ordered - nothing comes twice or late; complete - it passed over samples
\* only if they were overwritten or are not for it.
Take(topic, reader, from, n, access) ==
    LET sample  == topic.history[SlotAt(from, n)]
        skipped == {k \in Slots : /\ topic.history[k] > reader.got
                                  /\ topic.history[k] < sample
                                  /\ Allows(access, topic.srcs[k])}
    IN  [reader EXCEPT !.last_read = Wrap(from + n), !.waiting = FALSE,
                       !.got = sample,
                       !.ordered = @ /\ sample > reader.got,
                       !.complete = @ /\ skipped = {}]

\* CedGlobalTopic::read up to the wait: the first sample the reader may have,
\* or all are passed over and the thread waits.
Read(topic, reader, access) ==
    LET from == IF reader.last_read = topic.last_write THEN reader.last_read
                ELSE FixLastRead(topic, reader.last_read)
        mine == {n \in Ahead(topic, from) : Allows(access, topic.srcs[SlotAt(from, n)])}
    IN  IF mine = {}
        THEN [reader EXCEPT !.last_read = topic.last_write, !.waiting = TRUE]
        ELSE Take(topic, reader, from, CHOOSE n \in mine : \A m \in mine : n <= m, access)

\* The predicate of the wait, evaluated once when a write or time wakes the
\* thread: it moves on by one number, and does not correct last_read first.
Wake(topic, reader, access) ==
    IF Allows(access, topic.srcs[SlotAt(reader.last_read, 1)])
    THEN Take(topic, reader, reader.last_read, 1, access)
    ELSE [reader EXCEPT !.last_read = Wrap(@ + 1)]

----------------------------------------------------------------------------
(* CedMiddleware and its entities *)

CONSTANTS
    Clients,
    ParticipantIds, TopicIds, PublisherIds, SubscriberIds,
    DataWriterIds, DataReaderIds,
    Domains, Names,
    Participants,   \* addresses a CedParticipant can have
    Topics,         \* addresses a CedGlobalTopic can have
    Source,         \* topics_src_, write_access_, read_access_ of a client
    WriteAccess,
    ReadAccess,
    Null            \* nullptr

\* A CedTopic, of which a participant has one for a name: both it points to.
\* Only topics, writers and readers have one.
HasTopic(entity) == entity.kind \in {"topic", "datawriter", "datareader"}

Held(m, c) ==
    {m.entities[c][id].topic : id \in {i \in DOMAIN m.entities[c] : HasTopic(m.entities[c][i])}}

\* Who keeps a CedParticipant alive: participants_, a topic or a publisher.  A
\* subscriber keeps a reference to the entry of participants_ and no count.
KeptParticipants(m, c) ==
    {t.participant : t \in Held(m, c)}
        \cup {m.entities[c][id].participant :
                id \in DOMAIN m.entities[c] \cap (ParticipantIds \cup PublisherIds)}

KeptTopics(m) == (UNION {{t.topic : t \in Held(m, c)} : c \in Clients}) \cup m.leaked

\* ~CedTopic: the participant's register forgets the topics that are gone.
Unregistered(participant, p, gone) ==
    [participant EXCEPT !.topic_register =
        [name \in {n \in DOMAIN @ : [participant |-> p, topic |-> @[n]] \notin gone} |-> @[name]]]

\* ~CedTopic, ~CedParticipant and ~CedGlobalTopic (CedTopicManager::
\* unregister_topic) of all that client c has just let go.
Swept(m, c, before) ==
    LET gone == before \ Held(m, c)
        kept == KeptTopics(m)
    IN  [m EXCEPT
          !.participants[c] =
              [p \in DOMAIN @ \cap KeptParticipants(m, c) |-> Unregistered(@[p], p, gone)],
          !.topics = [t \in DOMAIN @ \cap kept |-> @[t]],
          !.registered = [key \in {k \in DOMAIN @ : @[k] \in kept} |-> @[key]]]

\* delete_participant, delete_topic, ..., delete_datareader
Delete(m, c, id) == Swept([m EXCEPT !.entities[c] = Erase(@, id)], c, Held(m, c))

Added(m, c, id, entity) == [m EXCEPT !.entities[c] = Put(@, id, entity)]

\* CedParticipant::find_topic; weak_ptr::lock fails for a topic that is gone.
FindTopic(m, c, p, name) ==
    LET register == m.participants[c][p].topic_register
    IN  IF name \in DOMAIN register /\ [participant |-> p, topic |-> register[name]] \in Held(m, c)
        THEN register[name] ELSE Null

\* make_shared: an address nothing is at, and none a subscriber still refers to,
\* so that a reference to what is gone can be told from one to what came after.
FreshParticipant(m, c) ==
    CHOOSE p \in Participants :
        /\ p \notin DOMAIN m.participants[c]
        /\ \A id \in DOMAIN m.entities[c] \cap SubscriberIds : m.entities[c][id].participant # p

FreshTopic(m) == CHOOSE t \in Topics : t \notin DOMAIN m.topics

CreateParticipant(m, c, r) ==
    LET p == FreshParticipant(m, c)
    IN  [Added(m, c, r.id, [kind |-> "participant", participant |-> p])
           EXCEPT !.participants[c] =
               Put(@, p, [domain_id |-> r.domain, topic_register |-> EmptyMap])]

\* Mistake: the name is not looked for, so every participant gets a topic of
\* its own.
BugRegisterTopic(m, domain, name) ==
    LET t == FreshTopic(m)
    IN  [m EXCEPT !.topics = Put(@, t, NewTopic(domain, name)),
                  !.registered = Put(@, <<domain, name>>, t)]

\* CedTopicManager::register_topic.  One thread creates and destroys entities,
\* so a name it finds is of a topic that is alive.
RegisterTopic(m, domain, name) ==
    LET t == FreshTopic(m)
    IN  IF <<domain, name>> \in DOMAIN m.registered THEN m
        ELSE [m EXCEPT !.topics = Put(@, t, NewTopic(domain, name)),
                       !.registered = Put(@, <<domain, name>>, t)]

\* create_topic: the participant's topic of that name, or a new one on the
\* topic all participants of the domain share.
CreateTopic(m, c, r) ==
    LET p      == m.entities[c][r.parent].participant
        found  == FindTopic(m, c, p, r.name)
        domain == m.participants[c][p].domain_id
        made   == RegisterTopic(m, domain, r.name)
        global == made.registered[<<domain, r.name>>]
    IN  IF found # Null
        THEN Added(m, c, r.id, [kind |-> "topic", topic |-> [participant |-> p, topic |-> found]])
        ELSE [Added(made, c, r.id, [kind |-> "topic", topic |-> [participant |-> p, topic |-> global]])
                EXCEPT !.participants[c][p].topic_register = Put(@, r.name, global)]

CreatePublisher(m, c, r) ==
    Added(m, c, r.id, [kind |-> "publisher", participant |-> m.entities[c][r.parent].participant])

\* CedSubscriber::participant_ refers to the entry of r.parent.
CreateSubscriber(m, c, r) ==
    Added(m, c, r.id, [kind |-> "subscriber", entry |-> r.parent,
                       participant |-> m.entities[c][r.parent].participant])

Dangling(m, c, subscriber) ==
    \/ subscriber.entry \notin DOMAIN m.entities[c]
    \/ m.entities[c][subscriber.entry].participant # subscriber.participant

\* get_participant of a publisher or subscriber.  Through a subscriber whose
\* participant was deleted it is undefined: what the memory holds now.
ParticipantsOf(m, c, parent) ==
    LET entity == m.entities[c][parent]
    IN  IF entity.kind = "subscriber" /\ Dangling(m, c, entity)
        THEN DOMAIN m.participants[c] ELSE {entity.participant}

DataWriter(topic) == [kind |-> "datawriter", topic |-> topic]

DataReader(topic) == [kind |-> "datareader", topic |-> topic, reader |-> NewReader]

OnTopic(r, topic) == IF r.kind = "datawriter" THEN DataWriter(topic) ELSE DataReader(topic)

\* create_datawriter and create_datareader need a topic of their name on the
\* participant.  The results are the states that may follow: m when it fails.
CreateOnTopic(m, c, r) ==
    LET found(p) == FindTopic(m, c, p, r.name)
        holders  == ParticipantsOf(m, c, r.parent)
    IN  {Added(m, c, r.id, OnTopic(r, [participant |-> p, topic |-> found(p)])) :
            p \in {q \in holders : found(q) # Null}}
        \cup {m : p \in {q \in holders : found(q) = Null}}

\* create_*: it fails for an id that is in use or a parent that is not there.
Create(m, c, r) ==
    IF r.id \in DOMAIN m.entities[c]
            \/ (r.kind # "participant" /\ r.parent \notin DOMAIN m.entities[c])
    THEN {m}
    ELSE CASE r.kind = "participant" -> {CreateParticipant(m, c, r)}
           [] r.kind = "topic" -> {CreateTopic(m, c, r)}
           [] r.kind = "publisher" -> {CreatePublisher(m, c, r)}
           [] r.kind = "subscriber" -> {CreateSubscriber(m, c, r)}
           [] r.kind \in {"datawriter", "datareader"} -> CreateOnTopic(m, c, r)

\* Mistake: the domain of a participant is not compared.
BugMatched(m, c, r) ==
    LET entity == m.entities[c][r.id]
    IN  HasTopic(entity) => r.name = m.topics[entity.topic.topic].name

\* matched_*: only the domain of a participant and the name of a topic are
\* compared; a publisher or subscriber always matches (Publisher::matched).
Matched(m, c, r) ==
    LET entity == m.entities[c][r.id]
    IN  CASE r.kind = "participant" -> r.domain = m.participants[c][entity.participant].domain_id
          [] HasTopic(entity) -> r.name = m.topics[entity.topic.topic].name
          [] OTHER -> TRUE
=============================================================================
