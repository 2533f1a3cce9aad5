----------------------------- MODULE MCEntities -----------------------------
(* A client that writes and one that reads. *)
EXTENDS Entities, TLC

MCClients == {"w", "r"}
MCIdsOf == "w" :> {"P", "T", "pub", "dw"} @@ "r" :> {"P", "T", "sub", "dr"}
MCDomainsOf == "w" :> {0} @@ "r" :> {0, 1}
MCInternal == [c \in MCClients |-> "INTERNAL"]
MCComplete == [c \in MCClients |-> "COMPLETE"]

(* The view leaves the last answer out and names an address by the entities *)
(* that refer to it, so that states that differ in addresses only are one.  *)
(* Its last component is TRUE: TLC evaluates the whole state for it.        *)
ParticipantOf(entity) == IF HasTopic(entity) THEN entity.topic.participant ELSE entity.participant

TopicAt(t) == IF t \in DOMAIN middleware.topics THEN middleware.topics[t] ELSE Null

WithTopic ==
    {q \in AllPairs : /\ q[2] \in DOMAIN middleware.entities[q[1]]
                      /\ HasTopic(middleware.entities[q[1]][q[2]])}

Shape(c, id) ==
    LET entity == middleware.entities[c][id]
        p      == ParticipantOf(entity)
    IN  <<{i \in DOMAIN middleware.entities[c] : ParticipantOf(middleware.entities[c][i]) = p},
          IF p \in DOMAIN middleware.participants[c]
          THEN <<middleware.participants[c][p].domain_id,
                 DOMAIN middleware.participants[c][p].topic_register>>
          ELSE Null,
          IF HasTopic(entity) THEN TopicAt(entity.topic.topic) ELSE Null,
          IF entity.kind = "datareader" THEN entity.reader ELSE Null>>

View ==
    <<objects,
      [c \in Clients |-> [id \in DOMAIN middleware.entities[c] |-> Shape(c, id)]],
      {{q \in WithTopic : middleware.entities[q[1]][q[2]].topic.topic = t} : t \in DOMAIN middleware.topics},
      DOMAIN middleware.registered, {TopicAt(t) : t \in middleware.leaked},
      middleware = [middleware EXCEPT !.leaked = @]>>
=============================================================================
