---------------------------- MODULE EntityStore ----------------------------
(* The entity store of the agent and the server in front of it: the tree of    *)
(* the devices and services known to thin-edge, the registrations awaiting     *)
(* their parents, and the log from which the tree is loaded on start           *)
(* (tedge_api/src/entity_store.rs, tedge_agent/src/entity_manager/server.rs).  *)
(*                                                                             *)
(* The fragments of the digital twin of an entity are reduced to one, present  *)
(* or not. A handler runs alone in its actor; the loops which register several *)
(* entities are made of several steps, so that a crash may fall in between.    *)
EXTENDS PendingEntityStore, Naturals, FiniteSets

CONSTANTS
  Main,            \* the topic identifier of the main device
  Ids,             \* the external identifiers given by the users
  DefaultParent,   \* the device derived from the topic of each service, or None
  AutoTopics,      \* the topics of the default scheme, when auto-registration is on
  CleanStart       \* whether the log is truncated on start

Types == {"device", "child-device", "service"}

\* EntityRegistrationMessage
Registration ==
  [topic: Topics, type: Types, parent: Topics \cup {None}, id: Ids \cup {None}, twin: BOOLEAN]

\* EntityMetadata
Entity == [type: Types, parent: Topics \cup {None}, id: Ids \cup {None}, twin: BOOLEAN]

\* The messages exchanged on the topics of the entities.
RegMsg(r) == [kind |-> "reg", topic |-> r.topic, reg |-> r]
ClearMsg(t) == [kind |-> "clear", topic |-> t]
TwinMsg(t, on) == [kind |-> "twin", topic |-> t, on |-> on]
HealthMsg(t) == [kind |-> "health", topic |-> t]

Message ==
  {RegMsg(r) : r \in Registration} \cup {ClearMsg(t) : t \in Topics}
    \cup {TwinMsg(t, on) : t \in Topics, on \in BOOLEAN} \cup {HealthMsg(t) : t \in Topics}

ASSUME EntityAssumption ==
  /\ Main \in Topics
  /\ None \notin Topics
  /\ DefaultParent \in [Topics -> Topics \cup {None}]
  /\ AutoTopics \subseteq Topics
  /\ CleanStart \in BOOLEAN
  /\ None \notin Entity /\ None \notin Registration
  /\ None \notin [reg: Registration \cup {None}, data: Seq(Message)]

VARIABLES
  tree,     \* the entities, and the set of children each of them has had
  pend,     \* the pending entity store
  disk,     \* the tree the message log is replayed to
  job,      \* what the handler in progress has still to do
  outbox,   \* the messages sent by the agent, not yet received by the broker
  agent     \* "up", or "panicked" when a handler has panicked

storeVars == <<tree, pend, disk, job, outbox, agent>>

NoJob == [for |-> "none", auto |-> <<>>, stack |-> <<>>, batch |-> <<>>, announce |-> <<>>]

Registered(tr) == {t \in Topics : tr.entities[t] # None}

------------------------------------------------------------------------------
(* The tree of entities.                                                       *)

\* EntityTree::new
NewTree ==
  [entities |-> [t \in Topics |->
     IF t = Main THEN [type |-> "device", parent |-> None, id |-> None, twin |-> FALSE] ELSE None],
   children |-> [t \in Topics |-> {}]]

\* The parent given to an entity by register_entity.
ParentFor(r) ==
  IF r.type = "device" THEN None
  ELSE IF r.parent # None THEN r.parent
  ELSE IF r.type = "service" /\ DefaultParent[r.topic] # None THEN DefaultParent[r.topic]
  ELSE Main

HasParent(tr, r) == ParentFor(r) = None \/ ParentFor(r) \in Registered(tr)

\* The twin data are merged with the ones of the entity being replaced.
Merged(tr, r) ==
  LET old == tr.entities[r.topic]
  IN  [type |-> r.type, parent |-> ParentFor(r), id |-> r.id,
       twin |-> r.twin \/ (old # None /\ old.twin)]

\* EntityTree::insert: the former parent of an entity keeps it as a child.
InsertEntity(tr, r) ==
  [entities |-> [tr.entities EXCEPT ![r.topic] = Merged(tr, r)],
   children |-> [t \in Topics |->
     tr.children[t] \cup (IF t = ParentFor(r) THEN {r.topic} ELSE {})]]

\* A registration is persisted and announced when it affects some entity: the
\* parent of a new one, or the entity updated by the message.
Affects(tr, r) ==
  IF tr.entities[r.topic] = None THEN ParentFor(r) # None
                                 ELSE tr.entities[r.topic] # Merged(tr, r)

\* EntityTree::remove: everything reachable through the sets of children.
Closed(tr, S) == \A y \in S : tr.children[y] \subseteq S

Removed_NotRecursive(tr, t) == Registered(tr) \cap {t}

Removed(tr, t) ==
  {x \in Registered(tr) : \A S \in SUBSET Topics : (t \in S /\ Closed(tr, S)) => x \in S}

RemoveEntity(tr, t) ==
  [entities |-> [x \in Topics |-> IF x \in Removed(tr, t) THEN None ELSE tr.entities[x]],
   children |-> [x \in Topics |-> IF x \in Removed(tr, t) THEN {} ELSE tr.children[x]]]

\* register_twin_data
SetTwin(tr, t, on) == [tr EXCEPT !.entities[t].twin = on]

\* load_from_message_log: the effect of one more entry of the log. An entry that
\* cannot be registered is skipped.
ReplayReg(tr, r) == IF HasParent(tr, r) THEN InsertEntity(tr, r) ELSE tr
ReplayTwin(tr, t, on) == IF t \in Registered(tr) THEN SetTwin(tr, t, on) ELSE tr

------------------------------------------------------------------------------
(* The handlers of the server.                                                 *)

Panic ==
  /\ agent' = "panicked"
  /\ job' = NoJob
  /\ UNCHANGED <<tree, pend, disk, outbox>>

\* register_and_persist_entity, for a registration whose parent is registered.
RegisterAndPersist(r) ==
  /\ tree' = InsertEntity(tree, r)
  /\ disk' = IF Affects(tree, r) THEN ReplayReg(disk, r) ELSE disk

\* EntityStore::update, up to the children which were awaiting the entity. The
\* job j holds what is left to do once the entity is registered; `said` is what
\* has then to be announced for it.
Update(r, j, said) ==
  \/ /\ ~HasParent(tree, r) /\ r.parent = None     \* unwrap of a missing parent
     /\ Panic
  \/ /\ ~HasParent(tree, r) /\ r.parent # None
     /\ pend' = CacheRegistration(pend, r)
     /\ job' = j
     /\ UNCHANGED <<tree, disk, outbox, agent>>
  \/ /\ HasParent(tree, r)
     /\ RegisterAndPersist(r)
     /\ IF Affects(tree, r)
        THEN LET s == TakeStart(WithoutEntity(pend, r.topic), r.topic)
             IN  /\ pend' = s.pend
                 /\ job' = [j EXCEPT !.stack = s.stack, !.announce = @ \o said]
        ELSE job' = j /\ UNCHANGED pend
     /\ UNCHANGED <<outbox, agent>>

\* The twin data of an entity registered over MQTT is published.
TwinOf(r) == IF r.twin THEN <<TwinMsg(r.topic, TRUE)>> ELSE <<>>

\* process_entity_registration
HandleRegistration(r) ==
  /\ agent = "up" /\ job = NoJob
  /\ Update(r, [NoJob EXCEPT !.for = "mqtt"], TwinOf(r))

\* register_entity of the server, on an HTTP request.
HandleCreate(r) ==
  /\ agent = "up" /\ job = NoJob
  /\ tree.entities[r.topic] = None
  /\ r.parent # None => r.parent \in Registered(tree)
  /\ Update(r, [NoJob EXCEPT !.for = "http"], <<RegMsg(r)>>)

RemovalOrders_RootOnly(tr, t) == {IF t \in Registered(tr) THEN <<t>> ELSE <<>>}

\* The orders in which the removed entities may be listed: the given one first,
\* and each other one after an entity it was a child of.
RemovalOrders(tr, t) ==
  LET R == Removed(tr, t)
  IN  {f \in [1..Cardinality(R) -> R] :
         /\ \A i, k \in 1..Cardinality(R) : i # k => f[i] # f[k]
         /\ \A i \in 1..Cardinality(R) :
              f[i] = t \/ \E k \in 1..(i - 1) : f[i] \in tr.children[f[k]]}

\* deregister_entity of the server: the log is left unchanged, and so are the
\* pending registrations.
HandleDeregister(t) ==
  /\ agent = "up" /\ job = NoJob
  /\ \E order \in RemovalOrders(tree, t) :
       outbox' = outbox \o [i \in DOMAIN order |-> ClearMsg(order[i])]
  /\ tree' = RemoveEntity(tree, t)
  /\ UNCHANGED <<pend, disk, job, agent>>

\* patch_entity; an unknown entity is an error.
HandlePatch(t, on) ==
  /\ agent = "up" /\ job = NoJob
  /\ t \in Registered(tree) /\ tree.entities[t].twin # on
  /\ tree' = SetTwin(tree, t, on)
  /\ disk' = ReplayTwin(disk, t, on)
  /\ outbox' = Append(outbox, TwinMsg(t, on))
  /\ UNCHANGED <<pend, job, agent>>

\* default_topic_schema::parse, without the main device, never auto-registered.
AutoDevice(t) ==
  IF t = Main THEN <<>>
  ELSE <<[topic |-> t, type |-> "child-device", parent |-> Main, id |-> None, twin |-> TRUE]>>

AutoRegistrations(t) ==
  IF DefaultParent[t] = None THEN AutoDevice(t)
  ELSE AutoDevice(DefaultParent[t]) \o
       <<[topic |-> t, type |-> "service", parent |-> DefaultParent[t], id |-> None, twin |-> TRUE]>>

\* process_entity_data: the data are not stored, but their source is registered.
HandleData(t) ==
  /\ agent = "up" /\ job = NoJob
  /\ job' = IF t \notin Registered(tree) /\ t \in AutoTopics
            THEN [NoJob EXCEPT !.for = "auto", !.auto = AutoRegistrations(t)] ELSE NoJob
  /\ UNCHANGED <<tree, pend, disk, outbox, agent>>

HandleMessage(m) ==
  \/ m.kind = "reg" /\ HandleRegistration(m.reg)
  \/ m.kind = "clear" /\ HandleDeregister(m.topic)
  \/ m.kind \in DataKinds /\ HandleData(m.topic)

------------------------------------------------------------------------------
(* The loops of the handlers.                                                  *)

\* take_cached_child_entities_data
TakeChild ==
  /\ agent = "up" /\ job.stack # <<>>
  /\ LET s == [stack |-> job.stack, out |-> job.batch, pend |-> pend]
     IN  IF TakePanics(s) THEN Panic
         ELSE /\ pend' = TakeOne(s).pend
              /\ job' = [job EXCEPT !.stack = TakeOne(s).stack, !.batch = TakeOne(s).out]
              /\ UNCHANGED <<tree, disk, outbox, agent>>

\* The loop of update: an error ends it, the children left being forgotten.
RegisterChild ==
  /\ agent = "up" /\ job.stack = <<>> /\ job.batch # <<>>
  /\ LET r == Head(job.batch).reg
     IN  IF HasParent(tree, r)
         THEN /\ RegisterAndPersist(r)
              /\ job' = [job EXCEPT !.batch = Tail(@),
                           !.announce = IF job.for = "mqtt" THEN @ \o TwinOf(r) ELSE @]
         ELSE job' = NoJob /\ UNCHANGED <<tree, disk>>
  /\ UNCHANGED <<pend, outbox, agent>>

\* The loop of auto_register_entity.
AutoRegister ==
  /\ agent = "up" /\ job.stack = <<>> /\ job.batch = <<>> /\ job.auto # <<>>
  /\ LET r == Head(job.auto)
         j == [job EXCEPT !.auto = Tail(@)]
     IN  IF r.topic \in Registered(tree)
         THEN job' = j /\ UNCHANGED <<tree, pend, disk, outbox, agent>>
         ELSE Update(r, [j EXCEPT !.announce = Append(@, RegMsg(r))], <<>>)

\* What the handler publishes once the store is updated.
Announce ==
  /\ agent = "up" /\ job # NoJob
  /\ job.stack = <<>> /\ job.batch = <<>> /\ job.auto = <<>>
  /\ outbox' = outbox \o job.announce
  /\ job' = NoJob
  /\ UNCHANGED <<tree, pend, disk, agent>>

StoreStep == TakeChild \/ RegisterChild \/ AutoRegister \/ Announce

\* A crash, or a panic, and the start which follows it: what was not yet sent is
\* lost, and the tree is loaded from the log.
StoreRestart ==
  /\ tree' = IF CleanStart THEN NewTree ELSE disk
  /\ disk' = IF CleanStart THEN NewTree ELSE disk
  /\ pend' = NoPending
  /\ job' = NoJob
  /\ outbox' = <<>>
  /\ agent' = "up"

StoreInit ==
  /\ tree = NewTree /\ disk = NewTree /\ pend = NoPending
  /\ job = NoJob /\ outbox = <<>> /\ agent = "up"

\* The store alone, whatever the requests and the messages.
StoreNext ==
  \/ \E m \in Message : HandleMessage(m)
  \/ \E r \in Registration : HandleCreate(r)
  \/ \E t \in Topics : HandleDeregister(t)
  \/ \E t \in Topics, on \in BOOLEAN : HandlePatch(t, on)
  \/ StoreStep
  \/ StoreRestart

StoreSpec == StoreInit /\ [][StoreNext]_storeVars

\* The parent of a registered entity is registered, and has it as a child, so
\* that deregistering an entity deregisters everything below it, and
\* list_entity_tree reaches every entity.
ParentRegistered ==
  \A t \in Registered(tree) :
    LET p == tree.entities[t].parent
    IN  p # None => p \in Registered(tree) /\ t \in tree.children[p]
=============================================================================
