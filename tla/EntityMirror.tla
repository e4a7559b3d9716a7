---------------------------- MODULE EntityMirror ----------------------------
(* The entity store of the agent, the entity cache of the Cumulocity mapper,   *)
(* which mirrors it, and the broker between them and the users                 *)
(* (c8y_mapper_ext/src/entity_cache.rs, converter.rs, actor.rs).               *)
(*                                                                             *)
(* The broker keeps the retained messages and delivers each message to the     *)
(* agent and to the mapper in the order of its reception; a process which      *)
(* restarts first receives the retained messages, in any order.                *)
EXTENDS EntityStore, SequencesExt

CONSTANTS
  Registrations,   \* the registrations the users may send
  Cleared,         \* the entities the users may deregister
  Reporting,       \* the entities which may publish their health
  InvalidIds,      \* the identifiers rejected by the mapper
  Requests,        \* the kinds of requests of the users when they may overlap
  PatientRequests, \* and with their entities, when each is processed before the next one
  MaxEager,        \* bound on the requests and restarts when requests may overlap
  MaxPatient,      \* and when they may not
  MaxCrashes,      \* bound on the restarts
  MaxQueue         \* bound on the messages awaiting a process when the agent publishes one

ASSUME MirrorAssumption ==
  /\ Registrations \subseteq Registration
  /\ Cleared \subseteq Topics /\ Reporting \subseteq Topics /\ InvalidIds \subseteq Ids
  /\ Requests \subseteq {"register", "clear", "health", "create", "delete", "patch"}
  /\ PatientRequests \subseteq Requests \X Topics
  /\ MaxEager \in Nat /\ MaxPatient \in Nat /\ MaxCrashes \in Nat /\ MaxQueue \in Nat

VARIABLES
  cache,       \* the entities known to the mapper, and the map of their external ids
  cpend,       \* the pending entity store of the mapper
  cloud,       \* the parent with which each entity has been created in the cloud
  work,        \* the registered entities the mapper has still to convert, with their early data
  mapper,      \* "up", or "panicked"
  shared,      \* history: the external ids two entities have had at the same time
  retained,    \* the retained messages of the broker
  toAgent,     \* the messages received by the broker and not processed by the agent
  toMapper,    \* and by the mapper
  eager,       \* whether the users may send a request before the previous one is processed
  requests,    \* number of requests so far
  crashes      \* number of crashes so far

cacheVars == <<cache, cpend, cloud, work, mapper, shared>>
brokerVars == <<retained, toAgent, toMapper>>
vars == <<storeVars, cacheVars, brokerVars, eager, requests, crashes>>

------------------------------------------------------------------------------
(* The entity cache of the mapper. An external id which is not given is        *)
(* derived from the topic, and stands for it here.                             *)

\* EntityCache::new
NewCacheTable ==
  [entities |-> [t \in Topics |-> IF t = Main
     THEN [type |-> "device", parent |-> None, id |-> Main, twin |-> FALSE] ELSE None],
   ids |-> [x \in Ids \cup Topics |-> IF x = Main THEN Main ELSE None]]

Cached(c) == {t \in Topics : c.entities[t] # None}

ExternalId(r) == IF r.id = None THEN r.topic ELSE r.id

\* register_single_entity and insert; a former external id stays in the map.
CacheEntity(c, r) ==
  [Merged(c, r) EXCEPT !.id = ExternalId(r)]

RegisterSingle_NewOnly(c, r) ==
  [entities |-> [c.entities EXCEPT ![r.topic] = CacheEntity(c, r)],
   ids      |-> IF c.entities[r.topic] = None
                THEN [c.ids EXCEPT ![ExternalId(r)] = r.topic] ELSE c.ids]

RegisterSingle(c, r) ==
  [entities |-> [c.entities EXCEPT ![r.topic] = CacheEntity(c, r)],
   ids      |-> [c.ids EXCEPT ![ExternalId(r)] = r.topic]]

Rejected(r) == r.id \in InvalidIds

\* take_cached_child_entities_data, run to its end.
TakeAll[s \in [stack: Seq(Topics), out: Seq([reg: Registration \cup {None}, data: Seq(Message)]),
               pend: [orphans: [Topics -> Seq(Topics)],
                      entities: [Topics -> {None} \cup
                                   [reg: Registration \cup {None}, data: Seq(Message)]]]]] ==
  IF s.stack = <<>> \/ TakePanics(s) THEN s ELSE TakeAll[TakeOne(s)]

\* The pending entities are registered up to the first one with a rejected id.
RegisterSeveral(c, batch) ==
  LET bad == SelectInSeq(batch, LAMBDA e : Rejected(e.reg))
      ok  == IF bad = 0 THEN batch ELSE SubSeq(batch, 1, bad - 1)
  IN  FoldLeft(LAMBDA a, e : RegisterSingle(a, e.reg), c, ok)

\* parent_external_id expects the parent of a cached entity to be cached.
ParentCached(c, t) ==
  c.entities[t].parent = None \/ c.entities[t].parent \in Cached(c)

\* A data message of a cached entity. The health status of an entity is
\* published along the one of its parent.
ConvertData(c, m) == IF m.kind = "twin" THEN SetTwin(c, m.topic, m.on) ELSE c
ConvertPanics(c, t) == ~ParentCached(c, t)

\* register_entity: what is to be converted, the entity before the children which
\* were awaiting it.
RegisteredEntities_OwnLast(own, children) == Append(children, own)

RegisteredEntities(own, children) == <<own>> \o children

\* The parent register_entity looks for, whatever the default one of a service.
ExpectedParent(r) == IF r.parent = None THEN Main ELSE r.parent

\* The other entities which have the external id given to an entity.
Sharing(c, r) ==
  IF \E t \in Cached(c) \ {r.topic} : c.entities[t].id = ExternalId(r) THEN {ExternalId(r)} ELSE {}

\* try_register_source_entities, for a registration.
MapRegistration(r) ==
  LET own    == [reg |-> r, data |-> CachedData(cpend, r.topic)]
      taken  == TakeAll[TakeStart(WithoutEntity(cpend, r.topic), r.topic)]
      mine   == RegisterSingle(cache, r)
      after  == RegisterSeveral(mine, taken.out)
  IN  IF ExpectedParent(r) \notin Cached(cache)
      THEN /\ mapper' = IF r.parent = None THEN "panicked" ELSE "up"
           /\ cpend' = IF r.parent = None THEN cpend ELSE CacheRegistration(cpend, r)
           /\ UNCHANGED <<cache, cloud, work, shared>>
      ELSE IF Rejected(r) THEN UNCHANGED cacheVars
      ELSE /\ shared' = shared \cup Sharing(cache, r)
                           \cup UNION {Sharing(after, taken.out[i].reg) : i \in DOMAIN taken.out}
           /\ cloud' = cloud
           /\ IF cache.entities[r.topic] = CacheEntity(cache, r)
              THEN cache' = mine /\ UNCHANGED <<cpend, work, mapper>>
              ELSE IF taken.stack # <<>>
              THEN mapper' = "panicked" /\ UNCHANGED <<cache, cpend, work>>
              ELSE /\ cpend' = taken.pend /\ cache' = after /\ mapper' = "up"
                   /\ work' = IF \E i \in DOMAIN taken.out : Rejected(taken.out[i].reg)
                              THEN work ELSE RegisteredEntities(own, taken.out)

\* delete: the children and the pending registrations are left unchanged.
MapClear(t) ==
  /\ cache' = IF t \in Cached(cache)
              THEN [entities |-> [cache.entities EXCEPT ![t] = None],
                    ids |-> [cache.ids EXCEPT ![cache.entities[t].id] = None]]
              ELSE cache
  /\ UNCHANGED <<cpend, cloud, work, mapper, shared>>

\* try_register_source_entities and try_convert_data_message, for data.
MapData(m) ==
  IF m.topic \notin Cached(cache)
  THEN cpend' = CacheData(cpend, m) /\ UNCHANGED <<cache, cloud, work, mapper, shared>>
  ELSE /\ cache' = ConvertData(cache, m)
       /\ mapper' = IF m.kind = "health" /\ ConvertPanics(cache, m.topic) THEN "panicked" ELSE "up"
       /\ UNCHANGED <<cpend, cloud, work, shared>>

------------------------------------------------------------------------------
(* The broker.                                                                 *)

SameTopic(m, n) == m.topic = n.topic /\ ((m.kind \in DataKinds \/ n.kind \in DataKinds) => m.kind = n.kind)

\* All these messages are published as retained.
Publish(m) ==
  /\ retained' = {n \in retained : ~SameTopic(m, n)} \cup (IF m.kind = "clear" THEN {} ELSE {m})
  /\ toAgent' = Append(toAgent, m)
  /\ toMapper' = Append(toMapper, m)

\* A message of the agent reaches the broker.
AgentPublishes ==
  /\ outbox # <<>> /\ Len(toAgent) < MaxQueue /\ Len(toMapper) < MaxQueue
  /\ Publish(Head(outbox))
  /\ outbox' = Tail(outbox)
  /\ UNCHANGED <<tree, pend, disk, job, agent, cacheVars, eager, requests, crashes>>

------------------------------------------------------------------------------
(* The users, over MQTT and over HTTP.                                         *)

AgentAtRest == agent = "up" /\ job = NoJob /\ toAgent = <<>> /\ outbox = <<>>
MapperAtRest == mapper = "up" /\ toMapper = <<>> /\ work = <<>>

MayHappen == requests + crashes < (IF eager THEN MaxEager ELSE MaxPatient)

MayRequest(kind, t) ==
  /\ kind \in Requests /\ MayHappen
  /\ eager \/ (<<kind, t>> \in PatientRequests /\ AgentAtRest /\ MapperAtRest)

UserPublishes(kind, m) ==
  /\ MayRequest(kind, m.topic)
  /\ Publish(m)
  /\ requests' = requests + 1
  /\ UNCHANGED <<storeVars, cacheVars, eager, crashes>>

UserCalls(kind, t, handler) ==
  /\ MayRequest(kind, t)
  /\ handler
  /\ requests' = requests + 1
  /\ UNCHANGED <<cacheVars, brokerVars, eager, crashes>>

UserRegisters == \E r \in Registrations : UserPublishes("register", RegMsg(r))
UserClears == \E t \in Cleared : UserPublishes("clear", ClearMsg(t))
UserReports == \E t \in Reporting : UserPublishes("health", HealthMsg(t))
UserCreates == \E r \in Registrations : UserCalls("create", r.topic, HandleCreate(r))
UserDeletes == \E t \in Cleared : UserCalls("delete", t, HandleDeregister(t))
UserPatches ==
  \E r \in Registrations, on \in BOOLEAN :
    UserCalls("patch", r.topic, HandlePatch(r.topic, on))

------------------------------------------------------------------------------
(* The two processes.                                                          *)

AgentReceives ==
  /\ toAgent # <<>>
  /\ HandleMessage(Head(toAgent))
  /\ toAgent' = Tail(toAgent)
  /\ UNCHANGED <<cacheVars, retained, toMapper, eager, requests, crashes>>

AgentSteps ==
  /\ StoreStep
  /\ UNCHANGED <<cacheVars, brokerVars, eager, requests, crashes>>

MapperReceives ==
  /\ mapper = "up" /\ work = <<>> /\ toMapper # <<>>
  /\ LET m == Head(toMapper)
     IN  \/ m.kind = "reg" /\ MapRegistration(m.reg)
         \/ m.kind = "clear" /\ MapClear(m.topic)
         \/ m.kind \in DataKinds /\ MapData(m)
  /\ toMapper' = Tail(toMapper)
  /\ UNCHANGED <<storeVars, retained, toAgent, eager, requests, crashes>>

\* try_convert_entity_registration: but for the main device, the entity is created in
\* the cloud as a child of its parent.
Created(t) ==
  LET p == cache.entities[t].parent IN IF p = None THEN cloud ELSE [cloud EXCEPT ![t] = p]

\* process_registered_entities, for one entity: its registration is converted, and
\* then the data received before it.
MapperConverts ==
  /\ mapper = "up" /\ work # <<>>
  /\ LET e == Head(work)
     IN  IF ConvertPanics(cache, e.reg.topic)
         THEN mapper' = "panicked" /\ work' = <<>> /\ UNCHANGED <<cache, cloud>>
         ELSE /\ cloud' = Created(e.reg.topic)
              /\ cache' = FoldLeft(ConvertData, cache, e.data)
              /\ work' = Tail(work) /\ mapper' = mapper
  /\ UNCHANGED <<storeVars, cpend, shared, brokerVars, eager, requests, crashes>>

\* The messages already acknowledged to the broker are lost with the process.
Resumed(queue) ==
  {SubSeq(queue, k + 1, Len(queue)) \o f : k \in 0..Len(queue), f \in SetToSeqs(retained)}

AgentRestarts ==
  /\ MayHappen /\ crashes < MaxCrashes
  /\ StoreRestart
  /\ toAgent' \in Resumed(toAgent)
  /\ crashes' = crashes + 1
  /\ UNCHANGED <<cacheVars, retained, toMapper, eager, requests>>

MapperRestarts ==
  /\ MayHappen /\ crashes < MaxCrashes
  /\ cache' = NewCacheTable /\ cpend' = NoPending /\ work' = <<>> /\ mapper' = "up"
  /\ shared' = {}
  /\ toMapper' \in Resumed(toMapper)
  /\ crashes' = crashes + 1
  /\ UNCHANGED <<cloud, storeVars, retained, toAgent, eager, requests>>

Init ==
  /\ StoreInit
  /\ cache = NewCacheTable /\ cpend = NoPending /\ work = <<>> /\ mapper = "up"
  /\ shared = {}
  /\ cloud = [t \in Topics |-> IF t = Main THEN Main ELSE None]
  /\ retained = {} /\ toAgent = <<>> /\ toMapper = <<>>
  /\ eager \in BOOLEAN /\ requests = 0 /\ crashes = 0

Next ==
  \/ UserRegisters \/ UserClears \/ UserReports \/ UserCreates \/ UserDeletes \/ UserPatches
  \/ AgentPublishes \/ AgentReceives \/ AgentSteps \/ MapperReceives \/ MapperConverts
  \/ AgentRestarts \/ MapperRestarts

Spec == Init /\ [][Next]_vars

------------------------------------------------------------------------------
(* Properties.                                                                 *)

PendingEntry == [reg: Registration \cup {None}, data: Seq(Message)]

\* The store and the cache keep well-formed entities and pending entries.
TypeOK ==
  /\ tree \in [entities: [Topics -> Entity \cup {None}], children: [Topics -> SUBSET Topics]]
  /\ disk \in [entities: [Topics -> Entity \cup {None}], children: [Topics -> SUBSET Topics]]
  /\ pend.orphans \in [Topics -> Seq(Topics)]
  /\ pend.entities \in [Topics -> PendingEntry \cup {None}]
  /\ cpend.entities \in [Topics -> PendingEntry \cup {None}]
  /\ work \in Seq(PendingEntry) /\ shared \subseteq Ids \cup Topics
  /\ agent \in {"up", "panicked"} /\ mapper \in {"up", "panicked"}

\* A registration pending in the agent awaits a parent which is not registered:
\* registering an entity registers everything which was awaiting it, children of
\* children included (update and take_cached_child_entities_data).
PendingAwaitsParent ==
  job = NoJob => \A t \in Topics :
    (pend.entities[t] # None /\ pend.entities[t].reg # None)
      => ParentFor(pend.entities[t].reg) \notin Registered(tree)

\* Whatever the order of the messages and the restarts, an agent at rest has
\* registered each entity the broker retains, or keeps its registration pending.
NothingLost ==
  AgentAtRest => \A m \in retained :
    m.kind = "reg" => m.topic \in Registered(tree) \/ pend.entities[m.topic] # None

\* The replay of the message log gives back each registered entity, with its
\* latest type, parent and identifier (register_and_persist_entity).
ReplayCovers ==
  \A t \in Registered(tree) \ {Main} :
    /\ disk.entities[t] # None
    /\ [disk.entities[t] EXCEPT !.twin = tree.entities[t].twin] = tree.entities[t]

\* The agent forgets no entity: what is not registered is pending, what is pending
\* awaits its parent, and what is registered survives a restart.
NoneForgotten == PendingAwaitsParent /\ NothingLost /\ ReplayCovers

\* The registrations the agent may receive, those it makes by itself included.
Given ==
  {r \in Registration :
     \/ r \in Registrations
     \/ \E t \in AutoTopics : \E i \in DOMAIN AutoRegistrations(t) : AutoRegistrations(t)[i] = r}

\* Each entity has one parent, always given.
OneParent ==
  /\ \A r \in Given : r.parent # None /\ r.type # "device"
  /\ \A r, s \in Given : r.topic = s.topic => r.parent = s.parent

\* When each request is processed before the next one, the agent never panics and,
\* as long as no process has been restarted, neither does the mapper, whose cache
\* mirrors the entities of the agent
\* ("a mirror of the same entity in the entity store maintained by the agent").
\* A restart of the agent among the messages of a deregistration makes the mapper
\* panic, although parent_external_id expects that "For every registered entity, its
\* parent is also guaranteed to be registered".
Mirrored ==
  ~eager =>
    /\ agent = "up"
    /\ crashes = 0 => mapper = "up"
    /\ (crashes = 0 /\ AgentAtRest /\ MapperAtRest) =>
         /\ Cached(cache) = Registered(tree)
         /\ \A t \in Cached(cache) : cache.entities[t].parent = tree.entities[t].parent

\* An entity is created in the cloud after its parent, wherever the mapper stops
\* among the entities registered by one message, and over all its restarts
\* (process_registered_entities).
CreatedParentFirst == \A t \in Topics : cloud[t] # None => cloud[cloud[t]] # None

\* No data stays cached once its source is registered (take_cached_entity_data).
EarlyDataFlushed == \A t \in Cached(cache) : CachedData(cpend, t) = <<>>

\* An operation of the cloud finds its target by its external id, even after this
\* id has been changed, or given up by another entity; unless another one has been
\* given the same id while the target had it (insert and delete of the cache). The
\* former id of an entity may still lead to it.
FoundById ==
  \A t \in Cached(cache) :
    LET x == cache.entities[t].id IN x \notin shared => cache.ids[x] = t

\* The indexes of the cache of the mapper follow its entities: no early data is
\* left behind by a registration, and no entity is hidden by the past of its id.
CacheSound == EarlyDataFlushed /\ FoundById

=============================================================================
