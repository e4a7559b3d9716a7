-------------------------- MODULE EntityMirrorProofs --------------------------
(* For any entities, registrations, restarts and order of the messages: the     *)
(* parent of a registered entity is registered and has it as a child, in the    *)
(* tree of the agent as in the one its message log is replayed to. When each    *)
(* entity has one parent, none is forgotten.                                    *)
EXTENDS EntityMirror, SelectionTheorems

Trees == [entities : [Topics -> Entity \cup {None}], children : [Topics -> SUBSET Topics]]

\* The parents of the entities of a tree are in it.
Rooted(tr) ==
  \A t \in Registered(tr) :
    LET p == tr.entities[t].parent
    IN  p # None => p \in Registered(tr) /\ t \in tr.children[p]

Good(tr) == tr \in Trees /\ Rooted(tr) /\ IsFiniteSet(Registered(tr))

\* A pending entry taken by take_cached_child_entities_data has a registration.
Taken == [reg : Registration, data : Seq(Message)]
Entry == [reg : Registration \cup {None}, data : Seq(Message)]

Purposes == {"none", "mqtt", "http", "auto"}

Jobs == [for : Purposes, auto : Seq(Registration), stack : Seq(Topics), batch : Seq(Taken),
         announce : Seq(Message)]

Pends == [orphans : [Topics -> Seq(Topics)], entities : [Topics -> Entry \cup {None}]]

\* What is about to be registered is a registration.
StoreInv == Good(tree) /\ Good(disk) /\ pend \in Pends /\ job \in Jobs /\ outbox \in Seq(Message)

QueueInv == toAgent \in Seq(Message) /\ retained \subseteq Message /\ IsFiniteSet(retained)

IndInv == StoreInv /\ QueueInv

------------------------------------------------------------------------------
(* The trees.                                                                  *)

LEMMA ParentTyped ==
  ASSUME NEW r \in Registration
  PROVE  ParentFor(r) \in Topics \cup {None} /\ r.topic \in Topics
BY EntityAssumption DEF Registration, ParentFor

LEMMA NewTreeGood == Good(NewTree)
<1>1. [type |-> "device", parent |-> None, id |-> None, twin |-> FALSE] \in Entity
  BY DEF Entity, Types
<1>2. NewTree \in Trees
  BY <1>1 DEF NewTree, Trees
<1>3. Registered(NewTree) = {Main} /\ NewTree.entities[Main].parent = None
  <2>1. [type |-> "device", parent |-> None, id |-> None, twin |-> FALSE] # None
    BY <1>1, EntityAssumption
  <2> QED
    BY <2>1, EntityAssumption DEF NewTree, Registered
<1>4. Rooted(NewTree)
  BY <1>3 DEF Rooted
<1> QED
  BY <1>2, <1>3, <1>4, FS_Singleton DEF Good

LEMMA EntitiesTyped ==
  ASSUME NEW tr \in Trees, NEW t \in Registered(tr)
  PROVE  t \in Topics /\ tr.entities[t] \in Entity
BY DEF Trees, Registered

\* Inserting an entity, then below a registered parent.
LEMMA InsertedContents ==
  ASSUME NEW tr, Good(tr), NEW r \in Registration
  PROVE  LET new == InsertEntity(tr, r)
             e   == Merged(tr, r)
             p   == ParentFor(r)
         IN  /\ p \in Topics \cup {None} /\ r.topic \in Topics
             /\ e \in Entity /\ e.parent = p
             /\ DOMAIN tr.entities = Topics
             /\ new.entities = [tr.entities EXCEPT ![r.topic] = e]
             /\ \A t \in Topics :
                  new.children[t] = tr.children[t] \cup (IF t = p THEN {r.topic} ELSE {})
             /\ new \in Trees
             /\ Registered(new) = Registered(tr) \cup {r.topic}
<1> DEFINE new == InsertEntity(tr, r)
           e   == Merged(tr, r)
           p   == ParentFor(r)
<1>1. p \in Topics \cup {None} /\ r.topic \in Topics
  BY ParentTyped
<1>2. e \in Entity /\ e.parent = p
  <2>1. tr.entities[r.topic] \in Entity \cup {None}
    BY <1>1 DEF Good, Trees
  <2>2. tr.entities[r.topic] # None => tr.entities[r.topic].twin \in BOOLEAN
    BY <2>1 DEF Entity
  <2>3. (r.twin \/ (tr.entities[r.topic] # None /\ tr.entities[r.topic].twin)) \in BOOLEAN
    BY <2>2 DEF Registration
  <2>4. r.type \in Types /\ r.id \in Ids \cup {None}
    BY DEF Registration
  <2> QED
    BY <1>1, <2>3, <2>4 DEF Merged, Entity
<1>3. e # None
  BY <1>2, EntityAssumption
<1>4. /\ DOMAIN tr.entities = Topics
      /\ new.entities = [tr.entities EXCEPT ![r.topic] = e]
      /\ \A t \in Topics :
           new.children[t] = tr.children[t] \cup (IF t = p THEN {r.topic} ELSE {})
  BY DEF InsertEntity, Good, Trees
<1>5. new \in Trees
  BY <1>1, <1>2 DEF InsertEntity, Good, Trees
<1>6. Registered(new) = Registered(tr) \cup {r.topic}
  BY <1>1, <1>3, <1>4 DEF Registered
<1> QED
  BY <1>1, <1>2, <1>4, <1>5, <1>6

LEMMA InsertedGood ==
  ASSUME NEW tr, Good(tr), NEW r \in Registration, HasParent(tr, r)
  PROVE  Good(InsertEntity(tr, r))
<1> DEFINE new == InsertEntity(tr, r)
           e   == Merged(tr, r)
           p   == ParentFor(r)
<1>1. p \in Topics \cup {None} /\ r.topic \in Topics
  BY ParentTyped
<1>2. e \in Entity /\ e.parent = p
  BY InsertedContents
<1>3. /\ DOMAIN tr.entities = Topics
      /\ new.entities = [tr.entities EXCEPT ![r.topic] = e]
      /\ \A t \in Topics :
           new.children[t] = tr.children[t] \cup (IF t = p THEN {r.topic} ELSE {})
  BY InsertedContents
<1>4. new \in Trees
  BY InsertedContents
<1>5. Registered(new) = Registered(tr) \cup {r.topic}
  BY InsertedContents
<1>6. Rooted(new)
  <2> SUFFICES ASSUME NEW t \in Registered(new), new.entities[t].parent # None
               PROVE  /\ new.entities[t].parent \in Registered(new)
                      /\ t \in new.children[new.entities[t].parent]
    BY DEF Rooted
  <2>1. CASE t = r.topic
    <3>1. new.entities[t].parent = p
      BY <1>1, <1>2, <1>3, <2>1
    <3>2. p \in Registered(tr)
      BY <3>1 DEF HasParent
    <3> QED
      BY <1>3, <1>5, <2>1, <3>1, <3>2 DEF Registered
  <2>2. CASE t # r.topic
    <3>1. t \in Registered(tr) /\ new.entities[t] = tr.entities[t]
      BY <1>1, <1>3, <1>5, <2>2 DEF Registered
    <3>2. tr.entities[t].parent \in Registered(tr) /\ t \in tr.children[tr.entities[t].parent]
      BY <3>1 DEF Good, Rooted
    <3> QED
      BY <1>3, <1>5, <3>1, <3>2 DEF Registered
  <2> QED
    BY <2>1, <2>2
<1>7. IsFiniteSet(Registered(new))
  BY <1>5, FS_AddElement DEF Good
<1> QED
  BY <1>4, <1>6, <1>7 DEF Good

LEMMA ReplayedGood ==
  ASSUME NEW tr, Good(tr), NEW r \in Registration
  PROVE  Good(ReplayReg(tr, r))
BY InsertedGood DEF ReplayReg

\* A removed entity takes its children with it: no orphan is left.
LEMMA RemovedGood ==
  ASSUME NEW tr, Good(tr), NEW t \in Topics
  PROVE  Good(RemoveEntity(tr, t))
<1> DEFINE R   == Removed(tr, t)
           new == RemoveEntity(tr, t)
<1>1. /\ \A x \in Topics : new.entities[x] = IF x \in R THEN None ELSE tr.entities[x]
      /\ \A x \in Topics : new.children[x] = IF x \in R THEN {} ELSE tr.children[x]
  BY DEF RemoveEntity
<1>2. new \in Trees
  BY DEF RemoveEntity, Good, Trees
<1>3. Registered(new) = Registered(tr) \ R
  BY <1>1 DEF Registered
<1>4. ASSUME NEW x \in Registered(tr), NEW y \in R, x \in tr.children[y] PROVE x \in R
  <2>1. ASSUME NEW S \in SUBSET Topics, t \in S, Closed(tr, S) PROVE x \in S
    <3>1. y \in S
      BY <2>1 DEF Removed
    <3> QED
      BY <1>4, <2>1, <3>1 DEF Closed
  <2> QED
    BY <2>1 DEF Removed
<1>5. Rooted(new)
  <2> SUFFICES ASSUME NEW x \in Registered(new), new.entities[x].parent # None
               PROVE  /\ new.entities[x].parent \in Registered(new)
                      /\ x \in new.children[new.entities[x].parent]
    BY DEF Rooted
  <2>1. x \in Registered(tr) /\ x \notin R /\ new.entities[x] = tr.entities[x]
    BY <1>1, <1>3 DEF Registered
  <2> DEFINE p == tr.entities[x].parent
  <2>2. p \in Registered(tr) /\ x \in tr.children[p]
    BY <2>1 DEF Good, Rooted
  <2>3. p \notin R
    BY <1>4, <2>1, <2>2
  <2> QED
    BY <1>1, <1>3, <2>1, <2>2, <2>3 DEF Registered
<1>6. IsFiniteSet(Registered(new))
  BY <1>3, FS_Subset DEF Good
<1> QED
  BY <1>2, <1>5, <1>6 DEF Good

LEMMA TwinnedGood ==
  ASSUME NEW tr, Good(tr), NEW t \in Topics, t \in Registered(tr), NEW on \in BOOLEAN
  PROVE  Good(SetTwin(tr, t, on))
<1> DEFINE new == SetTwin(tr, t, on)
           e   == [tr.entities[t] EXCEPT !.twin = on]
<1>1. tr \in Trees /\ tr.entities[t] \in Entity
  BY EntitiesTyped DEF Good
<1>2. e \in Entity /\ e.parent = tr.entities[t].parent
  BY <1>1 DEF Entity
<1>3. new.entities = [tr.entities EXCEPT ![t] = e] /\ new.children = tr.children /\ new \in Trees
  BY <1>1, <1>2 DEF SetTwin, Trees
<1>4. /\ DOMAIN tr.entities = Topics /\ new.entities[t] = e
      /\ \A x \in Topics : x # t => new.entities[x] = tr.entities[x]
  BY <1>1, <1>3 DEF Trees
<1>5. Registered(new) = Registered(tr)
  BY <1>2, <1>4, EntityAssumption DEF Registered
<1>6. \A x \in Registered(tr) : new.entities[x].parent = tr.entities[x].parent
  BY <1>2, <1>4 DEF Registered
<1>7. Rooted(new)
  BY <1>3, <1>5, <1>6 DEF Rooted, Good
<1> QED
  BY <1>3, <1>5, <1>7 DEF Good

LEMMA TwinReplayedGood ==
  ASSUME NEW tr, Good(tr), NEW t \in Topics, NEW on \in BOOLEAN
  PROVE  Good(ReplayTwin(tr, t, on))
BY TwinnedGood DEF ReplayTwin

------------------------------------------------------------------------------
(* The pending entities and the messages.                                      *)

LEMMA MessagesTyped ==
  /\ \A r \in Registration : RegMsg(r) \in Message
  /\ \A t \in Topics : ClearMsg(t) \in Message /\ HealthMsg(t) \in Message
  /\ \A t \in Topics, on \in BOOLEAN : TwinMsg(t, on) \in Message
BY DEF Message

\* What a handler finds in a message.
LEMMA MessageContents ==
  ASSUME NEW m \in Message
  PROVE  m.topic \in Topics /\ (m.kind = "reg" => m.reg \in Registration)
<1>1. CASE m \in {RegMsg(r) : r \in Registration}
  BY <1>1 DEF RegMsg, Registration
<1>2. CASE m \in {ClearMsg(t) : t \in Topics}
  BY <1>2 DEF ClearMsg
<1>3. CASE m \in {TwinMsg(t, on) : t \in Topics, on \in BOOLEAN}
  BY <1>3 DEF TwinMsg
<1>4. CASE m \in {HealthMsg(t) : t \in Topics}
  BY <1>4 DEF HealthMsg
<1> QED
  BY <1>1, <1>2, <1>3, <1>4 DEF Message

LEMMA TwinOfTyped ==
  ASSUME NEW r \in Registration
  PROVE  TwinOf(r) \in Seq(Message)
<1>1. TwinMsg(r.topic, TRUE) \in Message
  BY MessagesTyped, ParentTyped
<1>2. \A m \in Message : <<m>> \in Seq(Message)
  OBVIOUS
<1>3. <<>> \in Seq(Message)
  BY EmptySeq
<1> QED
  BY <1>1, <1>2, <1>3, Zenon DEF TwinOf

LEMMA AutoTyped ==
  ASSUME NEW t \in Topics
  PROVE  AutoRegistrations(t) \in Seq(Registration)
<1>1. ASSUME NEW x \in Topics, NEW ty \in Types, NEW p \in Topics \cup {None}
      PROVE  [topic |-> x, type |-> ty, parent |-> p, id |-> None, twin |-> TRUE] \in Registration
  BY DEF Registration
<1>2. ASSUME NEW x \in Topics PROVE AutoDevice(x) \in Seq(Registration)
  <2>1. [topic |-> x, type |-> "child-device", parent |-> Main, id |-> None, twin |-> TRUE]
          \in Registration
    BY <1>1, EntityAssumption DEF Types
  <2> QED
    BY <2>1 DEF AutoDevice
<1>3. DefaultParent[t] \in Topics \cup {None}
  BY EntityAssumption
<1>4. CASE DefaultParent[t] # None
  <2>1. [topic |-> t, type |-> "service", parent |-> DefaultParent[t], id |-> None, twin |-> TRUE]
          \in Registration
    BY <1>1, <1>3 DEF Types
  <2> QED
    BY <1>2, <1>3, <1>4, <2>1 DEF AutoRegistrations
<1> QED
  BY <1>2, <1>4 DEF AutoRegistrations

LEMMA NoPendingTyped == NoPending \in Pends
BY DEF NoPending, Pends

LEMMA CacheTyped ==
  ASSUME NEW pd \in Pends, NEW r \in Registration, r.parent # None
  PROVE  CacheRegistration(pd, r) \in Pends
<1>1. r.topic \in Topics /\ r.parent \in Topics
  BY DEF Registration
<1>2. CacheOf(pd, r.topic) \in Entry
  BY <1>1 DEF CacheOf, NewCache, Pends, Entry
<1>3. [CacheOf(pd, r.topic) EXCEPT !.reg = r] \in Entry
  BY <1>2 DEF Entry
<1>4. Append(pd.orphans[r.parent], r.topic) \in Seq(Topics)
  BY <1>1 DEF Pends
<1> QED
  BY <1>1, <1>3, <1>4 DEF CacheRegistration, Pends

LEMMA WithoutTyped ==
  ASSUME NEW pd \in Pends, NEW t \in Topics
  PROVE  WithoutEntity(pd, t) \in Pends
BY DEF WithoutEntity, Pends

LEMMA EmptiedTyped ==
  ASSUME NEW pd \in Pends, NEW t \in Topics
  PROVE  [pd EXCEPT !.orphans[t] = <<>>] \in Pends
<1>1. <<>> \in Seq(Topics)
  BY EmptySeq
<1>2. [pd.orphans EXCEPT ![t] = <<>>] \in [Topics -> Seq(Topics)]
  BY <1>1 DEF Pends
<1>3. [pd EXCEPT !.orphans = [pd.orphans EXCEPT ![t] = <<>>]] \in Pends
  BY <1>2 DEF Pends
<1>4. [pd EXCEPT !.orphans[t] = <<>>] = [pd EXCEPT !.orphans = [pd.orphans EXCEPT ![t] = <<>>]]
  OBVIOUS
<1> QED
  BY <1>3, <1>4

LEMMA StartTyped ==
  ASSUME NEW pd \in Pends, NEW t \in Topics
  PROVE  TakeStart(pd, t).pend \in Pends /\ TakeStart(pd, t).stack \in Seq(Topics)
<1>1. pd.orphans[t] \in Seq(Topics)
  BY DEF Pends
<1> QED
  BY <1>1, EmptiedTyped DEF TakeStart

LEMMA TakeTyped ==
  ASSUME NEW pd \in Pends, NEW st \in Seq(Topics), st # <<>>, NEW out \in Seq(Taken),
         ~TakePanics([stack |-> st, out |-> out, pend |-> pd])
  PROVE  LET s == TakeOne([stack |-> st, out |-> out, pend |-> pd])
         IN  s.pend \in Pends /\ s.stack \in Seq(Topics) /\ s.out \in Seq(Taken)
<1> DEFINE c == Head(st)
           s == TakeOne([stack |-> st, out |-> out, pend |-> pd])
<1>1. c \in Topics /\ Tail(st) \in Seq(Topics)
  BY HeadTailProperties
<1>2. pd.entities[c] \in Entry \cup {None} /\ pd.orphans[c] \in Seq(Topics)
  BY <1>1 DEF Pends
<1>3. CASE pd.entities[c] = None
  BY <1>1, <1>3 DEF TakeOne
<1>4. CASE pd.entities[c] # None
  <2>1. pd.entities[c] \in Taken
    BY <1>2, <1>4 DEF TakePanics, Entry, Taken
  <2>2. Append(out, pd.entities[c]) \in Seq(Taken) /\ pd.orphans[c] \o Tail(st) \in Seq(Topics)
    BY <1>1, <1>2, <2>1
  <2>3. WithoutEntity(pd, c) \in Pends
    BY <1>1, WithoutTyped
  <2>4. [WithoutEntity(pd, c) EXCEPT !.orphans[c] = <<>>] \in Pends
    BY <1>1, <2>3, EmptiedTyped
  <2>5. /\ s.stack = pd.orphans[c] \o Tail(st)
        /\ s.out = Append(out, pd.entities[c])
        /\ s.pend = [WithoutEntity(pd, c) EXCEPT !.orphans[c] = <<>>]
    BY <1>4 DEF TakeOne
  <2> QED
    BY <2>2, <2>4, <2>5
<1> QED
  BY <1>3, <1>4

------------------------------------------------------------------------------
(* The handlers of the store.                                                  *)

LEMMA NoJobTyped ==
  /\ NoJob \in Jobs
  /\ \A f \in Purposes : [NoJob EXCEPT !.for = f] \in Jobs
  /\ \A f \in Purposes, a \in Seq(Registration) : [NoJob EXCEPT !.for = f, !.auto = a] \in Jobs
<1>1. /\ <<>> \in Seq(Registration) /\ <<>> \in Seq(Topics) /\ <<>> \in Seq(Taken)
      /\ <<>> \in Seq(Message)
  BY EmptySeq
<1>2. NoJob \in Jobs
  BY <1>1 DEF NoJob, Jobs, Purposes
<1> QED
  BY <1>2 DEF Jobs

LEMMA PanicKeeps ==
  ASSUME StoreInv, Panic
  PROVE  StoreInv'
BY NoJobTyped DEF StoreInv, Panic, Good, Trees, Rooted, Registered

LEMMA PersistKeeps ==
  ASSUME Good(tree), Good(disk), NEW r \in Registration, HasParent(tree, r), RegisterAndPersist(r)
  PROVE  Good(tree)' /\ Good(disk)'
<1>1. Good(InsertEntity(tree, r))
  BY InsertedGood
<1>2. Good(IF Affects(tree, r) THEN ReplayReg(disk, r) ELSE disk)
  BY ReplayedGood
<1>3. Good(tree')
  BY <1>1 DEF RegisterAndPersist
<1>4. Good(disk')
  BY <1>2 DEF RegisterAndPersist
<1> QED
  BY <1>3, <1>4 DEF Good, Rooted, Registered, Trees

LEMMA UpdateKeeps ==
  ASSUME StoreInv, NEW r \in Registration, NEW j \in Jobs, NEW said \in Seq(Message),
         Update(r, j, said)
  PROVE  StoreInv'
<1>1. CASE Panic
  BY <1>1, PanicKeeps
<1>2. CASE /\ ~HasParent(tree, r) /\ r.parent # None
           /\ pend' = CacheRegistration(pend, r)
           /\ job' = j
           /\ UNCHANGED <<tree, disk, outbox, agent>>
  <2>1. pend' \in Pends
    BY <1>2, CacheTyped DEF StoreInv
  <2> QED
    BY <1>2, <2>1 DEF StoreInv, Good, Rooted, Registered
<1>3. CASE /\ HasParent(tree, r)
           /\ RegisterAndPersist(r)
           /\ IF Affects(tree, r)
              THEN LET s == TakeStart(WithoutEntity(pend, r.topic), r.topic)
                   IN  /\ pend' = s.pend
                       /\ job' = [j EXCEPT !.stack = s.stack, !.announce = @ \o said]
              ELSE job' = j /\ UNCHANGED pend
           /\ UNCHANGED <<outbox, agent>>
  <2>1. Good(tree)' /\ Good(disk)'
    BY <1>3, PersistKeeps DEF StoreInv
  <2>2. pend' \in Pends /\ job' \in Jobs
    <3>1. CASE Affects(tree, r)
      <4> DEFINE s == TakeStart(WithoutEntity(pend, r.topic), r.topic)
      <4>1. s.pend \in Pends /\ s.stack \in Seq(Topics)
        BY ParentTyped, WithoutTyped, StartTyped DEF StoreInv
      <4>2. pend' = s.pend /\ job' = [j EXCEPT !.stack = s.stack, !.announce = @ \o said]
        BY <1>3, <3>1
      <4> HIDE DEF s
      <4>3. j.announce \o said \in Seq(Message)
        BY DEF Jobs
      <4>4. job' \in Jobs
        BY <4>1, <4>2, <4>3 DEF Jobs
      <4> QED
        BY <4>1, <4>2, <4>4
    <3>2. CASE ~Affects(tree, r)
      BY <1>3, <3>2 DEF StoreInv
    <3> QED
      BY <3>1, <3>2
  <2> QED
    BY <1>3, <2>1, <2>2 DEF StoreInv
<1> QED
  BY <1>1, <1>2, <1>3 DEF Update

LEMMA RegistrationKeeps ==
  ASSUME StoreInv, NEW r \in Registration, HandleRegistration(r)
  PROVE  StoreInv'
<1>1. [NoJob EXCEPT !.for = "mqtt"] \in Jobs /\ TwinOf(r) \in Seq(Message)
  BY TwinOfTyped, NoJobTyped DEF Purposes
<1>2. Update(r, [NoJob EXCEPT !.for = "mqtt"], TwinOf(r))
  BY DEF HandleRegistration
<1> QED
  BY <1>1, <1>2, UpdateKeeps

LEMMA CreateKeeps ==
  ASSUME StoreInv, NEW r \in Registration, HandleCreate(r)
  PROVE  StoreInv'
<1>1. <<RegMsg(r)>> \in Seq(Message)
  BY MessagesTyped
<1>2. [NoJob EXCEPT !.for = "http"] \in Jobs
  BY NoJobTyped DEF Purposes
<1>3. Update(r, [NoJob EXCEPT !.for = "http"], <<RegMsg(r)>>)
  BY DEF HandleCreate
<1> QED
  BY <1>1, <1>2, <1>3, UpdateKeeps

LEMMA DeregisterKeeps ==
  ASSUME StoreInv, NEW t \in Topics, HandleDeregister(t)
  PROVE  StoreInv'
<1>1. Good(tree')
  BY RemovedGood DEF StoreInv, HandleDeregister
<1>2. outbox' \in Seq(Message)
  <2>1. PICK order \in RemovalOrders(tree, t) :
          outbox' = outbox \o [i \in DOMAIN order |-> ClearMsg(order[i])]
    BY DEF HandleDeregister
  <2> DEFINE R == Removed(tree, t)
             n == Cardinality(R)
             said == [i \in DOMAIN order |-> ClearMsg(order[i])]
  <2>2. R \subseteq Registered(tree) /\ R \subseteq Topics
    BY DEF Removed, Registered
  <2>3. n \in Nat
    BY <2>2, FS_Subset, FS_CardinalityType DEF StoreInv, Good
  <2>4. order \in [1 .. n -> R]
    BY DEF RemovalOrders
  <2>5. \A i \in 1 .. n : ClearMsg(order[i]) \in Message
    BY <2>2, <2>4, MessagesTyped
  <2> HIDE DEF R, n
  <2>6. said \in [1 .. n -> Message]
    BY <2>4, <2>5
  <2>7. said \in Seq(Message)
    BY <2>3, <2>6
  <2> QED
    BY <2>1, <2>7 DEF StoreInv
<1> QED
  BY <1>1, <1>2 DEF StoreInv, HandleDeregister, Good, Rooted, Registered

LEMMA PatchKeeps ==
  ASSUME StoreInv, NEW t \in Topics, NEW on \in BOOLEAN, HandlePatch(t, on)
  PROVE  StoreInv'
<1>1. Good(tree') /\ Good(disk')
  BY TwinnedGood, TwinReplayedGood DEF StoreInv, HandlePatch
<1>2. outbox' \in Seq(Message)
  BY MessagesTyped DEF StoreInv, HandlePatch
<1> QED
  BY <1>1, <1>2 DEF StoreInv, HandlePatch, Good, Rooted, Registered

LEMMA DataKeeps ==
  ASSUME StoreInv, NEW t \in Topics, HandleData(t)
  PROVE  StoreInv'
<1>1. job' \in Jobs
  <2>1. [NoJob EXCEPT !.for = "auto", !.auto = AutoRegistrations(t)] \in Jobs
    BY AutoTyped, NoJobTyped DEF Purposes
  <2> QED
    BY <2>1, NoJobTyped DEF HandleData
<1> QED
  BY <1>1 DEF StoreInv, HandleData, Good, Rooted, Registered

LEMMA MessageKeeps ==
  ASSUME StoreInv, NEW m \in Message, HandleMessage(m)
  PROVE  StoreInv'
BY MessageContents, RegistrationKeeps, DeregisterKeeps, DataKeeps DEF HandleMessage

LEMMA StepKeeps ==
  ASSUME StoreInv, StoreStep
  PROVE  StoreInv'
<1>1. CASE TakeChild
  <2> DEFINE s == [stack |-> job.stack, out |-> job.batch, pend |-> pend]
  <2>1. CASE TakePanics(s)
    BY <1>1, <2>1, PanicKeeps DEF TakeChild
  <2>2. CASE ~TakePanics(s)
    <3>1. job.stack \in Seq(Topics) /\ job.stack # <<>> /\ job.batch \in Seq(Taken) /\ pend \in Pends
      BY <1>1 DEF TakeChild, StoreInv, Jobs
    <3>2. TakeOne(s).pend \in Pends /\ TakeOne(s).stack \in Seq(Topics) /\ TakeOne(s).out \in Seq(Taken)
      BY <2>2, <3>1, TakeTyped
    <3>3. /\ pend' = TakeOne(s).pend
          /\ job' = [job EXCEPT !.stack = TakeOne(s).stack, !.batch = TakeOne(s).out]
          /\ UNCHANGED <<tree, disk, outbox, agent>>
      BY <1>1, <2>2 DEF TakeChild
    <3> HIDE DEF s
    <3>4. pend' \in Pends /\ job' \in Jobs
      BY <3>2, <3>3 DEF StoreInv, Jobs
    <3> QED
      BY <3>3, <3>4 DEF StoreInv, Good, Rooted, Registered
  <2> QED
    BY <2>1, <2>2
<1>2. CASE RegisterChild
  <2> DEFINE r == Head(job.batch).reg
  <2>1. r \in Registration /\ Tail(job.batch) \in Seq(Taken)
    <3>1. job.batch \in Seq(Taken) /\ job.batch # <<>>
      BY <1>2 DEF RegisterChild, StoreInv, Jobs
    <3>2. Head(job.batch) \in Taken /\ Tail(job.batch) \in Seq(Taken)
      BY <3>1, HeadTailProperties
    <3> QED
      BY <3>2 DEF Taken
  <2>2. CASE HasParent(tree, r)
    <3>1. Good(tree)' /\ Good(disk)'
      BY <1>2, <2>1, <2>2, PersistKeeps DEF RegisterChild, StoreInv
    <3>2. job' = [job EXCEPT !.batch = Tail(@),
                    !.announce = IF job.for = "mqtt" THEN @ \o TwinOf(r) ELSE @]
      BY <1>2, <2>2 DEF RegisterChild
    <3>3. (IF job.for = "mqtt" THEN job.announce \o TwinOf(r) ELSE job.announce) \in Seq(Message)
      BY <2>1, TwinOfTyped DEF StoreInv, Jobs
    <3> HIDE DEF r
    <3>4. job' \in Jobs
      BY <2>1, <3>2, <3>3 DEF StoreInv, Jobs
    <3> QED
      BY <1>2, <3>1, <3>4 DEF StoreInv, RegisterChild
  <2>3. CASE ~HasParent(tree, r)
    BY <1>2, <2>3, NoJobTyped DEF RegisterChild, StoreInv, Good, Rooted, Registered
  <2> QED
    BY <2>2, <2>3
<1>3. CASE AutoRegister
  <2> DEFINE r == Head(job.auto)
             j == [job EXCEPT !.auto = Tail(@)]
  <2>1. r \in Registration /\ Tail(job.auto) \in Seq(Registration)
    <3>1. job.auto \in Seq(Registration) /\ job.auto # <<>>
      BY <1>3 DEF AutoRegister, StoreInv, Jobs
    <3> QED
      BY <3>1, HeadTailProperties
  <2>2. j \in Jobs
    BY <2>1 DEF StoreInv, Jobs
  <2>3. [j EXCEPT !.announce = Append(@, RegMsg(r))] \in Jobs
    <3>1. Append(j.announce, RegMsg(r)) \in Seq(Message)
      BY <2>1, <2>2, MessagesTyped DEF Jobs
    <3> HIDE DEF j, r
    <3> QED
      BY <2>2, <3>1 DEF Jobs
  <2>4. <<>> \in Seq(Message)
    BY EmptySeq
  <2>5. CASE r.topic \in Registered(tree)
    BY <1>3, <2>2, <2>5 DEF AutoRegister, StoreInv, Good, Rooted, Registered
  <2>6. CASE r.topic \notin Registered(tree)
    <3>1. Update(r, [j EXCEPT !.announce = Append(@, RegMsg(r))], <<>>)
      BY <1>3, <2>6 DEF AutoRegister
    <3> HIDE DEF j, r
    <3> QED
      BY <2>1, <2>3, <2>4, <3>1, UpdateKeeps
  <2> QED
    BY <2>5, <2>6
<1>4. CASE Announce
  <2>1. outbox \o job.announce \in Seq(Message)
    BY DEF StoreInv, Jobs
  <2> QED
    BY <1>4, <2>1, NoJobTyped DEF Announce, StoreInv, Good, Rooted, Registered
<1> QED
  BY <1>1, <1>2, <1>3, <1>4 DEF StoreStep

LEMMA RestartKeeps ==
  ASSUME StoreInv, StoreRestart
  PROVE  StoreInv'
<1>1. Good(tree') /\ Good(disk')
  BY NewTreeGood DEF StoreRestart, StoreInv
<1>2. outbox' \in Seq(Message)
  BY EmptySeq DEF StoreRestart
<1> QED
  BY <1>1, <1>2, NoPendingTyped, NoJobTyped
  DEF StoreRestart, StoreInv, Good, Rooted, Registered

LEMMA InitKeeps == StoreInit => StoreInv
<1> SUFFICES ASSUME StoreInit PROVE StoreInv
  OBVIOUS
<1>1. Good(tree) /\ Good(disk)
  BY NewTreeGood DEF StoreInit
<1>2. outbox \in Seq(Message)
  BY EmptySeq DEF StoreInit
<1> QED
  BY <1>1, <1>2, NoPendingTyped, NoJobTyped DEF StoreInit, StoreInv

LEMMA StutterKeeps ==
  ASSUME StoreInv, UNCHANGED storeVars
  PROVE  StoreInv'
BY DEF storeVars, StoreInv, Good, Rooted, Registered

------------------------------------------------------------------------------
(* The store alone, whatever it is asked and in whatever order.                *)

\* Whatever the messages and the requests the agent handles, their order, and
\* the panics and the restarts: the parent of a registered entity is registered
\* and has it as a child (EntityTree::insert, remove, and load_from_message_log).
THEOREM StoreKeepsParents == StoreSpec => []ParentRegistered
<1>1. StoreInv /\ [StoreNext]_storeVars => StoreInv'
  <2> SUFFICES ASSUME StoreInv, [StoreNext]_storeVars PROVE StoreInv'
    OBVIOUS
  <2>1. ASSUME NEW m \in Message, HandleMessage(m) PROVE StoreInv'
    BY <2>1, MessageKeeps
  <2>2. ASSUME NEW r \in Registration, HandleCreate(r) PROVE StoreInv'
    BY <2>2, CreateKeeps
  <2>3. ASSUME NEW t \in Topics, HandleDeregister(t) PROVE StoreInv'
    BY <2>3, DeregisterKeeps
  <2>4. ASSUME NEW t \in Topics, NEW on \in BOOLEAN, HandlePatch(t, on) PROVE StoreInv'
    BY <2>4, PatchKeeps
  <2>5. CASE StoreStep
    BY <2>5, StepKeeps
  <2>6. CASE StoreRestart
    BY <2>6, RestartKeeps
  <2>7. CASE UNCHANGED storeVars
    BY <2>7, StutterKeeps
  <2> QED
    BY <2>1, <2>2, <2>3, <2>4, <2>5, <2>6, <2>7 DEF StoreNext
<1>2. StoreInv => ParentRegistered
  BY DEF StoreInv, Good, Rooted, ParentRegistered
<1> QED
  BY <1>1, <1>2, InitKeeps, PTL DEF StoreSpec

------------------------------------------------------------------------------
(* The store along the broker, the mapper and the users.                       *)

LEMMA PublishKeeps ==
  ASSUME QueueInv, NEW m \in Message, Publish(m)
  PROVE  QueueInv'
<1>1. toAgent' \in Seq(Message)
  BY DEF QueueInv, Publish
<1>2. retained' \subseteq Message
  BY DEF QueueInv, Publish
<1>3. retained' \subseteq retained \cup {m}
  BY DEF Publish
<1>4. IsFiniteSet(retained \cup {m})
  BY FS_AddElement DEF QueueInv
<1>5. IsFiniteSet(retained')
  BY <1>3, <1>4, FS_Subset
<1> QED
  BY <1>1, <1>2, <1>5 DEF QueueInv

\* What a restarted process receives.
LEMMA ResumedTyped ==
  ASSUME QueueInv, NEW q \in Seq(Message), NEW r \in Resumed(q)
  PROVE  r \in Seq(Message)
<1>1. PICK k \in 0 .. Len(q), f \in SetToSeqs(retained) : r = SubSeq(q, k + 1, Len(q)) \o f
  BY DEF Resumed
<1>2. Cardinality(retained) \in Nat
  BY FS_CardinalityType DEF QueueInv
<1>3. f \in [1 .. Cardinality(retained) -> retained]
  BY DEF SetToSeqs
<1>4. f \in [1 .. Cardinality(retained) -> Message]
  BY <1>3 DEF QueueInv
<1>5. f \in Seq(Message)
  BY <1>2, <1>4
<1>6. SubSeq(q, k + 1, Len(q)) \in Seq(Message)
  <2>1. \A i \in k + 1 .. Len(q) : q[i] \in Message
    BY LenProperties
  <2>2. Len(q) \in Nat
    BY LenProperties
  <2> QED
    BY <2>1, <2>2, SubSeqProperties
<1> QED
  BY <1>1, <1>5, <1>6

LEMMA InvariantKept == IndInv /\ [Next]_vars => IndInv'
<1> SUFFICES ASSUME StoreInv, QueueInv, [Next]_vars PROVE StoreInv' /\ QueueInv'
  BY DEF IndInv
<1> DEFINE Quiet == UNCHANGED <<toAgent, retained>>
<1>1. ASSUME Quiet PROVE QueueInv'
  BY <1>1 DEF QueueInv
<1>2. ASSUME NEW kind, NEW m \in Message, UserPublishes(kind, m) PROVE StoreInv' /\ QueueInv'
  BY <1>2, PublishKeeps, StutterKeeps DEF UserPublishes
<1>3. CASE UserRegisters \/ UserClears \/ UserReports
  <2>1. \A r \in Registrations : RegMsg(r) \in Message
    BY MessagesTyped, MirrorAssumption
  <2>2. \A t \in Cleared : ClearMsg(t) \in Message
    BY MessagesTyped, MirrorAssumption
  <2>3. \A t \in Reporting : HealthMsg(t) \in Message
    BY MessagesTyped, MirrorAssumption
  <2> QED
    BY <1>2, <1>3, <2>1, <2>2, <2>3 DEF UserRegisters, UserClears, UserReports
<1>4. CASE UserCreates
  <2>1. PICK r \in Registrations : UserCalls("create", r.topic, HandleCreate(r))
    BY <1>4 DEF UserCreates
  <2>2. HandleCreate(r) /\ Quiet /\ r \in Registration
    BY <2>1, MirrorAssumption DEF UserCalls, brokerVars
  <2> QED
    BY <1>1, <2>2, CreateKeeps
<1>5. CASE UserDeletes
  <2>1. PICK t \in Cleared : UserCalls("delete", t, HandleDeregister(t))
    BY <1>5 DEF UserDeletes
  <2>2. HandleDeregister(t) /\ Quiet /\ t \in Topics
    BY <2>1, MirrorAssumption DEF UserCalls, brokerVars
  <2> QED
    BY <1>1, <2>2, DeregisterKeeps
<1>6. CASE UserPatches
  <2>1. PICK r \in Registrations, on \in BOOLEAN :
          UserCalls("patch", r.topic, HandlePatch(r.topic, on))
    BY <1>6 DEF UserPatches
  <2>2. HandlePatch(r.topic, on) /\ Quiet /\ r.topic \in Topics
    BY <2>1, MirrorAssumption, ParentTyped DEF UserCalls, brokerVars
  <2> QED
    BY <1>1, <2>2, PatchKeeps
<1>7. CASE AgentPublishes
  <2>1. Head(outbox) \in Message /\ Tail(outbox) \in Seq(Message)
    BY <1>7, HeadTailProperties DEF AgentPublishes, StoreInv
  <2>2. QueueInv'
    BY <1>7, <2>1, PublishKeeps DEF AgentPublishes
  <2>3. StoreInv'
    BY <1>7, <2>1 DEF AgentPublishes, StoreInv, Good, Rooted, Registered
  <2> QED
    BY <2>2, <2>3
<1>8. CASE AgentReceives
  <2>1. Head(toAgent) \in Message /\ Tail(toAgent) \in Seq(Message)
    BY <1>8, HeadTailProperties DEF AgentReceives, QueueInv
  <2>2. StoreInv'
    BY <1>8, <2>1, MessageKeeps DEF AgentReceives
  <2>3. QueueInv'
    BY <1>8, <2>1 DEF AgentReceives, QueueInv
  <2> QED
    BY <2>2, <2>3
<1>9. CASE AgentSteps
  <2>1. StoreStep /\ Quiet
    BY <1>9 DEF AgentSteps, brokerVars
  <2> QED
    BY <1>1, <2>1, StepKeeps
<1>10. CASE MapperReceives \/ MapperConverts \/ MapperRestarts
  <2>1. UNCHANGED storeVars /\ Quiet
    BY <1>10 DEF MapperReceives, MapperConverts, MapperRestarts, brokerVars
  <2> QED
    BY <1>1, <2>1, StutterKeeps
<1>11. CASE AgentRestarts
  <2>1. StoreInv'
    BY <1>11, RestartKeeps DEF AgentRestarts
  <2>2. toAgent' \in Seq(Message)
    BY <1>11, ResumedTyped DEF AgentRestarts, QueueInv
  <2>3. QueueInv'
    BY <1>11, <2>2 DEF AgentRestarts, QueueInv
  <2> QED
    BY <2>1, <2>3
<1>12. CASE UNCHANGED vars
  <2>1. UNCHANGED storeVars /\ Quiet
    BY <1>12 DEF vars, brokerVars
  <2> QED
    BY <1>1, <2>1, StutterKeeps
<1> QED
  BY <1>3, <1>4, <1>5, <1>6, <1>7, <1>8, <1>9, <1>10, <1>11, <1>12 DEF Next

LEMMA InitInv == Init => IndInv
<1> SUFFICES ASSUME Init PROVE StoreInv /\ QueueInv
  BY DEF IndInv
<1>1. QueueInv
  BY EmptySeq, FS_EmptySet DEF Init, QueueInv
<1> QED
  BY <1>1, InitKeeps DEF Init

\* The same of the agent among the users, the broker and the mapper, whose
\* messages it handles in the order the broker delivers them.
THEOREM ParentsStayRegistered == Spec => []ParentRegistered
<1>1. IndInv => ParentRegistered
  BY DEF IndInv, StoreInv, Good, Rooted, ParentRegistered
<1> QED
  BY <1>1, InitInv, InvariantKept, PTL DEF Spec

------------------------------------------------------------------------------
(* What awaits a parent is registered with it.                                 *)

\* The entities taken out of the pending store, and not registered yet.
TopicsOf(ba) == {ba[i].reg.topic : i \in DOMAIN ba}

\* A pending entity is listed below its parent, or among the ones to be taken, which it
\* is as soon as its parent is registered or taken. G are the registered entities.
Listed(G, pd, st, ba) ==
  \A t \in Topics : pd.entities[t] # None =>
    LET r == pd.entities[t].reg
    IN  /\ r \in Given /\ r.topic = t
        /\ t \in ToSet(pd.orphans[r.parent]) \cup ToSet(st)
        /\ r.parent \in G \cup TopicsOf(ba) => t \in ToSet(st)

\* What is to be taken has its parent registered or taken, and what is taken has its
\* parent registered or taken before it.
Ready(G, pd, st, ba) ==
  \A t \in ToSet(st) : pd.entities[t] # None => pd.entities[t].reg.parent \in G \cup TopicsOf(ba)
ParentsFirst(G, ba) ==
  \A i \in DOMAIN ba :
    /\ ba[i].reg \in Given
    /\ ba[i].reg.parent \in G \/ \E k \in DOMAIN ba : k < i /\ ba[k].reg.topic = ba[i].reg.parent

\* The orphans of an entity are its children.
OwnOrphans(pd) ==
  \A p \in Topics : \A t \in ToSet(pd.orphans[p]) : \E r \in Given : r.topic = t /\ r.parent = p

Waiting(G, pd, st, ba) ==
  Listed(G, pd, st, ba) /\ Ready(G, pd, st, ba) /\ ParentsFirst(G, ba) /\ OwnOrphans(pd)

\* The positions of a sequence and of its tail.
LEMMA FirstAndRest ==
  ASSUME NEW S, NEW q \in Seq(S), q # <<>>
  PROVE  /\ 1 \in DOMAIN q /\ Head(q) = q[1] /\ Head(q) \in S /\ Tail(q) \in Seq(S)
         /\ Len(q) \in Nat /\ DOMAIN q = 1 .. Len(q) /\ DOMAIN Tail(q) = 1 .. Len(q) - 1
         /\ \A i \in DOMAIN Tail(q) : i + 1 \in DOMAIN q /\ Tail(q)[i] = q[i + 1]
         /\ \A i \in DOMAIN q : i # 1 => i - 1 \in DOMAIN Tail(q) /\ Tail(q)[i - 1] = q[i]
<1>1. Len(q) \in Nat /\ DOMAIN q = 1 .. Len(q) /\ Len(q) # 0
  BY LenProperties, EmptySeq
<1>2. Head(q) = q[1]
  BY <1>1
<1> DEFINE r == Tail(q)
<1>3. /\ Head(q) \in S /\ r \in Seq(S) /\ Len(r) = Len(q) - 1
      /\ \A i \in 1 .. Len(r) : r[i] = q[i + 1]
  BY HeadTailProperties
<1> HIDE DEF r
<1>4. DOMAIN r = 1 .. Len(q) - 1
  BY <1>1, <1>3, LenProperties
<1>5. \A i \in DOMAIN r : i + 1 \in DOMAIN q /\ r[i] = q[i + 1]
  BY <1>1, <1>3, <1>4
<1>6. \A i \in DOMAIN q : i # 1 => i - 1 \in DOMAIN r /\ (i - 1) + 1 = i
  BY <1>1, <1>4
<1> QED
  BY <1>1, <1>2, <1>3, <1>4, <1>5, <1>6 DEF r

\* What is in a sequence which grows or shrinks.
LEMMA ContentsOf ==
  ASSUME NEW S
  PROVE  /\ ToSet(<<>>) = {}
         /\ \A q \in Seq(S), x \in S : ToSet(Append(q, x)) = ToSet(q) \cup {x}
         /\ \A q, r \in Seq(S) : ToSet(q \o r) = ToSet(q) \cup ToSet(r)
         /\ \A q \in Seq(S) : q # <<>> => /\ ToSet(q) = {Head(q)} \cup ToSet(Tail(q))
                                          /\ Head(q) \in S /\ Tail(q) \in Seq(S)
         /\ \A q \in Seq(S) : ToSet(q) \subseteq S
<1>1. ToSet(<<>>) = {}
  BY DEF ToSet
<1>2. ASSUME NEW q \in Seq(S), NEW x \in S PROVE ToSet(Append(q, x)) = ToSet(q) \cup {x}
  <2> DEFINE r == Append(q, x)
  <2>1. /\ DOMAIN r = DOMAIN q \cup {Len(q) + 1} /\ r[Len(q) + 1] = x
        /\ \A i \in DOMAIN q : r[i] = q[i]
    OBVIOUS
  <2> HIDE DEF r
  <2>2. ToSet(r) = ToSet(q) \cup {x}
    BY <2>1 DEF ToSet
  <2> QED
    BY <2>2 DEF r
<1>3. ASSUME NEW q \in Seq(S), NEW r \in Seq(S) PROVE ToSet(q \o r) = ToSet(q) \cup ToSet(r)
  <2> DEFINE z == q \o r
  <2>1. /\ \A i \in DOMAIN z : \/ i \in DOMAIN q /\ z[i] = q[i]
                               \/ i - Len(q) \in DOMAIN r /\ z[i] = r[i - Len(q)]
        /\ \A i \in DOMAIN q : i \in DOMAIN z /\ z[i] = q[i]
        /\ \A i \in DOMAIN r : Len(q) + i \in DOMAIN z /\ z[Len(q) + i] = r[i]
    OBVIOUS
  <2> HIDE DEF z
  <2>2. ToSet(z) = ToSet(q) \cup ToSet(r)
    BY <2>1 DEF ToSet
  <2> QED
    BY <2>2 DEF z
<1>4. ASSUME NEW q \in Seq(S), q # <<>>
      PROVE  ToSet(q) = {Head(q)} \cup ToSet(Tail(q)) /\ Head(q) \in S /\ Tail(q) \in Seq(S)
  <2>1. ToSet(q) = {Head(q)} \cup ToSet(Tail(q))
    <3> DEFINE r == Tail(q)
    <3>1. /\ 1 \in DOMAIN q /\ Head(q) = q[1]
          /\ \A i \in DOMAIN r : i + 1 \in DOMAIN q /\ r[i] = q[i + 1]
          /\ \A i \in DOMAIN q : i = 1 \/ (i - 1 \in DOMAIN r /\ r[i - 1] = q[i])
      BY <1>4, FirstAndRest
    <3> HIDE DEF r
    <3>2. {Head(q)} \cup ToSet(r) \subseteq ToSet(q)
      BY <3>1 DEF ToSet
    <3>3. ASSUME NEW i \in DOMAIN q PROVE q[i] \in {Head(q)} \cup ToSet(r)
      BY <3>1 DEF ToSet
    <3>4. ToSet(q) \subseteq {Head(q)} \cup ToSet(r)
      BY <3>3 DEF ToSet
    <3> QED
      BY <3>2, <3>4 DEF r
  <2> QED
    BY <1>4, <2>1, FirstAndRest
<1>5. ASSUME NEW q \in Seq(S) PROVE ToSet(q) \subseteq S
  BY DEF ToSet
<1> QED
  BY <1>1, <1>2, <1>3, <1>4, <1>5

\* The parent of an entity is the one its registration gives.
LEMMA GivenTyped ==
  ASSUME OneParent, NEW r \in Given
  PROVE  /\ r \in Registration /\ r.topic \in Topics /\ r.parent \in Topics /\ r.parent # None
         /\ ParentFor(r) = r.parent
  BY EntityAssumption DEF Given, OneParent, Registration, ParentFor

LEMMA EntryThere ==
  ASSUME NEW pd \in Pends, NEW t \in Topics, pd.entities[t] # None
  PROVE  pd.entities[t] \in Entry
  BY DEF Pends

\* The parent below which an entity is listed is the one it awaits.
LEMMA PendingParent ==
  ASSUME OneParent, NEW G, NEW pd, NEW st, NEW ba, Waiting(G, pd, st, ba),
         NEW p \in Topics, NEW t \in ToSet(pd.orphans[p]), t \in Topics, pd.entities[t] # None
  PROVE  pd.entities[t].reg.parent = p
  BY DEF Waiting, OwnOrphans, Listed, OneParent

\* cache_early_registration_message
LEMMA CacheWaits ==
  ASSUME OneParent, NEW G, NEW pd \in Pends, Waiting(G, pd, <<>>, <<>>),
         NEW r \in Given, r.parent \notin G
  PROVE  Waiting(G, CacheRegistration(pd, r), <<>>, <<>>)
<1> DEFINE new == CacheRegistration(pd, r)
           e == [CacheOf(pd, r.topic) EXCEPT !.reg = r]
<1>1. r \in Registration /\ r.topic \in Topics /\ r.parent \in Topics /\ r.parent # None
  BY GivenTyped
<1>2. new \in Pends
  BY <1>1, CacheTyped
<1>3. CacheOf(pd, r.topic) \in Entry
  BY <1>1 DEF CacheOf, NewCache, Pends, Entry
<1>4. e.reg = r
  BY <1>3 DEF Entry
<1>5. /\ new.entities = [pd.entities EXCEPT ![r.topic] = e]
      /\ new.orphans = [pd.orphans EXCEPT ![r.parent] = Append(@, r.topic)]
  BY DEF CacheRegistration
<1>6. /\ DOMAIN pd.entities = Topics /\ DOMAIN pd.orphans = Topics
      /\ \A p \in Topics : pd.orphans[p] \in Seq(Topics)
  BY DEF Pends
<1> HIDE DEF new, e
<1>7. /\ ToSet(new.orphans[r.parent]) = ToSet(pd.orphans[r.parent]) \cup {r.topic}
      /\ \A p \in Topics : p # r.parent => new.orphans[p] = pd.orphans[p]
  BY <1>1, <1>5, <1>6, ContentsOf
<1>8. new.entities[r.topic] = e /\ \A t \in Topics : t # r.topic => new.entities[t] = pd.entities[t]
  BY <1>1, <1>5, <1>6
<1>9. TopicsOf(<<>>) = {} /\ ToSet(<<>>) = {}
  BY ContentsOf DEF TopicsOf
<1>10. Listed(G, new, <<>>, <<>>)
  <2> SUFFICES ASSUME NEW t \in Topics, new.entities[t] # None
               PROVE  LET s == new.entities[t].reg
                      IN  s \in Given /\ s.topic = t /\ t \in ToSet(new.orphans[s.parent]) /\ s.parent \notin G
    BY <1>9 DEF Listed
  <2>1. CASE t = r.topic
    BY <1>4, <1>7, <1>8, <2>1
  <2>2. CASE t # r.topic
    <3> DEFINE s == pd.entities[t].reg
    <3>1. s \in Given /\ s.topic = t /\ t \in ToSet(pd.orphans[s.parent]) /\ s.parent \notin G
      BY <1>8, <1>9, <2>2 DEF Waiting, Listed
    <3>2. s.parent \in Topics
      BY <3>1, GivenTyped
    <3> QED
      BY <1>7, <1>8, <2>2, <3>1, <3>2
  <2> QED
    BY <2>1, <2>2
<1>11. OwnOrphans(new)
  BY <1>7 DEF OwnOrphans, Waiting
<1>12. Ready(G, new, <<>>, <<>>) /\ ParentsFirst(G, <<>>)
  BY <1>9 DEF Ready, ParentsFirst
<1> QED
  BY <1>10, <1>11, <1>12 DEF Waiting, new

\* An entity is registered, those awaiting it are to be taken (update).
LEMMA StartWaits ==
  ASSUME OneParent, NEW G, NEW pd \in Pends, Waiting(G, pd, <<>>, <<>>), NEW x \in Topics,
         NEW s, s = TakeStart(WithoutEntity(pd, x), x)
  PROVE  Waiting(G \cup {x}, s.pend, s.stack, <<>>)
<1> DEFINE new == s.pend
<1>1. /\ new.entities = [pd.entities EXCEPT ![x] = None] /\ new.orphans = [pd.orphans EXCEPT ![x] = <<>>]
      /\ s.stack = pd.orphans[x]
  BY DEF TakeStart, WithoutEntity, Pends
<1>2. /\ DOMAIN pd.entities = Topics /\ DOMAIN pd.orphans = Topics
      /\ \A p \in Topics : pd.orphans[p] \in Seq(Topics)
  BY DEF Pends
<1>3. TopicsOf(<<>>) = {} /\ ToSet(<<>>) = {}
  BY ContentsOf DEF TopicsOf
<1> HIDE DEF new
<1>4. /\ \A t \in Topics : new.entities[t] # None => t # x /\ new.entities[t] = pd.entities[t]
      /\ new.orphans[x] = <<>> /\ \A p \in Topics : p # x => new.orphans[p] = pd.orphans[p]
  BY <1>1, <1>2
<1>5. Listed(G \cup {x}, new, s.stack, <<>>)
  <2> SUFFICES ASSUME NEW t \in Topics, new.entities[t] # None
               PROVE  LET r == new.entities[t].reg
                      IN  /\ r \in Given /\ r.topic = t
                          /\ t \in ToSet(new.orphans[r.parent]) \cup ToSet(s.stack)
                          /\ r.parent \in G \cup {x} => t \in ToSet(s.stack)
    BY <1>3 DEF Listed
  <2> DEFINE r == pd.entities[t].reg
  <2>1. r \in Given /\ r.topic = t /\ t \in ToSet(pd.orphans[r.parent]) /\ r.parent \notin G
    BY <1>3, <1>4 DEF Waiting, Listed
  <2>2. r.parent \in Topics
    BY <2>1, GivenTyped
  <2> QED
    BY <1>1, <1>4, <2>1, <2>2
<1>6. Ready(G \cup {x}, new, s.stack, <<>>)
  <2> SUFFICES ASSUME NEW t \in ToSet(s.stack), new.entities[t] # None
               PROVE  new.entities[t].reg.parent = x
    BY DEF Ready
  <2>1. t \in Topics
    BY <1>1, <1>2, ContentsOf
  <2> QED
    BY <1>1, <1>4, <2>1, PendingParent
<1>7. OwnOrphans(new)
  <2>1. \A p \in Topics : ToSet(new.orphans[p]) \subseteq ToSet(pd.orphans[p])
    BY <1>3, <1>4
  <2> QED
    BY <2>1 DEF OwnOrphans, Waiting
<1>8. ParentsFirst(G \cup {x}, <<>>)
  BY DEF ParentsFirst
<1> QED
  BY <1>5, <1>6, <1>7, <1>8 DEF Waiting, new


\* take_cached_child_entities_data
\* What was pending or taken still is.
Carried(pd, ba, new, out) ==
  \A t \in Topics : t \in TopicsOf(ba) \/ pd.entities[t] # None
                   => t \in TopicsOf(out) \/ new.entities[t] # None

LEMMA TakeWaits ==
  ASSUME OneParent, NEW G, NEW pd \in Pends, NEW st \in Seq(Topics), st # <<>>, NEW ba \in Seq(Taken),
         Waiting(G, pd, st, ba), NEW z, z = [stack |-> st, out |-> ba, pend |-> pd],
         NEW s, s = TakeOne(z)
  PROVE  /\ Waiting(G, s.pend, s.stack, s.out)
         /\ ~TakePanics(z)
         /\ Carried(pd, ba, s.pend, s.out)
<1> DEFINE c == Head(st)
           e == pd.entities[c]
           r == e.reg
<1>1. /\ c \in Topics /\ c \in ToSet(st) /\ Tail(st) \in Seq(Topics)
      /\ ToSet(st) = {c} \cup ToSet(Tail(st))
  BY ContentsOf
<1>2. /\ DOMAIN pd.entities = Topics /\ DOMAIN pd.orphans = Topics
      /\ \A p \in Topics : pd.orphans[p] \in Seq(Topics)
  BY DEF Pends
<1>3. CASE e = None
  <2>1. s.pend = pd /\ s.stack = Tail(st) /\ s.out = ba
    BY <1>3 DEF TakeOne
  <2>2. \A t : t \in ToSet(st) /\ pd.entities[t] # None => t \in ToSet(Tail(st))
    BY <1>1, <1>3
  <2>3. Listed(G, pd, Tail(st), ba)
    BY <2>2 DEF Waiting, Listed
  <2>4. Ready(G, pd, Tail(st), ba)
    BY <1>1 DEF Waiting, Ready
  <2>5. ~TakePanics(z)
    BY <1>3 DEF TakePanics
  <2> QED
    BY <2>1, <2>3, <2>4, <2>5 DEF Waiting, Carried
<1>4. CASE e # None
  <2> DEFINE new == s.pend
  <2>1. /\ s.stack = pd.orphans[c] \o Tail(st) /\ s.out = Append(ba, e)
        /\ new.entities = [pd.entities EXCEPT ![c] = None] /\ new.orphans = [pd.orphans EXCEPT ![c] = <<>>]
    BY <1>4 DEF TakeOne, WithoutEntity, Pends
  <2>2. r \in Given /\ r.topic = c /\ r.parent \in G \cup TopicsOf(ba)
    BY <1>1, <1>4 DEF Waiting, Listed, Ready
  <2>3. ~TakePanics(z)
    <3>1. None \notin Given
      BY EntityAssumption DEF Given
    <3> QED
      BY <2>2, <3>1 DEF TakePanics
  <2> HIDE DEF new
  <2>4. /\ \A t \in Topics : new.entities[t] # None => t # c /\ new.entities[t] = pd.entities[t]
        /\ new.orphans[c] = <<>> /\ \A p \in Topics : p # c => new.orphans[p] = pd.orphans[p]
    BY <1>1, <1>2, <2>1
  <2>5. /\ Len(ba) \in Nat /\ DOMAIN ba = 1 .. Len(ba)
        /\ DOMAIN s.out = DOMAIN ba \cup {Len(ba) + 1} /\ s.out[Len(ba) + 1] = e
        /\ \A i \in DOMAIN ba : s.out[i] = ba[i]
    <3>1. e \in Taken
      <4>1. e \in Entry /\ r \in Registration
        BY <1>1, <1>4, <2>2, EntryThere, GivenTyped
      <4> QED
        BY <4>1 DEF Entry, Taken
    <3> HIDE DEF e
    <3> DEFINE o == Append(ba, e)
    <3>2. Len(o) = Len(ba) + 1 /\ o \in Seq(Taken)
      BY <3>1, AppendProperties
    <3>3. o[Len(ba) + 1] = e /\ \A i \in 1 .. Len(ba) : o[i] = ba[i]
      BY <3>1, AppendProperties
    <3> HIDE DEF o
    <3>4. Len(ba) \in Nat /\ DOMAIN ba = 1 .. Len(ba) /\ DOMAIN o = 1 .. Len(ba) + 1
      BY <3>2, LenProperties
    <3>5. s.out = o
      BY <2>1 DEF o
    <3> QED
      BY <3>3, <3>4, <3>5
  <2>6. TopicsOf(s.out) = TopicsOf(ba) \cup {c}
    <3> DEFINE n == Len(ba) + 1
    <3>1. n \in DOMAIN s.out /\ s.out[n].reg.topic = c
      BY <2>2, <2>5
    <3>2. \A i \in DOMAIN s.out : i \in DOMAIN ba \/ i = n
      BY <2>5
    <3>3. \A i \in DOMAIN ba : i \in DOMAIN s.out /\ s.out[i] = ba[i]
      BY <2>5
    <3> HIDE DEF c, n
    <3>4. TopicsOf(ba) \cup {c} \subseteq TopicsOf(s.out)
      BY <3>1, <3>3 DEF TopicsOf
    <3>5. ASSUME NEW t \in TopicsOf(s.out) PROVE t \in TopicsOf(ba) \cup {c}
      <4>1. PICK i \in DOMAIN s.out : t = s.out[i].reg.topic
        BY <3>5 DEF TopicsOf
      <4> QED
        BY <3>1, <3>2, <3>3, <4>1 DEF TopicsOf
    <3> QED
      BY <3>4, <3>5
  <2>7. ToSet(s.stack) = ToSet(pd.orphans[c]) \cup ToSet(Tail(st))
    <3>1. pd.orphans[c] \in Seq(Topics) /\ Tail(st) \in Seq(Topics)
      BY <1>1, <1>2
    <3>2. \A q, y \in Seq(Topics) : ToSet(q \o y) = ToSet(q) \cup ToSet(y)
      BY ContentsOf
    <3> QED
      BY <2>1, <3>1, <3>2
  <2>8. Listed(G, new, s.stack, s.out)
    <3> SUFFICES ASSUME NEW t \in Topics, new.entities[t] # None
                 PROVE  LET x == new.entities[t].reg
                        IN  /\ x \in Given /\ x.topic = t
                            /\ t \in ToSet(new.orphans[x.parent]) \cup ToSet(s.stack)
                            /\ x.parent \in G \cup TopicsOf(s.out) => t \in ToSet(s.stack)
      BY DEF Listed
    <3> DEFINE x == pd.entities[t].reg
    <3>1. /\ x \in Given /\ x.topic = t /\ t # c /\ new.entities[t] = pd.entities[t]
          /\ t \in ToSet(pd.orphans[x.parent]) \cup ToSet(st)
          /\ x.parent \in G \cup TopicsOf(ba) => t \in ToSet(st)
      BY <2>4 DEF Waiting, Listed
    <3>2. x.parent \in Topics
      BY <3>1, GivenTyped
    <3>3. t \in ToSet(st) => t \in ToSet(s.stack)
      BY <1>1, <2>7, <3>1
    <3>4. CASE x.parent = c
      BY <2>7, <3>1, <3>3, <3>4
    <3>5. CASE x.parent # c
      BY <2>4, <2>6, <3>1, <3>2, <3>3, <3>5
    <3> QED
      BY <3>4, <3>5
  <2>9. Ready(G, new, s.stack, s.out)
    <3> SUFFICES ASSUME NEW t \in ToSet(s.stack), new.entities[t] # None
                 PROVE  new.entities[t].reg.parent \in G \cup TopicsOf(s.out)
      BY DEF Ready
    <3>1. ToSet(pd.orphans[c]) \subseteq Topics /\ ToSet(Tail(st)) \subseteq Topics
      BY <1>1, <1>2, ContentsOf
    <3>2. t \in Topics /\ new.entities[t] = pd.entities[t]
      BY <2>4, <2>7, <3>1
    <3>3. CASE t \in ToSet(pd.orphans[c])
      BY <1>1, <2>6, <3>2, <3>3, PendingParent
    <3>4. CASE t \in ToSet(Tail(st))
      BY <1>1, <2>6, <3>2, <3>4 DEF Waiting, Ready
    <3> QED
      BY <2>7, <3>3, <3>4
  <2>10. ParentsFirst(G, s.out)
    <3> SUFFICES ASSUME NEW i \in DOMAIN s.out
                 PROVE  /\ s.out[i].reg \in Given
                        /\ \/ s.out[i].reg.parent \in G
                           \/ \E k \in DOMAIN s.out : k < i /\ s.out[k].reg.topic = s.out[i].reg.parent
      BY DEF ParentsFirst
    <3>1. CASE i \in DOMAIN ba
      BY <2>5, <3>1 DEF Waiting, ParentsFirst
    <3>2. CASE i = Len(ba) + 1
      <4>1. s.out[i].reg = r
        BY <2>5, <3>2
      <4>2. ASSUME r.parent \in TopicsOf(ba)
            PROVE  \E k \in DOMAIN s.out : k < i /\ s.out[k].reg.topic = r.parent
        <5>1. PICK k \in DOMAIN ba : ba[k].reg.topic = r.parent
          BY <4>2 DEF TopicsOf
        <5>2. k < i /\ k \in DOMAIN s.out /\ s.out[k] = ba[k]
          BY <2>5, <3>2
        <5> QED
          BY <5>1, <5>2
      <4> QED
        BY <2>2, <4>1, <4>2
    <3> QED
      BY <2>5, <3>1, <3>2
  <2>11. OwnOrphans(new)
    <3>1. \A p \in Topics : ToSet(new.orphans[p]) \subseteq ToSet(pd.orphans[p])
      BY <1>1, <2>4, ContentsOf
    <3> QED
      BY <3>1 DEF OwnOrphans, Waiting
  <2>12. \A t \in Topics : t # c => new.entities[t] = pd.entities[t]
    BY <1>1, <1>2, <2>1 DEF new
  <2> QED
    BY <2>3, <2>6, <2>8, <2>9, <2>10, <2>11, <2>12 DEF Waiting, new, Carried
<1> QED
  BY <1>3, <1>4

\* The next one that was taken is registered.
LEMMA ChildWaits ==
  ASSUME OneParent, NEW G, NEW pd \in Pends, NEW ba \in Seq(Taken), ba # <<>>,
         Waiting(G, pd, <<>>, ba)
  PROVE  /\ Waiting(G \cup {Head(ba).reg.topic}, pd, <<>>, Tail(ba))
         /\ Head(ba).reg \in Given /\ Head(ba).reg.parent \in G
         /\ TopicsOf(ba) = {Head(ba).reg.topic} \cup TopicsOf(Tail(ba))
<1> DEFINE x == Head(ba).reg.topic
           tl == Tail(ba)
<1>1. /\ 1 \in DOMAIN ba /\ Head(ba) = ba[1] /\ Len(ba) \in Nat
      /\ DOMAIN ba = 1 .. Len(ba) /\ DOMAIN tl = 1 .. Len(ba) - 1
  BY FirstAndRest
<1>2. /\ \A i \in DOMAIN tl : i + 1 \in DOMAIN ba /\ tl[i] = ba[i + 1]
      /\ \A i \in DOMAIN ba : i = 1 \/ (i - 1 \in DOMAIN tl /\ tl[i - 1] = ba[i])
  BY FirstAndRest
<1> HIDE DEF tl
<1>3. TopicsOf(ba) = {x} \cup TopicsOf(tl)
  BY <1>1, <1>2 DEF TopicsOf
<1>4. ToSet(<<>>) = {}
  BY ContentsOf
<1>5. Head(ba).reg \in Given /\ Head(ba).reg.parent \in G
  BY <1>1 DEF Waiting, ParentsFirst
<1>6. Listed(G \cup {x}, pd, <<>>, tl)
  BY <1>3 DEF Waiting, Listed
<1>7. Ready(G \cup {x}, pd, <<>>, tl)
  BY <1>4 DEF Ready
<1>8. ParentsFirst(G \cup {x}, tl)
  <2> SUFFICES ASSUME NEW i \in DOMAIN tl
               PROVE  /\ tl[i].reg \in Given
                      /\ \/ tl[i].reg.parent \in G \cup {x}
                         \/ \E k \in DOMAIN tl : k < i /\ tl[k].reg.topic = tl[i].reg.parent
    BY DEF ParentsFirst
  <2> DEFINE r == ba[i + 1].reg
  <2>1. tl[i].reg = r /\ i + 1 \in DOMAIN ba
    BY <1>1, <1>2
  <2>2. r \in Given /\ (r.parent \in G \/ \E k \in DOMAIN ba : k < i + 1 /\ ba[k].reg.topic = r.parent)
    BY <2>1 DEF Waiting, ParentsFirst
  <2>3. ASSUME NEW k \in DOMAIN ba, k < i + 1, ba[k].reg.topic = r.parent, k # 1
        PROVE  \E j \in DOMAIN tl : j < i /\ tl[j].reg.topic = r.parent
    <3>1. k - 1 \in DOMAIN tl /\ tl[k - 1] = ba[k] /\ k - 1 < i
      BY <1>1, <1>2, <2>3
    <3> QED
      BY <2>3, <3>1
  <2>4. ba[1].reg.topic = x
    BY <1>1
  <2> QED
    BY <2>1, <2>2, <2>3, <2>4
<1> QED
  BY <1>3, <1>5, <1>6, <1>7, <1>8 DEF Waiting, tl

\* Removing entities makes none ready.
LEMMA FewerWaits ==
  ASSUME NEW G, NEW H, H \subseteq G, NEW pd, Waiting(G, pd, <<>>, <<>>)
  PROVE  Waiting(H, pd, <<>>, <<>>)
<1>1. TopicsOf(<<>>) = {} /\ ToSet(<<>>) = {}
  BY ContentsOf DEF TopicsOf
<1> QED
  BY <1>1 DEF Waiting, Listed, Ready, ParentsFirst

------------------------------------------------------------------------------
(* The handlers of the store forget none of the entities.                      *)

\* What the log is replayed to has the registered entities, the twin data aside.
CoveredBy(tr, dk) ==
  \A t \in Registered(tr) :
    /\ t \in Registered(dk)
    /\ dk.entities[t].type = tr.entities[t].type /\ dk.entities[t].parent = tr.entities[t].parent
    /\ dk.entities[t].id = tr.entities[t].id

\* A registration announced or delivered is one of the given ones.
GivenMsg(m) == m.kind = "reg" => m.reg \in Given /\ m.reg.topic = m.topic

\* The part of the inductive invariant which is about the store.
Kept(tr, dk, pd, jb, ob, ag) ==
  /\ ag = "up"
  /\ Waiting(Registered(tr), pd, jb.stack, jb.batch)
  /\ CoveredBy(tr, dk)
  /\ \A m \in ToSet(ob) \cup ToSet(jb.announce) : GivenMsg(m)
  /\ ToSet(jb.auto) \subseteq Given

\* An entity is known, about to be, awaiting its parent, or its removal is being told.
Holds(t, tr, pd, jb, ob) ==
  t \in Registered(tr) \cup TopicsOf(jb.batch) \/ pd.entities[t] # None \/ ClearMsg(t) \in ToSet(ob)

\* A step keeps that, and forgets no entity.
StepKept ==
  /\ Kept(tree', disk', pend', job', outbox', agent')
  /\ \A t \in Topics : Holds(t, tree, pend, job, outbox) => Holds(t, tree', pend', job', outbox')

\* An empty sequence.
LEMMA Nothing == TopicsOf(<<>>) = {} /\ ToSet(<<>>) = {}
  BY ContentsOf DEF TopicsOf

\* register_and_persist_entity
LEMMA PersistKept ==
  ASSUME OneParent, Good(tree), Good(disk), CoveredBy(tree, disk), NEW r \in Given,
         HasParent(tree, r), RegisterAndPersist(r)
  PROVE  /\ CoveredBy(tree', disk')
         /\ Registered(tree') = Registered(tree) \cup {r.topic}
         /\ ~Affects(tree, r) => r.topic \in Registered(tree)
<1>1. /\ r \in Registration /\ r.topic \in Topics /\ r.parent \in Topics /\ r.parent # None
      /\ ParentFor(r) = r.parent
  BY GivenTyped
<1>2. /\ DOMAIN tree.entities = Topics /\ DOMAIN disk.entities = Topics
      /\ tree' = InsertEntity(tree, r)
  BY DEF Good, Trees, RegisterAndPersist
<1>3. /\ Registered(tree') = Registered(tree) \cup {r.topic}
      /\ tree'.entities = [tree.entities EXCEPT ![r.topic] = Merged(tree, r)]
  BY <1>2, InsertedContents, <1>1
<1>4. CASE Affects(tree, r)
  <2>1. HasParent(disk, r)
    BY <1>1 DEF HasParent, CoveredBy
  <2>2. disk' = InsertEntity(disk, r)
    BY <1>4, <2>1 DEF RegisterAndPersist, ReplayReg
  <2>3. /\ Registered(disk') = Registered(disk) \cup {r.topic}
        /\ disk'.entities = [disk.entities EXCEPT ![r.topic] = Merged(disk, r)]
    BY <2>1, <2>2, InsertedContents, <1>1
  <2>4. /\ Merged(disk, r).type = Merged(tree, r).type /\ Merged(disk, r).parent = Merged(tree, r).parent
        /\ Merged(disk, r).id = Merged(tree, r).id
    BY DEF Merged
  <2>5. CoveredBy(tree', disk')
    <3> SUFFICES ASSUME NEW t \in Registered(tree')
                 PROVE  /\ t \in Registered(disk')
                        /\ disk'.entities[t].type = tree'.entities[t].type
                        /\ disk'.entities[t].parent = tree'.entities[t].parent
                        /\ disk'.entities[t].id = tree'.entities[t].id
      BY DEF CoveredBy
    <3>1. CASE t = r.topic
      BY <1>1, <1>2, <1>3, <2>3, <2>4, <3>1
    <3>2. CASE t # r.topic
      <4>1. t \in Registered(tree) /\ t \in Topics
        BY <1>3, <3>2 DEF Registered
      <4>2. tree'.entities[t] = tree.entities[t] /\ disk'.entities[t] = disk.entities[t]
        BY <1>2, <1>3, <2>3, <3>2, <4>1
      <4> QED
        BY <2>3, <4>1, <4>2 DEF CoveredBy
    <3> QED
      BY <3>1, <3>2
  <2> QED
    BY <1>3, <1>4, <2>5
<1>5. CASE ~Affects(tree, r)
  <2>1. tree.entities[r.topic] # None /\ tree.entities[r.topic] = Merged(tree, r)
    BY <1>1, <1>5 DEF Affects
  <2>2. r.topic \in Registered(tree)
    BY <1>1, <2>1 DEF Registered
  <2>3. \A t \in Topics : tree'.entities[t] = tree.entities[t]
    BY <1>2, <1>3, <2>1
  <2>4. disk' = disk
    BY <1>5 DEF RegisterAndPersist
  <2>5. CoveredBy(tree', disk')
    <3>1. Registered(tree') = Registered(tree) /\ Registered(disk') = Registered(disk)
      BY <1>3, <2>2, <2>4
    <3> QED
      BY <2>3, <2>4, <3>1 DEF CoveredBy, Registered
  <2> QED
    BY <1>3, <2>2, <2>5
<1> QED
  BY <1>4, <1>5

\* EntityStore::update
LEMMA UpdateKept ==
  ASSUME OneParent, StoreInv, Kept(tree, disk, pend, job, outbox, agent),
         job.stack = <<>>, job.batch = <<>>, NEW r \in Given,
         NEW j \in Jobs, j.stack = <<>>, j.batch = <<>>, ToSet(j.auto) \subseteq Given,
         \A m \in ToSet(j.announce) : GivenMsg(m),
         NEW said \in Seq(Message), \A m \in ToSet(said) : GivenMsg(m),
         Update(r, j, said)
  PROVE  StepKept /\ Holds(r.topic, tree', pend', job', outbox')
<1> DEFINE G == Registered(tree)
<1>1. /\ r \in Registration /\ r.topic \in Topics /\ r.parent \in Topics /\ r.parent # None
      /\ ParentFor(r) = r.parent
  BY GivenTyped
<1>2. /\ Waiting(G, pend, <<>>, <<>>) /\ agent = "up" /\ CoveredBy(tree, disk)
      /\ \A m \in ToSet(outbox) : GivenMsg(m)
  BY DEF Kept
<1>3. Good(tree) /\ Good(disk) /\ pend \in Pends /\ DOMAIN pend.entities = Topics
  BY DEF StoreInv, Pends
<1>4. CASE ~HasParent(tree, r)
  <2>1. pend' = CacheRegistration(pend, r) /\ job' = j /\ UNCHANGED <<tree, disk, outbox, agent>>
    BY <1>1, <1>4 DEF Update
  <2>2. Waiting(G, pend', <<>>, <<>>)
    BY <1>1, <1>2, <1>3, <1>4, <2>1, CacheWaits DEF HasParent
  <2> DEFINE e == [CacheOf(pend, r.topic) EXCEPT !.reg = r]
  <2>3. e \in Entry
    <3>1. CacheOf(pend, r.topic) \in Entry
      BY <1>1 DEF CacheOf, NewCache, Pends, Entry, StoreInv
    <3> QED
      BY <1>1, <3>1 DEF Entry
  <2>4. e # None
    BY <2>3, EntityAssumption DEF Entry
  <2>5. pend'.entities = [pend.entities EXCEPT ![r.topic] = e]
    BY <2>1 DEF CacheRegistration
  <2> HIDE DEF e
  <2>6. pend'.entities[r.topic] # None /\ \A t \in Topics : pend.entities[t] # None => pend'.entities[t] # None
    BY <1>1, <1>3, <2>4, <2>5
  <2>7. Kept(tree', disk', pend', job', outbox', agent')
    BY <1>2, <2>1, <2>2 DEF Kept
  <2>8. \A t \in Topics : Holds(t, tree, pend, job, outbox) => Holds(t, tree', pend', job', outbox')
    BY <2>1, <2>6 DEF Holds
  <2> QED
    BY <2>6, <2>7, <2>8 DEF StepKept, Holds
<1>5. CASE HasParent(tree, r)
  <2>1. RegisterAndPersist(r) /\ UNCHANGED <<outbox, agent>>
    BY <1>1, <1>5 DEF Update
  <2>2. CoveredBy(tree', disk') /\ Registered(tree') = G \cup {r.topic} /\ (~Affects(tree, r) => r.topic \in G)
    BY <1>2, <1>3, <1>5, <2>1, PersistKept
  <2>3. CASE Affects(tree, r)
    <3> DEFINE s == TakeStart(WithoutEntity(pend, r.topic), r.topic)
    <3>1. pend' = s.pend /\ job' = [j EXCEPT !.stack = s.stack, !.announce = @ \o said]
      BY <1>1, <1>5, <2>3 DEF Update
    <3>2. Waiting(G \cup {r.topic}, s.pend, s.stack, <<>>)
      BY <1>1, <1>2, <1>3, StartWaits
    <3>3. s.pend.entities = [pend.entities EXCEPT ![r.topic] = None]
      BY <1>3 DEF TakeStart, WithoutEntity, Pends
    <3> HIDE DEF s
    <3>4. /\ job'.stack = s.stack /\ job'.batch = <<>> /\ job'.auto = j.auto
          /\ job'.announce = j.announce \o said
      BY <3>1 DEF Jobs
    <3>5. ToSet(job'.announce) = ToSet(j.announce) \cup ToSet(said)
      <4>1. j.announce \in Seq(Message)
        BY DEF Jobs
      <4> QED
        BY <3>4, <4>1, ContentsOf
    <3>6. Kept(tree', disk', pend', job', outbox', agent')
      BY <1>2, <2>1, <2>2, <3>1, <3>2, <3>4, <3>5 DEF Kept
    <3>7. \A t \in Topics : t # r.topic => pend'.entities[t] = pend.entities[t]
      BY <1>1, <1>3, <3>1, <3>3
    <3>8. \A t \in Topics : Holds(t, tree, pend, job, outbox) => Holds(t, tree', pend', job', outbox')
      BY <2>1, <2>2, <3>4, <3>7 DEF Holds
    <3> QED
      BY <2>2, <3>6, <3>8 DEF StepKept, Holds
  <2>4. CASE ~Affects(tree, r)
    <3>1. job' = j /\ pend' = pend
      BY <1>1, <1>5, <2>4 DEF Update
    <3>2. Registered(tree') = G
      BY <2>2, <2>4
    <3>3. Kept(tree', disk', pend', job', outbox', agent')
      BY <1>2, <2>1, <2>2, <3>1, <3>2 DEF Kept
    <3>4. \A t \in Topics : Holds(t, tree, pend, job, outbox) => Holds(t, tree', pend', job', outbox')
      BY <2>1, <3>1, <3>2 DEF Holds
    <3> QED
      BY <2>2, <3>3, <3>4 DEF StepKept, Holds
  <2> QED
    BY <2>3, <2>4
<1> QED
  BY <1>4, <1>5

\* process_entity_registration, and register_entity of the server
LEMMA RegistrationKept ==
  ASSUME OneParent, StoreInv, Kept(tree, disk, pend, job, outbox, agent), NEW r \in Given,
         HandleRegistration(r) \/ HandleCreate(r)
  PROVE  StepKept /\ Holds(r.topic, tree', pend', job', outbox')
<1>1. job = NoJob /\ job.stack = <<>> /\ job.batch = <<>>
  BY DEF HandleRegistration, HandleCreate, NoJob
<1>2. r \in Registration /\ r.topic \in Topics
  BY GivenTyped
<1>3. ASSUME NEW f \in Purposes, NEW said \in Seq(Message), \A m \in ToSet(said) : GivenMsg(m),
             Update(r, [NoJob EXCEPT !.for = f], said)
      PROVE  StepKept /\ Holds(r.topic, tree', pend', job', outbox')
  <2> DEFINE j == [NoJob EXCEPT !.for = f]
  <2>1. j \in Jobs /\ j.stack = <<>> /\ j.batch = <<>> /\ j.auto = <<>> /\ j.announce = <<>>
    BY NoJobTyped DEF NoJob
  <2> HIDE DEF j
  <2>2. Update(r, j, said)
    BY <1>3 DEF j
  <2>3. ToSet(j.auto) \subseteq Given /\ \A m \in ToSet(j.announce) : GivenMsg(m)
    BY <2>1, Nothing
  <2> QED
    BY <1>1, <1>3, <2>1, <2>2, <2>3, UpdateKept
<1>4. CASE HandleRegistration(r)
  <2>1. TwinOf(r) \in Seq(Message)
    BY <1>2, TwinOfTyped
  <2>2. \A m \in ToSet(TwinOf(r)) : GivenMsg(m)
    BY DEF TwinOf, TwinMsg, GivenMsg, ToSet
  <2> QED
    BY <1>3, <1>4, <2>1, <2>2 DEF HandleRegistration, Purposes
<1>5. CASE HandleCreate(r)
  <2>1. <<RegMsg(r)>> \in Seq(Message)
    BY <1>2, MessagesTyped
  <2>2. \A m \in ToSet(<<RegMsg(r)>>) : GivenMsg(m)
    BY DEF RegMsg, GivenMsg, ToSet
  <2> QED
    BY <1>3, <1>5, <2>1, <2>2 DEF HandleCreate, Purposes
<1> QED
  BY <1>4, <1>5

\* deregister_entity: each entity removed is told to be.
LEMMA DeregisterKept ==
  ASSUME StoreInv, Kept(tree, disk, pend, job, outbox, agent), NEW t \in Topics, HandleDeregister(t)
  PROVE  StepKept
<1> DEFINE R == Removed(tree, t)
           n == Cardinality(R)
<1>1. /\ job = NoJob /\ UNCHANGED <<pend, disk, job, agent>>
      /\ job.stack = <<>> /\ job.batch = <<>> /\ job.announce = <<>>
  BY DEF HandleDeregister, NoJob
<1>2. PICK order \in RemovalOrders(tree, t) :
        outbox' = outbox \o [i \in DOMAIN order |-> ClearMsg(order[i])]
  BY DEF HandleDeregister
<1> DEFINE said == [i \in DOMAIN order |-> ClearMsg(order[i])]
<1>3. R \subseteq Registered(tree) /\ R \subseteq Topics
  BY DEF Removed, Registered
<1>4. IsFiniteSet(R) /\ n \in Nat
  BY <1>3, FS_Subset, FS_CardinalityType DEF StoreInv, Good
<1>5. order \in [1 .. n -> R] /\ \A i, k \in 1 .. n : i # k => order[i] # order[k]
  BY DEF RemovalOrders
<1>6. \A x \in R : \E i \in 1 .. n : order[i] = x
  BY <1>4, <1>5, AllEnumerated
<1>7. \A x \in Topics : tree'.entities[x] = IF x \in R THEN None ELSE tree.entities[x]
  BY DEF HandleDeregister, RemoveEntity
<1> HIDE DEF R, n
<1>8. Registered(tree') = Registered(tree) \ R
  BY <1>7 DEF Registered
<1>9. \A i \in 1 .. n : said[i] = ClearMsg(order[i]) /\ ClearMsg(order[i]) \in Message
  BY <1>3, <1>5, MessagesTyped
<1>10. said \in [1 .. n -> Message] /\ DOMAIN said = 1 .. n
  BY <1>5, <1>9
<1> HIDE DEF said
<1>11. said \in Seq(Message) /\ outbox \in Seq(Message)
  BY <1>4, <1>10 DEF StoreInv
<1>12. ToSet(outbox') = ToSet(outbox) \cup ToSet(said)
  BY <1>2, <1>11, ContentsOf DEF said
<1>13. /\ \A x \in R : ClearMsg(x) \in ToSet(said)
       /\ \A m \in ToSet(said) : GivenMsg(m)
  <2>1. \A x \in R : ClearMsg(x) \in ToSet(said)
    BY <1>6, <1>9, <1>10 DEF ToSet
  <2>2. \A m \in ToSet(said) : \E i \in 1 .. n : m = ClearMsg(order[i])
    BY <1>9, <1>10 DEF ToSet
  <2> QED
    BY <2>1, <2>2 DEF ClearMsg, GivenMsg
<1>14. CoveredBy(tree', disk')
  <2> SUFFICES ASSUME NEW x \in Registered(tree')
               PROVE  /\ x \in Registered(disk)
                      /\ disk.entities[x].type = tree'.entities[x].type
                      /\ disk.entities[x].parent = tree'.entities[x].parent
                      /\ disk.entities[x].id = tree'.entities[x].id
    BY <1>1 DEF CoveredBy
  <2>1. x \in Registered(tree) /\ x \in Topics /\ x \notin R
    BY <1>8 DEF Registered
  <2> QED
    BY <1>7, <2>1 DEF CoveredBy, Kept
<1>15. Waiting(Registered(tree'), pend, <<>>, <<>>)
  BY <1>1, <1>8, FewerWaits DEF Kept
<1>16. Kept(tree', disk', pend', job', outbox', agent')
  BY <1>1, <1>12, <1>13, <1>14, <1>15 DEF Kept
<1>17. ASSUME NEW x \in Topics, Holds(x, tree, pend, job, outbox) PROVE Holds(x, tree', pend', job', outbox')
  BY <1>1, <1>8, <1>12, <1>13, <1>17 DEF Holds
<1> QED
  BY <1>16, <1>17 DEF StepKept

\* patch_entity
LEMMA PatchKept ==
  ASSUME StoreInv, Kept(tree, disk, pend, job, outbox, agent), NEW t \in Topics, NEW on \in BOOLEAN,
         HandlePatch(t, on)
  PROVE  StepKept
<1>1. UNCHANGED <<pend, job, agent>> /\ t \in Registered(tree) /\ t \in Registered(disk)
  BY DEF HandlePatch, Kept, CoveredBy
<1>2. /\ tree' = SetTwin(tree, t, on) /\ disk' = SetTwin(disk, t, on)
      /\ outbox' = Append(outbox, TwinMsg(t, on))
  BY <1>1 DEF HandlePatch, ReplayTwin
<1>3. ASSUME NEW tr, Good(tr), t \in Registered(tr)
      PROVE  /\ Registered(SetTwin(tr, t, on)) = Registered(tr)
             /\ \A x \in Registered(tr) :
                  /\ SetTwin(tr, t, on).entities[x].type = tr.entities[x].type
                  /\ SetTwin(tr, t, on).entities[x].parent = tr.entities[x].parent
                  /\ SetTwin(tr, t, on).entities[x].id = tr.entities[x].id
  <2> DEFINE e == [tr.entities[t] EXCEPT !.twin = on]
             new == SetTwin(tr, t, on)
  <2>1. tr \in Trees /\ tr.entities[t] \in Entity
    BY <1>3, EntitiesTyped DEF Good
  <2>2. /\ e \in Entity /\ e.parent = tr.entities[t].parent /\ e.type = tr.entities[t].type
        /\ e.id = tr.entities[t].id
    BY <2>1 DEF Entity
  <2>3. new.entities = [tr.entities EXCEPT ![t] = e]
    BY <2>1 DEF SetTwin, Trees
  <2> HIDE DEF new
  <2>4. new.entities[t] = e /\ \A x \in Topics : x # t => new.entities[x] = tr.entities[x]
    BY <2>1, <2>3 DEF Trees
  <2> HIDE DEF e
  <2>5. Registered(new) = Registered(tr)
    BY <1>3, <2>2, <2>4, EntityAssumption DEF Registered
  <2>6. \A x \in Registered(tr) : /\ new.entities[x].type = tr.entities[x].type
                                  /\ new.entities[x].parent = tr.entities[x].parent
                                  /\ new.entities[x].id = tr.entities[x].id
    BY <2>2, <2>4 DEF Registered
  <2> QED
    BY <2>5, <2>6 DEF new
<1>4. /\ Registered(tree') = Registered(tree) /\ Registered(disk') = Registered(disk)
      /\ CoveredBy(tree', disk')
  <2>1. Good(tree) /\ Good(disk) /\ CoveredBy(tree, disk)
    BY DEF StoreInv, Kept
  <2>2. /\ Registered(tree') = Registered(tree)
        /\ \A x \in Registered(tree) :
             /\ tree'.entities[x].type = tree.entities[x].type
             /\ tree'.entities[x].parent = tree.entities[x].parent /\ tree'.entities[x].id = tree.entities[x].id
    BY <1>1, <1>2, <1>3, <2>1
  <2>3. /\ Registered(disk') = Registered(disk)
        /\ \A x \in Registered(disk) :
             /\ disk'.entities[x].type = disk.entities[x].type
             /\ disk'.entities[x].parent = disk.entities[x].parent /\ disk'.entities[x].id = disk.entities[x].id
    BY <1>1, <1>2, <1>3, <2>1
  <2> QED
    BY <2>1, <2>2, <2>3 DEF CoveredBy
<1>5. ToSet(outbox') = ToSet(outbox) \cup {TwinMsg(t, on)} /\ GivenMsg(TwinMsg(t, on))
  <2>1. TwinMsg(t, on) \in Message /\ outbox \in Seq(Message)
    BY MessagesTyped DEF StoreInv
  <2>2. GivenMsg(TwinMsg(t, on))
    BY DEF GivenMsg, TwinMsg
  <2> QED
    BY <1>2, <2>1, <2>2, ContentsOf
<1>6. Kept(tree', disk', pend', job', outbox', agent')
  BY <1>1, <1>4, <1>5 DEF Kept
<1>7. \A x \in Topics : Holds(x, tree, pend, job, outbox) => Holds(x, tree', pend', job', outbox')
  BY <1>1, <1>4, <1>5 DEF Holds
<1> QED
  BY <1>6, <1>7 DEF StepKept

\* process_entity_data
LEMMA DataKept ==
  ASSUME Kept(tree, disk, pend, job, outbox, agent), NEW t \in Topics, HandleData(t)
  PROVE  StepKept
<1>1. /\ UNCHANGED <<tree, pend, disk, outbox, agent>> /\ job = NoJob
      /\ job.stack = <<>> /\ job.batch = <<>> /\ job.announce = <<>>
  BY DEF HandleData, NoJob
<1>2. /\ job'.stack = <<>> /\ job'.batch = <<>> /\ job'.announce = <<>>
      /\ job'.auto = <<>> \/ (t \in AutoTopics /\ job'.auto = AutoRegistrations(t))
  BY DEF HandleData, NoJob
<1>3. ToSet(job'.auto) \subseteq Given
  <2>1. CASE job'.auto = <<>>
    BY <2>1, Nothing
  <2>2. CASE t \in AutoTopics /\ job'.auto = AutoRegistrations(t)
    <3> DEFINE a == AutoRegistrations(t)
    <3>1. a \in Seq(Registration)
      BY AutoTyped
    <3> SUFFICES ASSUME NEW i \in DOMAIN a PROVE a[i] \in Given
      BY <2>2 DEF ToSet
    <3>2. a[i] \in Registration
      BY <3>1
    <3> QED
      BY <2>2, <3>2 DEF Given
  <2> QED
    BY <1>2, <2>1, <2>2
<1>4. Kept(tree', disk', pend', job', outbox', agent')
  BY <1>1, <1>2, <1>3 DEF Kept
<1>5. \A x \in Topics : Holds(x, tree, pend, job, outbox) => Holds(x, tree', pend', job', outbox')
  BY <1>1, <1>2 DEF Holds
<1> QED
  BY <1>4, <1>5 DEF StepKept

\* take_cached_child_entities_data
LEMMA TakeKept ==
  ASSUME OneParent, StoreInv, Kept(tree, disk, pend, job, outbox, agent), TakeChild
  PROVE  StepKept
<1> DEFINE z == [stack |-> job.stack, out |-> job.batch, pend |-> pend]
           s == TakeOne(z)
<1>1. job.stack \in Seq(Topics) /\ job.stack # <<>> /\ job.batch \in Seq(Taken) /\ pend \in Pends
  BY DEF TakeChild, StoreInv, Jobs
<1>2. Waiting(Registered(tree), pend, job.stack, job.batch)
  BY DEF Kept
<1>3. /\ Waiting(Registered(tree), s.pend, s.stack, s.out) /\ ~TakePanics(z)
      /\ Carried(pend, job.batch, s.pend, s.out)
  BY <1>1, <1>2, TakeWaits
<1>4. /\ pend' = s.pend /\ UNCHANGED <<tree, disk, outbox, agent>>
      /\ job' = [job EXCEPT !.stack = s.stack, !.batch = s.out]
  BY <1>3 DEF TakeChild
<1> HIDE DEF s
<1>5. job'.stack = s.stack /\ job'.batch = s.out /\ job'.announce = job.announce /\ job'.auto = job.auto
  BY <1>4 DEF StoreInv, Jobs
<1>6. Kept(tree', disk', pend', job', outbox', agent')
  BY <1>3, <1>4, <1>5 DEF Kept
<1>7. \A x \in Topics : Holds(x, tree, pend, job, outbox) => Holds(x, tree', pend', job', outbox')
  BY <1>3, <1>4, <1>5 DEF Holds, Carried
<1> QED
  BY <1>6, <1>7 DEF StepKept

\* The loop of update never meets an entity without its parent.
LEMMA ChildKept ==
  ASSUME OneParent, StoreInv, Kept(tree, disk, pend, job, outbox, agent), RegisterChild
  PROVE  StepKept
<1> DEFINE r == Head(job.batch).reg
           G == Registered(tree)
<1>1. job.stack = <<>> /\ job.batch \in Seq(Taken) /\ job.batch # <<>> /\ pend \in Pends
  BY DEF RegisterChild, StoreInv, Jobs
<1>2. Waiting(G, pend, <<>>, job.batch)
  BY <1>1 DEF Kept
<1>3. /\ Waiting(G \cup {r.topic}, pend, <<>>, Tail(job.batch)) /\ r \in Given /\ r.parent \in G
      /\ TopicsOf(job.batch) = {r.topic} \cup TopicsOf(Tail(job.batch))
  BY <1>1, <1>2, ChildWaits
<1>4. HasParent(tree, r)
  BY <1>3, GivenTyped DEF HasParent
<1>5. /\ RegisterAndPersist(r) /\ UNCHANGED <<pend, outbox, agent>>
      /\ job' = [job EXCEPT !.batch = Tail(@),
                   !.announce = IF job.for = "mqtt" THEN @ \o TwinOf(r) ELSE @]
  BY <1>4 DEF RegisterChild
<1>6. CoveredBy(tree', disk') /\ Registered(tree') = G \cup {r.topic}
  BY <1>3, <1>4, <1>5, PersistKept DEF StoreInv, Kept
<1> HIDE DEF r
<1>7. /\ job'.stack = <<>> /\ job'.batch = Tail(job.batch) /\ job'.auto = job.auto
      /\ job'.announce = job.announce \/ job'.announce = job.announce \o TwinOf(r)
  BY <1>1, <1>5 DEF StoreInv, Jobs
<1>8. \A m \in ToSet(job'.announce) : GivenMsg(m)
  <2>1. TwinOf(r) \in Seq(Message) /\ job.announce \in Seq(Message)
    BY <1>3, GivenTyped, TwinOfTyped DEF StoreInv, Jobs
  <2>2. \A m \in ToSet(TwinOf(r)) : GivenMsg(m)
    BY DEF TwinOf, TwinMsg, GivenMsg, ToSet
  <2>3. ToSet(job.announce \o TwinOf(r)) = ToSet(job.announce) \cup ToSet(TwinOf(r))
    BY <2>1, ContentsOf
  <2> QED
    BY <1>7, <2>2, <2>3 DEF Kept
<1>9. Kept(tree', disk', pend', job', outbox', agent')
  BY <1>3, <1>5, <1>6, <1>7, <1>8 DEF Kept
<1>10. \A x \in Topics : Holds(x, tree, pend, job, outbox) => Holds(x, tree', pend', job', outbox')
  BY <1>3, <1>5, <1>6, <1>7 DEF Holds
<1> QED
  BY <1>9, <1>10 DEF StepKept

\* The loop of auto_register_entity.
LEMMA AutoKept ==
  ASSUME OneParent, StoreInv, Kept(tree, disk, pend, job, outbox, agent), AutoRegister
  PROVE  StepKept
<1> DEFINE r == Head(job.auto)
           j == [job EXCEPT !.auto = Tail(@)]
           k == [j EXCEPT !.announce = Append(@, RegMsg(r))]
<1>1. /\ job \in Jobs /\ job.stack = <<>> /\ job.batch = <<>> /\ job.auto # <<>>
      /\ job.auto \in Seq(Registration) /\ job.announce \in Seq(Message)
  BY DEF AutoRegister, StoreInv, Jobs
<1>2. /\ r \in Registration /\ Tail(job.auto) \in Seq(Registration)
      /\ ToSet(job.auto) = {r} \cup ToSet(Tail(job.auto))
  <2>1. \A q \in Seq(Registration) : q # <<>> => /\ ToSet(q) = {Head(q)} \cup ToSet(Tail(q))
                                                  /\ Head(q) \in Registration /\ Tail(q) \in Seq(Registration)
    BY ContentsOf
  <2> QED
    BY <1>1, <2>1
<1>3. r \in Given /\ ToSet(Tail(job.auto)) \subseteq Given
  BY <1>2 DEF Kept
<1>4. /\ j \in Jobs /\ j.auto = Tail(job.auto) /\ j.stack = <<>> /\ j.batch = <<>>
      /\ j.announce = job.announce
  BY <1>1, <1>2 DEF Jobs
<1>5. Append(job.announce, RegMsg(r)) \in Seq(Message)
      /\ ToSet(Append(job.announce, RegMsg(r))) = ToSet(job.announce) \cup {RegMsg(r)}
  <2>1. RegMsg(r) \in Message
    BY <1>2, MessagesTyped
  <2> HIDE DEF r
  <2> QED
    BY <1>1, <2>1, ContentsOf
<1>6. GivenMsg(RegMsg(r))
  BY <1>3 DEF GivenMsg, RegMsg
<1>7. CASE r.topic \in Registered(tree)
  <2>1. job' = j /\ UNCHANGED <<tree, pend, disk, outbox, agent>>
    BY <1>7 DEF AutoRegister
  <2> HIDE DEF j
  <2>2. Kept(tree', disk', pend', job', outbox', agent')
    BY <1>1, <1>3, <1>4, <2>1 DEF Kept
  <2>3. \A x \in Topics : Holds(x, tree, pend, job, outbox) => Holds(x, tree', pend', job', outbox')
    BY <1>1, <1>4, <2>1 DEF Holds
  <2> QED
    BY <2>2, <2>3 DEF StepKept
<1>8. CASE r.topic \notin Registered(tree)
  <2>1. Update(r, k, <<>>)
    BY <1>8 DEF AutoRegister
  <2> HIDE DEF j, r
  <2>2. /\ k \in Jobs /\ k.auto = Tail(job.auto) /\ k.stack = <<>> /\ k.batch = <<>>
        /\ k.announce = Append(job.announce, RegMsg(r))
    BY <1>4, <1>5 DEF Jobs
  <2> HIDE DEF k
  <2>3. \A m \in ToSet(k.announce) : GivenMsg(m)
    BY <1>5, <1>6, <2>2 DEF Kept
  <2>4. <<>> \in Seq(Message) /\ \A m \in ToSet(<<>>) : GivenMsg(m)
    BY Nothing, EmptySeq
  <2> QED
    BY <1>1, <1>3, <2>1, <2>2, <2>3, <2>4, UpdateKept
<1> QED
  BY <1>7, <1>8

LEMMA AnnounceKept ==
  ASSUME StoreInv, Kept(tree, disk, pend, job, outbox, agent), Announce
  PROVE  StepKept
<1>1. /\ job.stack = <<>> /\ job.batch = <<>> /\ UNCHANGED <<tree, pend, disk, agent>>
      /\ job'.stack = <<>> /\ job'.batch = <<>> /\ job'.announce = <<>> /\ job'.auto = <<>>
      /\ outbox' = outbox \o job.announce
  BY DEF Announce, NoJob
<1>2. ToSet(outbox') = ToSet(outbox) \cup ToSet(job.announce)
  <2>1. outbox \in Seq(Message) /\ job.announce \in Seq(Message)
    BY DEF StoreInv, Jobs
  <2> QED
    BY <1>1, <2>1, ContentsOf
<1>3. Kept(tree', disk', pend', job', outbox', agent')
  BY <1>1, <1>2, Nothing DEF Kept
<1>4. \A x \in Topics : Holds(x, tree, pend, job, outbox) => Holds(x, tree', pend', job', outbox')
  BY <1>1, <1>2 DEF Holds
<1> QED
  BY <1>3, <1>4 DEF StepKept

LEMMA NothingWaits ==
  ASSUME NEW G
  PROVE  Waiting(G, NoPending, <<>>, <<>>)
BY Nothing DEF Waiting, Listed, Ready, ParentsFirst, OwnOrphans, NoPending

LEMMA StartKept ==
  ASSUME NEW tr
  PROVE  Kept(tr, tr, NoPending, NoJob, <<>>, "up")
BY NothingWaits, Nothing DEF Kept, CoveredBy, NoJob

------------------------------------------------------------------------------
(* Nor do the broker, the users and the restarts.                              *)

Coming(t, q) == \E n \in ToSet(q) : n.kind = "reg" /\ n.topic = t

\* A retained registration is about to be received, or has been.
Delivered(ret, q, tr, pd, jb, ob) ==
  /\ \A m \in ret \cup ToSet(q) : GivenMsg(m)
  /\ \A m \in ret : m.kind = "reg" => Coming(m.topic, q) \/ Holds(m.topic, tr, pd, jb, ob)

\* The whole inductive invariant, along IndInv.
MirrorFine ==
  /\ Kept(tree, disk, pend, job, outbox, agent)
  /\ Delivered(retained, toAgent, tree, pend, job, outbox)

LEMMA FinePrimed ==
  ASSUME Kept(tree', disk', pend', job', outbox', agent'),
         Delivered(retained', toAgent', tree', pend', job', outbox')
  PROVE  MirrorFine'
BY DEF MirrorFine, Kept, Waiting, Listed, Ready, ParentsFirst, OwnOrphans, TopicsOf, CoveredBy,
       Registered, ToSet, GivenMsg, Given, Delivered, Coming, Holds, ClearMsg

\* A step of the store leaves the broker as it is, or takes one message from it.
LEMMA StoreStepFine ==
  ASSUME QueueInv, MirrorFine, StepKept, UNCHANGED <<retained, toAgent>>
  PROVE  MirrorFine'
<1>1. \A m \in retained : m.topic \in Topics
  BY MessageContents DEF QueueInv
<1>2. Delivered(retained', toAgent', tree', pend', job', outbox')
  BY <1>1 DEF Delivered, MirrorFine, StepKept
<1> QED
  BY <1>2, FinePrimed DEF StepKept

LEMMA ReceivedFine ==
  ASSUME OneParent, StoreInv, QueueInv, MirrorFine, AgentReceives
  PROVE  MirrorFine'
<1> DEFINE h == Head(toAgent)
           q == Tail(toAgent)
<1>1. /\ toAgent \in Seq(Message) /\ toAgent # <<>> /\ retained' = retained /\ toAgent' = q
      /\ HandleMessage(h)
  BY DEF AgentReceives, QueueInv
<1>2. ToSet(toAgent) = {h} \cup ToSet(q) /\ h \in Message
  BY <1>1, ContentsOf
<1> HIDE DEF h, q
<1>3. Kept(tree, disk, pend, job, outbox, agent) /\ GivenMsg(h) /\ h.topic \in Topics
  BY <1>2, MessageContents DEF MirrorFine, Delivered
<1>4. StepKept /\ (h.kind = "reg" => Holds(h.topic, tree', pend', job', outbox'))
  <2>1. CASE h.kind = "reg" /\ HandleRegistration(h.reg)
    BY <1>3, <2>1, RegistrationKept DEF GivenMsg
  <2>2. CASE h.kind = "clear" /\ HandleDeregister(h.topic)
    BY <1>3, <2>2, DeregisterKept
  <2>3. CASE h.kind \in DataKinds /\ HandleData(h.topic)
    BY <1>3, <2>3, DataKept DEF DataKinds
  <2> QED
    BY <1>1, <2>1, <2>2, <2>3 DEF HandleMessage
<1>5. \A m \in retained : m.topic \in Topics
  BY MessageContents DEF QueueInv
<1>6. Delivered(retained', toAgent', tree', pend', job', outbox')
  <2>1. \A m \in retained' \cup ToSet(toAgent') : GivenMsg(m)
    BY <1>1, <1>2 DEF MirrorFine, Delivered
  <2>2. ASSUME NEW m \in retained, m.kind = "reg"
        PROVE  Coming(m.topic, q) \/ Holds(m.topic, tree', pend', job', outbox')
    <3>1. CASE Holds(m.topic, tree, pend, job, outbox)
      BY <1>4, <1>5, <3>1 DEF StepKept
    <3>2. CASE Coming(m.topic, toAgent)
      BY <1>2, <1>4, <3>2 DEF Coming
    <3> QED
      BY <2>2, <3>1, <3>2 DEF MirrorFine, Delivered
  <2> QED
    BY <1>1, <2>1, <2>2 DEF Delivered
<1> QED
  BY <1>4, <1>6, FinePrimed DEF StepKept

\* A message is published. Clearing an entity drops its registration.
LEMMA PublishedFine ==
  ASSUME QueueInv, MirrorFine, NEW m \in Message, GivenMsg(m), Publish(m),
         Kept(tree', disk', pend', job', outbox', agent'), UNCHANGED <<tree, pend, job>>,
         ToSet(outbox) \subseteq ToSet(outbox') \cup {m}
  PROVE  MirrorFine'
<1>1. ToSet(toAgent') = ToSet(toAgent) \cup {m}
  BY ContentsOf DEF QueueInv, Publish
<1>2. /\ retained' \subseteq retained \cup {m}
      /\ \A n \in retained' : n = m \/ (n \in retained /\ ~SameTopic(m, n))
  BY DEF Publish
<1>3. ASSUME NEW n \in retained', n.kind = "reg"
      PROVE  Coming(n.topic, toAgent') \/ Holds(n.topic, tree', pend', job', outbox')
  <2>1. CASE n = m
    BY <1>1, <1>3, <2>1 DEF Coming
  <2>2. CASE n \in retained /\ ~SameTopic(m, n)
    <3>1. m # ClearMsg(n.topic)
      BY <1>3, <2>2 DEF SameTopic, ClearMsg, DataKinds
    <3>2. Coming(n.topic, toAgent) \/ Holds(n.topic, tree, pend, job, outbox)
      BY <1>3, <2>2 DEF MirrorFine, Delivered
    <3> QED
      BY <1>1, <3>1, <3>2 DEF Coming, Holds
  <2> QED
    BY <1>2, <2>1, <2>2
<1>4. Delivered(retained', toAgent', tree', pend', job', outbox')
  BY <1>1, <1>2, <1>3 DEF Delivered, MirrorFine
<1> QED
  BY <1>4, FinePrimed

\* A restarted agent receives all the retained messages.
LEMMA ResumedContents ==
  ASSUME QueueInv, NEW q \in Seq(Message), NEW r \in Resumed(q)
  PROVE  retained \subseteq ToSet(r) /\ ToSet(r) \subseteq ToSet(q) \cup retained
<1>1. PICK k \in 0 .. Len(q), f \in SetToSeqs(retained) :
        r = SubSeq(q, k + 1, Len(q)) \o f
  BY DEF Resumed
<1> DEFINE n == Cardinality(retained)
           z == SubSeq(q, k + 1, Len(q))
<1>2. n \in Nat /\ IsFiniteSet(retained) /\ retained \subseteq Message
  BY FS_CardinalityType DEF QueueInv
<1>3. f \in [1 .. n -> retained] /\ \A i, j \in 1 .. n : i # j => f[i] # f[j]
  BY DEF SetToSeqs, IsInjective
<1>4. \A x \in retained : \E i \in 1 .. n : f[i] = x
  BY <1>2, <1>3, AllEnumerated
<1> HIDE DEF n
<1>5. f \in Seq(Message) /\ ToSet(f) = retained
  <2>1. f \in [1 .. n -> Message]
    BY <1>2, <1>3
  <2>2. f \in Seq(Message)
    BY <1>2, <2>1
  <2>3. DOMAIN f = 1 .. n
    BY <1>3
  <2> QED
    BY <1>3, <1>4, <2>2, <2>3 DEF ToSet
<1>6. z \in Seq(Message) /\ ToSet(z) \subseteq ToSet(q)
  <2>1. Len(q) \in Nat /\ DOMAIN q = 1 .. Len(q) /\ q \in Seq(Message)
    BY LenProperties
  <2>2. \A i \in k + 1 .. Len(q) : q[i] \in Message
    BY <2>1
  <2>3. /\ z \in Seq(Message) /\ Len(z) = IF k + 1 <= Len(q) THEN Len(q) - (k + 1) + 1 ELSE 0
        /\ \A i \in 1 .. Len(q) - (k + 1) + 1 : z[i] = q[k + 1 + i - 1]
    BY <2>1, <2>2, SubSeqProperties
  <2> HIDE DEF z
  <2>4. DOMAIN z = 1 .. Len(z)
    BY <2>3, LenProperties
  <2>5. ASSUME NEW i \in DOMAIN z PROVE z[i] \in ToSet(q)
    <3> DEFINE l == Len(q)
    <3>1. k \in Nat /\ l \in Nat /\ k <= l
      BY <2>1
    <3>2. i \in 1 .. (IF k + 1 <= l THEN l - (k + 1) + 1 ELSE 0)
      BY <2>3, <2>4
    <3>3. DOMAIN q = 1 .. l
      BY <2>1
    <3> HIDE DEF l
    <3>4. i \in 1 .. l - (k + 1) + 1 /\ k + 1 + i - 1 \in 1 .. l
      BY <3>1, <3>2
    <3>5. i \in 1 .. Len(q) - (k + 1) + 1 /\ k + 1 + i - 1 \in DOMAIN q
      BY <3>3, <3>4 DEF l
    <3>6. z[i] = q[k + 1 + i - 1]
      BY <2>3, <3>5
    <3> QED
      BY <3>5, <3>6 DEF ToSet
  <2> QED
    BY <2>3, <2>5 DEF ToSet
<1> HIDE DEF z
<1>7. ToSet(r) = ToSet(z) \cup retained
  <2>1. r = z \o f
    BY <1>1 DEF z
  <2> QED
    BY <1>5, <1>6, <2>1, ContentsOf
<1> QED
  BY <1>6, <1>7

LEMMA RestartedFine ==
  ASSUME QueueInv, MirrorFine, AgentRestarts
  PROVE  MirrorFine'
<1>1. /\ tree' = disk' /\ pend' = NoPending /\ job' = NoJob /\ outbox' = <<>> /\ agent' = "up"
      /\ retained' = retained /\ toAgent' \in Resumed(toAgent)
  BY DEF AgentRestarts, StoreRestart
<1>2. Kept(tree', disk', pend', job', outbox', agent')
  BY <1>1, StartKept
<1>3. retained \subseteq ToSet(toAgent') /\ ToSet(toAgent') \subseteq ToSet(toAgent) \cup retained
  BY <1>1, ResumedContents DEF QueueInv
<1>4. Delivered(retained', toAgent', tree', pend', job', outbox')
  BY <1>1, <1>3 DEF Delivered, MirrorFine, Coming
<1> QED
  BY <1>2, <1>4, FinePrimed

\* Every step of the system.
LEMMA FineKept ==
  ASSUME OneParent, IndInv, MirrorFine, [Next]_vars
  PROVE  MirrorFine'
<1> USE DEF IndInv
<1>1. Kept(tree, disk, pend, job, outbox, agent)
  BY DEF MirrorFine
<1> DEFINE Quiet == UNCHANGED <<retained, toAgent>>
<1>2. ASSUME NEW kind, NEW m \in Message, GivenMsg(m), UserPublishes(kind, m) PROVE MirrorFine'
  <2>1. Publish(m) /\ UNCHANGED <<tree, pend, disk, job, outbox, agent>>
    BY <1>2 DEF UserPublishes, storeVars
  <2>2. Kept(tree', disk', pend', job', outbox', agent')
    BY <1>1, <2>1
  <2> QED
    BY <1>2, <2>1, <2>2, PublishedFine
<1>3. Registrations \subseteq Given
  BY MirrorAssumption DEF Given
<1>4. CASE UserRegisters
  <2>1. PICK r \in Registrations : UserPublishes("register", RegMsg(r))
    BY <1>4 DEF UserRegisters
  <2>2. RegMsg(r) \in Message /\ GivenMsg(RegMsg(r))
    BY <1>3, MessagesTyped, MirrorAssumption DEF GivenMsg, RegMsg
  <2> QED
    BY <1>2, <2>1, <2>2
<1>5. CASE UserClears
  <2>1. PICK t \in Cleared : UserPublishes("clear", ClearMsg(t))
    BY <1>5 DEF UserClears
  <2>2. ClearMsg(t) \in Message /\ GivenMsg(ClearMsg(t))
    BY MessagesTyped, MirrorAssumption DEF GivenMsg, ClearMsg
  <2> QED
    BY <1>2, <2>1, <2>2
<1>6. CASE UserReports
  <2>1. PICK t \in Reporting : UserPublishes("health", HealthMsg(t))
    BY <1>6 DEF UserReports
  <2>2. HealthMsg(t) \in Message /\ GivenMsg(HealthMsg(t))
    BY MessagesTyped, MirrorAssumption DEF GivenMsg, HealthMsg
  <2> QED
    BY <1>2, <2>1, <2>2
<1>7. CASE UserCreates
  <2>1. PICK r \in Registrations : HandleCreate(r) /\ Quiet
    BY <1>7 DEF UserCreates, UserCalls, brokerVars
  <2> QED
    BY <1>1, <1>3, <2>1, RegistrationKept, StoreStepFine
<1>8. CASE UserDeletes
  <2>1. PICK t \in Cleared : HandleDeregister(t) /\ Quiet
    BY <1>8 DEF UserDeletes, UserCalls, brokerVars
  <2> QED
    BY <1>1, <2>1, MirrorAssumption, DeregisterKept, StoreStepFine
<1>9. CASE UserPatches
  <2>1. PICK r \in Registrations, on \in BOOLEAN : HandlePatch(r.topic, on) /\ Quiet
    BY <1>9 DEF UserPatches, UserCalls, brokerVars
  <2>2. r.topic \in Topics
    BY MirrorAssumption, ParentTyped
  <2> QED
    BY <1>1, <2>1, <2>2, PatchKept, StoreStepFine
<1>10. CASE AgentPublishes
  <2> DEFINE m == Head(outbox)
             o == Tail(outbox)
  <2>1. /\ outbox \in Seq(Message) /\ outbox # <<>> /\ Publish(m) /\ outbox' = o
        /\ UNCHANGED <<tree, pend, disk, job, agent>>
    BY <1>10 DEF AgentPublishes, StoreInv
  <2>2. ToSet(outbox) = {m} \cup ToSet(o) /\ m \in Message
    BY <2>1, ContentsOf
  <2> HIDE DEF m, o
  <2>3. Kept(tree', disk', pend', job', outbox', agent') /\ GivenMsg(m)
    BY <1>1, <2>1, <2>2 DEF Kept
  <2>4. ToSet(outbox) \subseteq ToSet(outbox') \cup {m}
    BY <2>1, <2>2
  <2> QED
    BY <2>1, <2>2, <2>3, <2>4, PublishedFine
<1>11. CASE AgentReceives
  BY <1>11, ReceivedFine
<1>12. CASE AgentSteps
  <2>1. StoreStep /\ Quiet
    BY <1>12 DEF AgentSteps, brokerVars
  <2>2. StepKept
    BY <1>1, <2>1, TakeKept, ChildKept, AutoKept, AnnounceKept DEF StoreStep
  <2> QED
    BY <2>1, <2>2, StoreStepFine
<1>13. CASE MapperReceives \/ MapperConverts \/ MapperRestarts \/ UNCHANGED vars
  <2>1. UNCHANGED <<tree, pend, disk, job, outbox, agent>> /\ Quiet
    BY <1>13 DEF MapperReceives, MapperConverts, MapperRestarts, vars, brokerVars, storeVars
  <2>2. StepKept
    BY <1>1, <2>1 DEF StepKept
  <2> QED
    BY <2>1, <2>2, StoreStepFine
<1>14. CASE AgentRestarts
  BY <1>14, RestartedFine
<1> QED
  BY <1>4, <1>5, <1>6, <1>7, <1>8, <1>9, <1>10, <1>11, <1>12, <1>13, <1>14 DEF Next

LEMMA FineSuffices ==
  ASSUME OneParent, IndInv, MirrorFine
  PROVE  NoneForgotten
<1> USE DEF IndInv
<1>1. Kept(tree, disk, pend, job, outbox, agent)
  BY DEF MirrorFine
<1>2. PendingAwaitsParent
  <2> SUFFICES ASSUME job = NoJob, NEW t \in Topics, pend.entities[t] # None
               PROVE  ParentFor(pend.entities[t].reg) \notin Registered(tree)
    BY DEF PendingAwaitsParent
  <2> DEFINE r == pend.entities[t].reg
  <2>1. job.stack = <<>> /\ Listed(Registered(tree), pend, job.stack, job.batch)
    BY <1>1 DEF NoJob, Kept, Waiting
  <2>2. r \in Given /\ r.parent \notin Registered(tree)
    BY <2>1, Nothing DEF Listed
  <2> QED
    BY <2>2, GivenTyped
<1>3. NothingLost
  <2> SUFFICES ASSUME AgentAtRest, NEW m \in retained, m.kind = "reg"
               PROVE  m.topic \in Registered(tree) \/ pend.entities[m.topic] # None
    BY DEF NothingLost
  <2>1. toAgent = <<>> /\ outbox = <<>> /\ job.batch = <<>>
    BY DEF AgentAtRest, NoJob
  <2>2. Coming(m.topic, toAgent) \/ Holds(m.topic, tree, pend, job, outbox)
    BY DEF MirrorFine, Delivered
  <2> QED
    BY <2>1, <2>2, Nothing DEF Coming, Holds
<1>4. ReplayCovers
  <2> SUFFICES ASSUME NEW t \in Registered(tree)
               PROVE  /\ disk.entities[t] # None
                      /\ [disk.entities[t] EXCEPT !.twin = tree.entities[t].twin] = tree.entities[t]
    BY DEF ReplayCovers
  <2> DEFINE a == tree.entities[t]
             b == disk.entities[t]
  <2>1. /\ t \in Registered(disk) /\ b.type = a.type /\ b.parent = a.parent /\ b.id = a.id
    BY <1>1 DEF Kept, CoveredBy
  <2>2. a \in Entity /\ b \in Entity
    BY <2>1, EntitiesTyped DEF StoreInv, Good
  <2>3. [b EXCEPT !.twin = a.twin] = a
    <3> HIDE DEF a, b
    <3> QED
      BY <2>1, <2>2 DEF Entity
  <2> QED
    BY <2>1, <2>3 DEF Registered
<1> QED
  BY <1>2, <1>3, <1>4 DEF NoneForgotten

\* Whatever the order of the messages, of the requests and of the restarts: a
\* registration waits only for a parent which is not registered, an agent at rest has
\* registered, or keeps pending, each entity the broker retains, and its message log
\* gives back each registered entity (update, take_cached_child_entities_data and
\* register_and_persist_entity); provided that each entity has one parent, always given.
THEOREM NoneIsForgotten ==
  ASSUME OneParent
  PROVE  Spec => []NoneForgotten
<1>1. Init => IndInv /\ MirrorFine
  <2> SUFFICES ASSUME Init PROVE IndInv /\ MirrorFine
    OBVIOUS
  <2>1. Kept(tree, disk, pend, job, outbox, agent)
    BY StartKept DEF Init, StoreInit
  <2>2. Delivered(retained, toAgent, tree, pend, job, outbox)
    BY Nothing DEF Init, Delivered
  <2> QED
    BY <2>1, <2>2, InitInv DEF MirrorFine
<1>2. IndInv /\ MirrorFine /\ [Next]_vars => (IndInv /\ MirrorFine)'
  BY InvariantKept, FineKept
<1>3. IndInv /\ MirrorFine => NoneForgotten
  BY FineSuffices
<1> QED
  BY <1>1, <1>2, <1>3, PTL DEF Spec
=============================================================================
