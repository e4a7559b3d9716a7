------------------------- MODULE PendingEntityStore -------------------------
(* What the agent and the Cumulocity mapper keep for the entities which cannot *)
(* be registered yet: registrations received before the one of their parent,  *)
(* and data received before the registration of its source                    *)
(* (tedge_api/src/store/pending_entity_store.rs).                              *)
EXTENDS Sequences

CONSTANTS
  Topics,    \* the topic identifiers of the entities
  None       \* no entity, no parent, no message

\* The channels of an entity a message can be received on. Registrations and
\* clearing messages are on the first one.
DataKinds == {"twin", "health"}

\* PendingEntityStore::new: the children awaiting each parent, in their order
\* of arrival, and what is known of each entity, telemetry left out.
NoPending ==
  [orphans |-> [t \in Topics |-> <<>>], entities |-> [t \in Topics |-> None]]

\* PendingEntityCache::new
NewCache == [reg |-> None, data |-> <<>>]

CacheOf(p, t) == IF p.entities[t] = None THEN NewCache ELSE p.entities[t]

\* cache_early_registration_message: an earlier registration of the same entity
\* is replaced, but the entity is kept among the orphans of the former parent.
CacheRegistration(p, r) ==
  [orphans  |-> [p.orphans EXCEPT ![r.parent] = Append(@, r.topic)],
   entities |-> [p.entities EXCEPT ![r.topic] = [CacheOf(p, r.topic) EXCEPT !.reg = r]]]

\* cache_early_data_message
CacheData(p, m) ==
  [p EXCEPT !.entities[m.topic] = [CacheOf(p, m.topic) EXCEPT !.data = Append(@, m)]]

\* take_cached_entity_data: the data received before the registration of t.
CachedData(p, t) == CacheOf(p, t).data

WithoutEntity(p, t) == [p EXCEPT !.entities[t] = None]

\* take_cached_child_entities_data, one child at a time and depth first: s.stack
\* holds the children still to be taken, s.out the ones taken so far, parents
\* before children.
TakeStart(p, t) ==
  [stack |-> p.orphans[t], out |-> <<>>, pend |-> [p EXCEPT !.orphans[t] = <<>>]]

TakeOne_Shallow(s) ==
  LET c == Head(s.stack)
  IN  IF s.pend.entities[c] = None
      THEN [s EXCEPT !.stack = Tail(@)]
      ELSE [stack |-> Tail(s.stack), out |-> Append(s.out, s.pend.entities[c]),
            pend  |-> WithoutEntity(s.pend, c)]

\* A child registered or taken meanwhile has no entry any more.
TakeOne(s) ==
  LET c == Head(s.stack)
  IN  IF s.pend.entities[c] = None
      THEN [s EXCEPT !.stack = Tail(@)]
      ELSE [stack |-> s.pend.orphans[c] \o Tail(s.stack),
            out   |-> Append(s.out, s.pend.entities[c]),
            pend  |-> [WithoutEntity(s.pend, c) EXCEPT !.orphans[c] = <<>>]]

\* registered_data_from_cache unwraps the registration message of the child.
TakePanics(s) ==
  LET c == Head(s.stack)
  IN  s.pend.entities[c] # None /\ s.pend.entities[c].reg = None
=============================================================================
