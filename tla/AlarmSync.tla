------------------------------ MODULE AlarmSync ------------------------------
(***************************************************************************)
(* The alarms of the Cumulocity mapper (alarm_converter.rs).  An alarm is  *)
(* a retained MQTT message.  The mapper forwards each change to the cloud  *)
(* and keeps, for its next start, a retained copy of what it has sent.  On *)
(* start it collects for a while the alarms and the copies the broker      *)
(* replays, then sends what differs: what has been raised or cleared while *)
(* it was down.                                                            *)
(***************************************************************************)
EXTENDS Naturals, Sequences, FiniteSets, SequencesExt, Selections

CONSTANTS
  Alarms,       \* the topics of the alarms
  Payloads,     \* what an alarm may be raised with
  Malformed,    \* the payloads that cannot be parsed
  Clear,        \* an empty payload; for a topic, no retained message
  Unseen,       \* no message received about an alarm since the start
  Queued,       \* the alarms the broker holds for the mapper when it is down
  MaxChanges,   \* bound on the changes made by the users
  MaxCrashes    \* bound on the crashes of the mapper

ASSUME AlarmAssumptions ==
  /\ Malformed \subseteq Payloads /\ Queued \subseteq Alarms
  /\ IsFiniteSet(Alarms)   \* topics of bounded length
  /\ Clear \notin Payloads /\ Unseen \notin Payloads \cup {Clear}
  /\ MaxChanges \in Nat /\ MaxCrashes \in Nat

VARIABLES
  raised,   \* the retained messages of the alarm topics
  copies,   \* the retained messages of the internal topics
  cloud,    \* the alarms as known by the cloud
  inbox,    \* what the broker has to deliver to the mapper
  mapper,   \* "down", "syncing" or "synced"
  pending,  \* pending_alarms_map
  old,      \* old_alarms_map
  todo,     \* the messages found by sync() that are still to be processed
  outbox,   \* what the mapper has to publish
  torn,     \* history: the alarms sent to the cloud whose copy has been lost
  late,     \* history: those whose copies had not all come when the sync window ended
  changes, crashes

converterVars == <<mapper, pending, old>>
brokerVars == <<raised, copies, cloud>>
historyVars == <<torn, late>>
boundVars == <<changes, crashes>>
vars == <<brokerVars, inbox, converterVars, todo, outbox, historyVars, boundVars>>

Alarm(a, p) == [on |-> "alarm", id |-> a, payload |-> p]
Copy(a, p)  == [on |-> "copy", id |-> a, payload |-> p]
Cloud(a, p) == [on |-> "cloud", id |-> a, payload |-> p]
NoneSeen    == [a \in Alarms |-> Unseen]

TypeOK ==
  /\ raised \in [Alarms -> Payloads \cup {Clear}]
  /\ copies \in [Alarms -> Payloads \cup {Clear}]
  /\ cloud \in [Alarms -> Payloads \cup {Clear}]
  /\ inbox \in Seq([on : {"alarm", "copy"}, id : Alarms, payload : Payloads \cup {Clear}])
  /\ mapper \in {"down", "syncing", "synced"}
  /\ pending \in [Alarms -> Payloads \cup {Clear, Unseen}]
  /\ old \in [Alarms -> Payloads \cup {Clear, Unseen}]
  /\ todo \subseteq [on : {"alarm"}, id : Alarms, payload : Payloads \cup {Clear}]
  /\ outbox \in Seq([on : {"cloud", "copy"}, id : Alarms, payload : Payloads \cup {Clear}])
  /\ torn \subseteq Alarms /\ late \subseteq Alarms
  /\ changes \in 0..MaxChanges /\ crashes \in 0..MaxCrashes

-----------------------------------------------------------------------------
(* The users and the broker *)

\* An alarm is raised, raised differently, or cleared.
Change(a, p) ==
  /\ changes < MaxChanges /\ p # raised[a]
  /\ changes' = changes + 1
  /\ raised' = [raised EXCEPT ![a] = p]
  /\ inbox' = IF mapper # "down" \/ a \in Queued THEN Append(inbox, Alarm(a, p)) ELSE inbox
  /\ UNCHANGED <<copies, cloud, converterVars, todo, outbox, historyVars, crashes>>

\* The broker takes what the mapper publishes; the bridge forwards the alarms,
\* and the mapper is subscribed to its own copies.
Deliver ==
  /\ outbox # <<>>
  /\ LET m == Head(outbox)
     IN \/ /\ m.on = "cloud"
           /\ cloud' = [cloud EXCEPT ![m.id] = m.payload]
           /\ UNCHANGED <<copies, inbox, torn>>
        \/ /\ m.on = "copy"
           /\ copies' = [copies EXCEPT ![m.id] = m.payload]
           /\ inbox' = Append(inbox, m)
           /\ torn' = torn \ {m.id}
           /\ UNCHANGED cloud
  /\ outbox' = Tail(outbox)
  /\ UNCHANGED <<raised, converterVars, todo, late, boundVars>>

-----------------------------------------------------------------------------
(* The mapper *)

\* The conversion of an alarm, once synced: nothing for a payload that cannot be
\* parsed, else a message for the cloud followed by a copy for the next start.
Converted(m) ==
  IF m.payload \in Malformed THEN <<>>
  ELSE <<Cloud(m.id, m.payload), Copy(m.id, m.payload)>>

Receive ==
  /\ mapper # "down" /\ todo = {} /\ inbox # <<>>
  /\ inbox' = Tail(inbox)

\* try_convert_alarm()
TryConvertAlarm ==
  /\ Receive /\ Head(inbox).on = "alarm"
  /\ LET m == Head(inbox)
     IN \/ /\ mapper = "syncing"
           /\ pending' = [pending EXCEPT ![m.id] = m.payload]
           /\ UNCHANGED outbox
        \/ /\ mapper = "synced"
           /\ outbox' = outbox \o Converted(m)
           /\ UNCHANGED pending
  /\ UNCHANGED <<brokerVars, mapper, old, todo, historyVars, boundVars>>

\* process_internal_alarm(): copies are of use while syncing only.
ProcessInternalAlarm ==
  /\ Receive /\ Head(inbox).on = "copy"
  /\ old' = IF mapper = "syncing"
            THEN [old EXCEPT ![Head(inbox).id] = Head(inbox).payload] ELSE old
  /\ UNCHANGED <<brokerVars, mapper, pending, todo, outbox, historyVars, boundVars>>

\* sync(): the alarms with a copy that are no more raised, and those that differ
\* from their copy.
Missed_RaisedOnly ==
  {Alarm(a, pending[a]) : a \in {b \in Alarms : pending[b] \notin {Unseen, old[b]}}}
Missed_All ==
  {Alarm(a, Clear) : a \in {b \in Alarms : old[b] # Unseen /\ pending[b] = Unseen}}
    \cup {Alarm(a, pending[a]) : a \in {b \in Alarms : pending[b] # Unseen}}
Missed ==
  {Alarm(a, Clear) : a \in {b \in Alarms : old[b] # Unseen /\ pending[b] = Unseen}}
    \cup {Alarm(a, pending[a]) : a \in {b \in Alarms : pending[b] \notin {Unseen, old[b]}}}

\* process_sync_timeout(): three seconds after the start, whatever the broker has
\* replayed by then, what has been missed is processed, in an arbitrary order, before
\* any other message.
Awaited == {inbox[i].id : i \in {j \in DOMAIN inbox : inbox[j].on = "copy"}}
ProcessSyncTimeout ==
  /\ mapper = "syncing"
  /\ mapper' = "synced"
  /\ todo' = Missed
  /\ pending' = NoneSeen /\ old' = NoneSeen
  /\ late' = Awaited
  /\ UNCHANGED <<brokerVars, inbox, outbox, torn, boundVars>>

ProcessMissed ==
  /\ \E m \in todo : todo' = todo \ {m} /\ outbox' = outbox \o Converted(m)
  /\ UNCHANGED <<brokerVars, inbox, converterVars, historyVars, boundVars>>

\* The mapper loses what it has received and not published.  The broker keeps the
\* messages not received yet, when the subscription and the publisher ask for it.
\* An alarm and its copy are sent one after the other: a crash may separate them.
Kept(m) == m.on = "copy" \/ m.id \in Queued
Separated ==
  IF outbox # <<>> /\ Head(outbox).on = "copy" THEN {Head(outbox).id} ELSE {}
Crash ==
  /\ mapper # "down" /\ crashes < MaxCrashes
  /\ crashes' = crashes + 1
  /\ mapper' = "down"
  /\ pending' = NoneSeen /\ old' = NoneSeen
  /\ todo' = {} /\ outbox' = <<>>
  /\ torn' = torn \cup Separated /\ late' = {}
  /\ \E n \in 0..Len(inbox) :
       inbox' = Selected(inbox, {i \in (n + 1)..Len(inbox) : Kept(inbox[i])})
  /\ UNCHANGED <<brokerVars, changes>>

\* The mapper always subscribes on start, so it receives the retained messages,
\* after those the broker has kept.
Retained ==
  {Alarm(a, raised[a]) : a \in {b \in Alarms : raised[b] # Clear}}
    \cup {Copy(a, copies[a]) : a \in {b \in Alarms : copies[b] # Clear}}
Start ==
  /\ mapper = "down"
  /\ mapper' = "syncing"
  /\ \E q \in SetToSeqs(Retained) : inbox' = inbox \o q
  /\ UNCHANGED <<brokerVars, pending, old, todo, outbox, historyVars, boundVars>>

-----------------------------------------------------------------------------

Init ==
  /\ raised = [a \in Alarms |-> Clear] /\ copies = raised /\ cloud = raised
  /\ inbox = <<>> /\ mapper = "down"
  /\ pending = NoneSeen /\ old = NoneSeen /\ todo = {} /\ outbox = <<>>
  /\ torn = {} /\ late = {}
  /\ changes = 0 /\ crashes = 0

Mapper == TryConvertAlarm \/ ProcessInternalAlarm \/ ProcessMissed \/ Start

Next ==
  \/ \E a \in Alarms, p \in Payloads \cup {Clear} : Change(a, p)
  \/ Deliver \/ Mapper \/ ProcessSyncTimeout \/ Crash

Spec == Init /\ [][Next]_vars

\* The mapper is restarted by its service manager, serves its inbox, and its
\* timer ends the sync window; the broker delivers.  The users change nothing
\* unless they want to.
FairSpec == Spec /\ WF_vars(Deliver) /\ WF_vars(Mapper) /\ WF_vars(ProcessSyncTimeout)

-----------------------------------------------------------------------------
(* Properties *)

\* When the mapper has nothing to publish, be it down, the copy of an alarm tells
\* what the cloud knows of it, unless it has been lost: this is the ground the next
\* start compares the alarms with.
JournalTrue == outbox = <<>> => \A a \in Alarms \ torn : copies[a] = cloud[a]

\* No alarm the cloud already has is raised again by a start of the mapper:
\* "An alarm present in both, if their payload is the same, is one that was
\* already processed before the restart and hence can be ignored during sync".  This
\* fails for an alarm torn from its copy by a crash, until its next copy, and for one
\* whose copies have not all come within the sync window; for no other.
NothingResent ==
  /\ JournalTrue
  /\ \A m \in todo : m.payload = Clear \/ cloud[m.id] # m.payload \/ m.id \in torn \cup late

\* In the end the cloud shows the alarms that are raised, whatever is raised or
\* cleared while the mapper is down, starting or in the middle of its messages, and
\* whenever it crashes; but for the alarms torn from their copy or late, as above,
\* which may stay raised for ever (sync() is to "Detect and sync any alarms that were
\* raised/cleared while this mapper process was not running").
\* A malformed alarm leaves the former one as it is.
Agrees(a) == raised[a] \in Malformed \/ cloud[a] = raised[a]
Reconciled == \A a \in Alarms : <>[](Agrees(a) \/ a \in torn \cup late)

=============================================================================
