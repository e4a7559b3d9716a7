------------------------------- MODULE Batcher -------------------------------
(* Grouping events that are close in time (crates/common/batcher, used by the  *)
(* collectd mapper): the batches of the batcher, and the timers of the driver  *)
(* that closes them.                                                           *)
(*                                                                             *)
(* A batch covers an interval of time. It is closed when no event of its       *)
(* interval is expected any more. It never holds two events of the same key:   *)
(* it is split between them.                                                   *)
EXTENDS Integers, FiniteSetsExt

CONSTANTS
  Keys,            \* the keys of the events: the names of metrics
  Times,           \* the times of the events
  EventJitter,     \* the batching window: the length of an interval
  DeliveryJitter,  \* the delay after which an event is too old
  LeapLimit,       \* how far in the future the time of an event may be
  MaxTime          \* bound on the clock

ASSUME BatchAssumption ==
  /\ Times \subseteq Nat
  /\ EventJitter \in Nat /\ DeliveryJitter \in Nat /\ LeapLimit \in Nat /\ MaxTime \in Nat

Events == [key : Keys, time : Times]

VARIABLES
  now,        \* the clock
  batches,    \* the open batches: interval and events
  timers,     \* when the driver has to look for batches to close
  accepted,   \* the events taken and not found to be duplicates
  delivered,  \* the closed batches, sent to the mapper
  driving     \* whether the driver is running

batchVars == <<now, batches, timers, accepted, delivered, driving>>

Batch(start, end, events) == [start |-> start, end |-> end, events |-> events]

BatchInit ==
  /\ now = 0 /\ batches = {} /\ timers = {}
  /\ accepted = {} /\ delivered = {} /\ driving = TRUE

------------------------------------------------------------------------------
(* The batcher.                                                                *)

TooOld(e) == e.time < now - DeliveryJitter
Futuristic(e) == e.time > now + LeapLimit

\* find_target_batch, which takes any one of the batches sharing a bound.
Targets_Near(e) == {b \in batches : b.start - EventJitter <= e.time /\ e.time <= b.end}
Targets(e) == {b \in batches : b.start <= e.time /\ e.time <= b.end}

\* make_new_batch: the interval is cut where the next batch starts, and the
\* previous one cannot reach into it.
NewBatch(e) ==
  LET nexts == {b.start : b \in {c \in batches : c.start > e.time}}
  IN  Batch(e.time, Min({e.time + EventJitter} \cup nexts), {e})

\* midpoint: the quotient is rounded towards zero.
Midpoint(existing, new) ==
  IF existing >= new THEN new + (existing - new) \div 2
  ELSE new - (new - existing) \div 2

\* HashMap::insert for the events from - of which e comes last - in a map by key.
Insert(from, e) == IF e \in from THEN {f \in from : f.key # e.key} \cup {e} ELSE from

\* Batch::split, of which a batch keeps the first part.
Before(b, e, point) == Insert({f \in b.events \cup {e} : f.time < point}, e)
After(b, e, point) == Insert({f \in b.events \cup {e} : f.time >= point}, e)
Split_NotStored(b, existing, e) ==
  LET point == Midpoint(existing.time, e.time)
  IN  << Batch(b.start, point, {f \in b.events : f.time < point}),
         Batch(point, b.end, {f \in b.events : f.time >= point}) >>
Split(b, existing, e) ==
  LET point == Midpoint(existing.time, e.time)
  IN  << Batch(b.start, point, Before(b, e, point)), Batch(point, b.end, After(b, e, point)) >>

\* is_open and time: the batches closed at a time, and the ones left.
Open(b) == b.end + DeliveryJitter > now
Close_One(all) ==
  \E c \in all :
    /\ batches' = {b \in all : Open(b) \/ b # c}
    /\ delivered' = delivered \cup {b \in all : ~Open(b) /\ b = c}
Close(all) ==
  /\ batches' = {b \in all : Open(b)}
  /\ delivered' = delivered \cup {b \in all : ~Open(b)}

\* output_for_batch_end: a timer for the end of a batch, or the closed batches.
OutputForBatchEnd(all, end) ==
  IF now < end + DeliveryJitter
  THEN timers' = timers \cup {end + DeliveryJitter} /\ batches' = all /\ UNCHANGED delivered
  ELSE Close(all) /\ UNCHANGED timers

------------------------------------------------------------------------------
(* The driver.                                                                 *)

\* time_to_next_timer: the earliest timer is past.
Past == {t \in timers : t < now /\ \A u \in timers : t <= u}

\* An event is received; a timer may be past since the driver looked at them last.
Discarded(e) ==
  /\ driving
  /\ TooOld(e) \/ Futuristic(e)
  /\ UNCHANGED batchVars

FirstOfBatch(e) ==
  /\ driving
  /\ ~TooOld(e) /\ ~Futuristic(e)
  /\ Targets(e) = {}
  /\ OutputForBatchEnd(batches \cup {NewBatch(e)}, NewBatch(e).end)
  /\ accepted' = accepted \cup {e}
  /\ UNCHANGED <<now, driving>>

\* The event is added to a batch, is a duplicate, or splits the batch.
Added(e) ==
  /\ driving
  /\ ~TooOld(e) /\ ~Futuristic(e)
  /\ \E b \in Targets(e) :
       /\ \A f \in b.events : f.key # e.key
       /\ batches' = (batches \ {b}) \cup {[b EXCEPT !.events = @ \cup {e}]}
  /\ accepted' = accepted \cup {e}
  /\ UNCHANGED <<now, timers, delivered, driving>>

Duplicate(e) ==
  /\ driving
  /\ ~TooOld(e) /\ ~Futuristic(e)
  /\ \E b \in Targets(e) : e \in b.events
  /\ UNCHANGED batchVars

SplitBatch(e) ==
  /\ driving
  /\ ~TooOld(e) /\ ~Futuristic(e)
  /\ \E b \in Targets(e) : \E f \in {g \in b.events : g.key = e.key /\ g.time # e.time} :
       LET halves == Split(b, f, e)
       IN  OutputForBatchEnd((batches \ {b}) \cup {halves[1], halves[2]}, halves[1].end)
  /\ accepted' = accepted \cup {e}
  /\ UNCHANGED <<now, driving>>

\* The earliest timer is past: it is removed, and the batches of the past closed.
Timeout ==
  /\ driving
  /\ \E t \in Past : timers' = timers \ {t}
  /\ Close(batches)
  /\ UNCHANGED <<now, accepted, driving>>

\* The driver is told to stop: what is open is sent as it is.
Flush ==
  /\ driving
  /\ driving' = FALSE
  /\ batches' = {} /\ delivered' = delivered \cup batches
  /\ UNCHANGED <<now, timers, accepted>>

Tick ==
  /\ now < MaxTime
  /\ now' = now + 1
  /\ UNCHANGED <<batches, timers, accepted, delivered, driving>>

------------------------------------------------------------------------------

Receive(e) == FirstOfBatch(e) \/ Added(e) \/ SplitBatch(e) \/ Discarded(e) \/ Duplicate(e)

BatchNext == Timeout \/ Flush \/ Tick \/ \E e \in Events : Receive(e)

BatchSpec == BatchInit /\ [][BatchNext]_batchVars

\* Time goes on, and the driver looks at its timers.
FairBatchSpec == BatchSpec /\ WF_batchVars(Tick) /\ WF_batchVars(Timeout)

All == batches \cup delivered

\* The state is well formed.
BatchTypeOK ==
  /\ now \in 0 .. MaxTime /\ driving \in BOOLEAN
  /\ timers \subseteq Nat /\ accepted \subseteq Events
  /\ All \subseteq [start : Nat, end : Nat, events : SUBSET Events]

\* The events of a batch are of different keys, and no further apart than the
\* batching window.
Grouped ==
  \A b \in All :
    /\ \A e, f \in b.events : e.key = f.key => e = f
    /\ \A e \in b.events : b.start <= e.time /\ e.time <= b.end
    /\ b.end <= b.start + EventJitter

\* The driver has a timer for each open batch, the first half of a split one
\* included.
Timed == \A b \in batches : b.end + DeliveryJitter \in timers

\* An event taken is in some batch, whatever the splits it has been through, and
\* in no other, unless it is received again at the very time where one batch ends
\* and the other starts; and each open batch has its timer.
KeptOnce ==
  /\ Timed
  /\ \A e \in accepted : \E b \in All : e \in b.events
  /\ \A b, c \in All : \A e \in b.events \cap c.events :
       b # c => \/ e.time = b.end /\ e.time = c.start
                \/ e.time = c.end /\ e.time = b.start

\* Every event taken is sent, a moment after no other is expected in its batch.
Delivered == \A e \in Events :
  e \in accepted ~> \E b \in delivered : e \in b.events
=============================================================================
