----------------------------- MODULE TimerActor -----------------------------
(* The timer actor shared by the actors of a mapper (tedge_timer_ext): it      *)
(* sleeps until the deadline of the most urgent timer, the others waiting for  *)
(* their turn. Its clients send requests over a channel of bounded capacity;   *)
(* it awaits room in the box of a client to send it a timeout.                 *)
(*                                                                             *)
(* A timer is modelled by the time left; the timers are in the order of their  *)
(* identifiers, the oldest first.                                              *)
EXTENDS Integers, SequencesExt

CONSTANTS
  Payloads,   \* what the timers are for
  Duration,   \* the duration requested for each
  Capacity,   \* the capacity of the message boxes
  MaxLate     \* bound on the time spent awaiting room in the box of a client

ASSUME TimerAssumption ==
  Duration \in [Payloads -> Nat \ {0}] /\ Capacity \in Nat \ {0} /\ MaxLate \in Nat

VARIABLES
  requests,  \* the requests received by the actor
  timers,    \* the pending timers: payload and time left
  current,   \* the position of the current timer, 0 if none
  firing,    \* the payload of a timeout awaiting room in the box of its client
  late       \* the time the actor has spent awaiting room

timerVars == <<requests, timers, current, firing, late>>

Nothing == "nothing"

TimerInit ==
  requests = <<>> /\ timers = <<>> /\ current = 0 /\ firing = Nothing /\ late = 0

\* A client has sent a request; it awaits room in the box of the timer actor.
Requested(p) == Len(requests) < Capacity /\ requests' = Append(requests, p)

\* The new timer is more urgent than the current one; on the same deadline, the
\* greater identifier comes first.
MoreUrgent_Never(t) == current = 0
MoreUrgent(t) == current = 0 \/ t.left <= timers[current].left

\* push: the former timer goes back to the others.
HandleRequest ==
  /\ firing = Nothing /\ requests # <<>>
  /\ LET t == [payload |-> Head(requests), left |-> Duration[Head(requests)]]
     IN  /\ timers' = Append(timers, t)
         /\ current' = IF MoreUrgent(t) THEN Len(timers) + 1 ELSE current
  /\ requests' = Tail(requests)
  /\ UNCHANGED <<firing, late>>

\* The first timer of those left: earliest deadline, then greatest identifier.
First(ts) ==
  IF ts = <<>> THEN 0
  ELSE CHOOSE i \in DOMAIN ts : \A j \in DOMAIN ts :
         ts[i].left < ts[j].left \/ (ts[i].left = ts[j].left /\ j <= i)

\* The current timer elapses. Its timeout is sent, then the next one started.
Elapse ==
  /\ firing = Nothing /\ current # 0 /\ timers[current].left <= 0
  /\ firing' = timers[current].payload
  /\ timers' = RemoveAt(timers, current)
  /\ current' = First(timers')
  /\ UNCHANGED <<requests, late>>

\* The timeout is in the box of its client.
Triggered(p) == firing = p /\ firing' = Nothing /\ UNCHANGED <<requests, timers, current, late>>

\* Time goes on: the actor is awake when the current timer elapses, unless it awaits
\* room for the timeout of another.
Elapsing ==
  /\ timers # <<>>
  /\ \/ firing = Nothing /\ timers[current].left > 0 /\ UNCHANGED late
     \/ firing # Nothing /\ late < MaxLate /\ late' = late + 1
  /\ timers' = [i \in DOMAIN timers |-> [timers[i] EXCEPT !.left = @ - 1]]
  /\ UNCHANGED <<requests, current, firing>>

\* The state of the timer actor is well formed.
TimerTypeOK ==
  /\ requests \in Seq(Payloads) /\ Len(requests) <= Capacity
  /\ timers \in Seq([payload : Payloads, left : Int])
  /\ current \in 0 .. Len(timers) /\ firing \in Payloads \cup {Nothing}
  /\ late \in 0 .. MaxLate

\* No timer is overdue by more than the time the actor has spent awaiting room: none
\* is due before the one it sleeps for.
OnTime == \A i \in DOMAIN timers : timers[i].left + late >= 0
=============================================================================
