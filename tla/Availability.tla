----------------------------- MODULE Availability -----------------------------
(* The availability monitoring of the Cumulocity mapper                        *)
(* (c8y_mapper_ext/availability), composed with the timer actor: a heartbeat   *)
(* is sent for each device, periodically, as long as its health endpoint is    *)
(* up. A timer is requested for a device when it is registered, and again each *)
(* time the former one completes.                                              *)
EXTENDS TimerActor

CONSTANTS
  Devices,      \* the devices
  Main,         \* the main device, monitored from the start
  Endpoints,    \* the services used as health endpoints
  Agent,        \* the default health endpoint of each device
  Sync,         \* what the other timer is for: the alarms of the mapper
  MaxUpdates    \* bound on the registrations received

ASSUME AvailabilityAssumption ==
  /\ Main \in Devices /\ Agent \in [Devices -> Endpoints]
  /\ Payloads = Devices \cup {Sync} /\ Sync \notin Devices
  /\ Nothing \notin Payloads \cup Endpoints
  /\ MaxUpdates \in Nat

VARIABLES
  inbox,      \* the messages received by the actor
  endpoint,   \* device_ids_map: the health endpoint of each monitored device
  health,     \* health_status_map: the last status received of each endpoint
  sending,    \* the device a timer is being requested for
  told,       \* the devices whose required interval the cloud has been told
  beat,       \* the device a heartbeat is sent for by this step
  synced,     \* whether the other timer has been requested
  updates

availabilityVars == <<inbox, endpoint, health, sending, told, beat, synced, updates>>
vars == <<timerVars, availabilityVars>>

Registration(d, e, id) == [device |-> d, endpoint |-> e, id |-> id]
HealthStatus(e, s) == [service |-> e, status |-> s]
TimerComplete(d) == [timeout |-> d]
Messages ==
  [device : Devices, endpoint : Endpoints \cup {"invalid"}, id : BOOLEAN]
    \cup [service : Endpoints, status : {"up", "down"}] \cup [timeout : Devices]

\* init: the main device is monitored, and its timer about to be requested.
Init ==
  /\ TimerInit
  /\ inbox = <<>> /\ endpoint = [d \in Devices |-> IF d = Main THEN Agent[d] ELSE Nothing]
  /\ health = [e \in Endpoints |-> Nothing]
  /\ sending = Main /\ told = {Main} /\ beat = Nothing /\ synced = FALSE /\ updates = 0

------------------------------------------------------------------------------
(* The messages of the other components.                                       *)

\* A device is registered, with or without an external id, with a health
\* endpoint, the default one, or an invalid one; the registrations of services
\* are ignored.
Register(d) ==
  /\ updates < MaxUpdates /\ Len(inbox) < Capacity
  /\ updates' = updates + 1
  /\ \E e \in {Agent[d], "invalid"} \cup Endpoints, id \in BOOLEAN :
       inbox' = Append(inbox, Registration(d, e, id))
  /\ beat' = Nothing
  /\ UNCHANGED <<timerVars, endpoint, health, sending, told, synced>>

\* A service tells its status.
TellHealth(e) ==
  /\ Len(inbox) < Capacity
  /\ \E s \in {"up", "down"} : inbox' = Append(inbox, HealthStatus(e, s))
  /\ beat' = Nothing
  /\ UNCHANGED <<timerVars, endpoint, health, sending, told, synced, updates>>

\* The mapper requests its own timer, once.
RequestSync ==
  /\ ~synced /\ synced' = TRUE
  /\ Requested(Sync)
  /\ beat' = Nothing
  /\ UNCHANGED <<timers, current, firing, late, inbox, endpoint, health, sending, told, updates>>

------------------------------------------------------------------------------
(* The availability actor.                                                     *)

Receives(field) == sending = Nothing /\ inbox # <<>> /\ field \in DOMAIN Head(inbox)

\* process_registration_message, update_device_service_pair: skipped when invalid,
\* without an id, or when the health endpoint is unchanged.
ProcessRegistration ==
  /\ Receives("endpoint")
  /\ inbox' = Tail(inbox)
  /\ LET m == Head(inbox)
         taken == m.endpoint \in Endpoints /\ m.id /\ endpoint[m.device] # m.endpoint
     IN  /\ endpoint' = IF taken THEN [endpoint EXCEPT ![m.device] = m.endpoint] ELSE endpoint
         /\ told' = IF taken THEN told \cup {m.device} ELSE told
         /\ sending' = IF taken THEN m.device ELSE Nothing
  /\ beat' = Nothing
  /\ UNCHANGED <<timerVars, health, synced, updates>>

ProcessHealth ==
  /\ Receives("service")
  /\ inbox' = Tail(inbox)
  /\ health' = [health EXCEPT ![Head(inbox).service] = Head(inbox).status]
  /\ beat' = Nothing
  /\ UNCHANGED <<timerVars, endpoint, sending, told, synced, updates>>

\* process_timer_complete: a heartbeat if the endpoint is up, and a new timer
\* whatever its status.
ProcessTimeout_UpOnly ==
  /\ Receives("timeout")
  /\ inbox' = Tail(inbox)
  /\ LET d == Head(inbox).timeout
         up == endpoint[d] # Nothing /\ health[endpoint[d]] = "up"
     IN  /\ beat' = IF up THEN d ELSE Nothing
         /\ sending' = IF up THEN d ELSE Nothing
  /\ UNCHANGED <<timerVars, endpoint, health, told, synced, updates>>

ProcessTimeout ==
  /\ Receives("timeout")
  /\ inbox' = Tail(inbox)
  /\ LET d == Head(inbox).timeout
     IN  /\ beat' = IF endpoint[d] # Nothing /\ health[endpoint[d]] = "up" THEN d ELSE Nothing
         /\ sending' = IF endpoint[d] # Nothing THEN d ELSE Nothing
  /\ UNCHANGED <<timerVars, endpoint, health, told, synced, updates>>

\* start_heartbeat_timer.
StartHeartbeatTimer ==
  /\ sending # Nothing
  /\ Requested(sending)
  /\ sending' = Nothing /\ beat' = Nothing
  /\ UNCHANGED <<timers, current, firing, late, inbox, endpoint, health, told, synced, updates>>

------------------------------------------------------------------------------
(* The timer actor.                                                            *)

Timer ==
  /\ HandleRequest \/ Elapse
  /\ beat' = Nothing
  /\ UNCHANGED <<inbox, endpoint, health, sending, told, synced, updates>>

\* A timeout is sent to its client; the mapper, which is never busy, takes its own.
SendTimeout ==
  /\ firing # Nothing
  /\ Triggered(firing)
  /\ IF firing = Sync THEN UNCHANGED inbox
     ELSE Len(inbox) < Capacity /\ inbox' = Append(inbox, TimerComplete(firing))
  /\ beat' = Nothing
  /\ UNCHANGED <<endpoint, health, sending, told, synced, updates>>

Tick ==
  /\ Elapsing
  /\ beat' = Nothing
  /\ UNCHANGED <<inbox, endpoint, health, sending, told, synced, updates>>

------------------------------------------------------------------------------

Steps ==
  \/ ProcessRegistration \/ ProcessHealth \/ ProcessTimeout \/ StartHeartbeatTimer
  \/ Timer \/ SendTimeout

Next ==
  \/ Steps \/ Tick \/ RequestSync
  \/ \E d \in Devices : Register(d)
  \/ \E e \in Endpoints : TellHealth(e)

Spec == Init /\ [][Next]_vars

\* The actors process their messages, time goes on. A timeout awaiting room in
\* a box gets it before long: the senders to a box are served in turn.
FairSpec ==
  /\ Spec
  /\ WF_vars(ProcessRegistration \/ ProcessHealth \/ ProcessTimeout) /\ WF_vars(StartHeartbeatTimer)
  /\ WF_vars(Timer) /\ SF_vars(SendTimeout) /\ WF_vars(Tick)

\* The state is well formed.
TypeOK ==
  /\ TimerTypeOK
  /\ inbox \in Seq(Messages) /\ Len(inbox) <= Capacity
  /\ endpoint \in [Devices -> Endpoints \cup {Nothing}]
  /\ health \in [Endpoints -> {"up", "down", Nothing}]
  /\ sending \in Devices \cup {Nothing} /\ beat \in Devices \cup {Nothing}
  /\ told \subseteq Devices /\ synced \in BOOLEAN /\ updates \in 0 .. MaxUpdates

\* The next heartbeat of a device is being prepared: there is a timer for it, a
\* request of one, or a timeout on its way.
Pending(d) ==
  \/ sending = d \/ firing = d
  \/ \E i \in DOMAIN requests : requests[i] = d
  \/ \E i \in DOMAIN timers : timers[i].payload = d
  \/ \E i \in DOMAIN inbox : "timeout" \in DOMAIN inbox[i] /\ inbox[i].timeout = d

\* A monitored device is never forgotten: there is a timer for it, a request of
\* one, or a timeout on its way; and none for a device that is not monitored. A
\* timer is overdue only for the time the timer actor has spent awaiting room for a
\* timeout, whatever the order the timers are requested in.
Monitored ==
  /\ OnTime
  /\ \A d \in Devices : endpoint[d] # Nothing <=> Pending(d)

\* A device whose health endpoint is up gets heartbeats for ever, with as many other
\* devices and services as the boxes have room for.
HeartbeatsGoOn ==
  \A d \in Devices :
    <>[](endpoint[d] # Nothing /\ health[endpoint[d]] = "up") => []<>(beat = d)
=============================================================================
